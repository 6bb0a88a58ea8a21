CONSTANTS
  Depth = 2
  Lo <- MCLo2
  Hi <- MCHi2
  Outs = {a_out}
  Locs <- MCLocsLinear
  Val <- MCVal
  Idx <- MCIdxLinear
  Rhs <- MCRhs
  Candidates <- MCCandidatesLastRow
  Junk <- MCJunk
  Out0 <- MCOut0
SPECIFICATION Spec
INVARIANTS Z3VerifiedIsCorrect
CHECK_DEADLOCK FALSE
