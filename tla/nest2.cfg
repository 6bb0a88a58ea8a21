CONSTANTS
  Depth = 2
  Lo <- MCLo2
  Hi <- MCHi2
  Outs = {a_out}
  Locs <- MCLocsLinear
  Val <- MCVal
  Idx <- MCIdxLinear
  Rhs <- MCRhs
  Candidates <- MCCandidates
  Junk <- MCJunk
  Out0 <- MCOut0
SPECIFICATION FairSpec
INVARIANTS TypeOK RangesHold HeadInvariant AcceptedIsCorrect Frame Z3RowIsVerified
PROPERTIES Termination ImplementsSummary
CHECK_DEADLOCK FALSE
