CONSTANTS
  outA = outA
  outB = outB
  ArraySize = 8
  Offset = 2
  Tries = 2
  Scalars = {1, 2, 3}
  Outputs <- MCOutputs
  Programs <- MCPrograms
SPECIFICATION FairSpec
INVARIANTS TypeOK GuessIsStored FailsWithReason ChainConsistent
PROPERTIES InterpreterEnds
CHECK_DEADLOCK FALSE
