CONSTANTS
  Loops <- MCLoops
  NoStep = NoStep
  Decl <- MCDecl
SPECIFICATION FairSpec
INVARIANTS TypeOK RunsBelowUpperBounds StoresDistinct
PROPERTIES UnitStepEnds
CHECK_DEADLOCK FALSE
