CONSTANTS
  Loops <- MCLoopsStep
  NoStep = NoStep
  Decl <- MCDecl
SPECIFICATION FairSpec
PROPERTIES StepEnds
CHECK_DEADLOCK FALSE
