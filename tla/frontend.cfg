CONSTANTS
  Size = 4
  varI = varI
  varJ = varJ
  arrA = arrA
  literal = literal
  Vars <- MCVars
  Arrays = {arrA}
  Literal = literal
  Labels <- MCLabels
SPECIFICATION MCSpec
INVARIANTS TypeOK SelectionExact LabelsDistinct VarSetsExact AssertionsHold BoundsEnclose
CHECK_DEADLOCK FALSE
