CONSTANTS
  Variables <- MCVariables
  Programs <- MCPrograms
  Orders <- MCOrders
  Offsets <- MCOffsets
  Stride <- MCStride
SPECIFICATION MCSpec
INVARIANTS TypeOK ArgumentsMatch FoundIsRight NoneOnlyOutside
PROPERTIES Answered
CHECK_DEADLOCK FALSE
