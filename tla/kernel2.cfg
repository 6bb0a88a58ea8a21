CONSTANTS
  arrA = arrA
  arrB = arrB
  arrC = arrC
  Arrays <- MCArrays
  Shape <- MCShape2
  LoopLo <- MCLo2
  LoopHi <- MCHi2
  Bodies <- MCBodies2
  Vec = 2
  Elem = 4
  Eval <- MCEval
  Val <- MCVal
  Wild = 0
  Mem0 <- MCMem0
SPECIFICATION Spec
PROPERTIES ImplementsSummary
CHECK_DEADLOCK FALSE
