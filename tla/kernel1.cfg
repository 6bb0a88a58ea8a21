CONSTANTS
  arrA = arrA
  arrB = arrB
  arrC = arrC
  Arrays <- MCArrays
  Shape <- MCShape1
  LoopLo <- MCLo1
  LoopHi <- MCHi1
  Bodies <- MCBodies1
  Vec = 2
  Elem = 4
  Eval <- MCEval
  Val <- MCVal
  Wild = 0
  Mem0 <- MCMem0
SPECIFICATION Spec
INVARIANTS TypeOK ModesExact KernelMatchesLoop AppliedOnceOrTwice
PROPERTIES ImplementsSummary
CHECK_DEADLOCK FALSE
