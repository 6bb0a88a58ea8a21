CONSTANTS
  Size = 4
  Names = {"f"}
SPECIFICATION Spec
INVARIANTS ModesKnown
CHECK_DEADLOCK FALSE
