CONSTANTS
  Size = 5
  Names = {"f", "g"}
SPECIFICATION Spec
INVARIANTS TypeOK NumbersDistinct DeclaredFirst RecordsMeasure SkippedExactly
CHECK_DEADLOCK FALSE
