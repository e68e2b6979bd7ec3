SPECIFICATION Spec
CONSTANTS
  Kinds = {"unix"}
  Capacity = 3
  IdxMod = 16
  MaxBytes = 7
  MaxWrites = 2
INVARIANTS LogIsStream
CHECK_DEADLOCK FALSE
