SPECIFICATION Spec
CONSTANTS
  Kinds = {"tcp", "shm", "mcp"}
  Capacity = 3
  IdxMod = 16
  MaxBytes = 7
  MaxWrites = 2
INVARIANTS TypeOK NextWindowIsWhole OneReadAtATime LogIsStream
PROPERTIES ArrivedIsLogged
CHECK_DEADLOCK FALSE
