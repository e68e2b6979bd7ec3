SPECIFICATION Spec
CONSTANTS
  Client = {c1, c2}
  Servers = {"server"}
  BufSize = 2
  MaxBytes = 2
INVARIANTS EchoesTheData
CHECK_DEADLOCK FALSE
