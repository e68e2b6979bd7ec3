SPECIFICATION Spec
CONSTANTS
  Client = {c1, c2}
  Servers = {"server", "TcpServerConnection", "server_single", "server_runonce"}
  BufSize = 2
  MaxBytes = 2
INVARIANTS TypeOK EchoAccounting SoloEchoesOwnBytes
PROPERTIES WaitingIsServed
CHECK_DEADLOCK FALSE
