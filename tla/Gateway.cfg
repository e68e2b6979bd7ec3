SPECIFICATION Spec
CONSTANTS
  Threads = {t1, t2}
  Urls <- MCUrls
  Objects <- MCObjects
  UserPackets <- MCUserPackets
  MaxPacketSize = 12
  LenMod = 4
  SizeofSizeT = 4
  MaxSent = 2
  MaxConns = 2
INVARIANTS TypeOK OnePacketOneMessage ReadAsPut NullOnlyAfterDrop
CHECK_DEADLOCK FALSE
