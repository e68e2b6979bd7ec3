SPECIFICATION Spec
CONSTANTS
  Capacity = 4
  IdxMod = 16
  Byte = {0, 1}
  Spare = 1
INVARIANTS TypeOK WindowsInsideMapping OfferIsFree
PROPERTIES IsFifo SpinEnds
CHECK_DEADLOCK TRUE
