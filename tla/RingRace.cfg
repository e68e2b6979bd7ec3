SPECIFICATION Spec
CONSTANTS
  Capacity = 3
  IdxMod = 16
  Byte = {0, 1}
  Spare = 0
PROPERTIES IsFifo
