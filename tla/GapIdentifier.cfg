SPECIFICATION Spec
CONSTANTS
  Size = 2
  MaxSeq = 4
  IdxMod = 6
  Policy = "MAX_SEQ"
  Sizes = {"empty", "fits", "large"}
  Answers = {TRUE, FALSE}
INVARIANTS TypeOK BufferSorted FreeSlotsClear ReplaysAscend
PROPERTIES LoopsEnd
