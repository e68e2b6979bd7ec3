SPECIFICATION FeedSpec
CONSTANTS
  Size = 2
  MaxSeq = 6
  IdxMod = 8
  Policy = "MIN_SEQ"
  Sizes = {"empty", "fits"}
  Answers = {TRUE}
INVARIANTS FeedTypeOK ExpectedIsNext GapWellFormed GapIsBeingFetched
PROPERTIES InOrderOnce BufferedIsDelivered
CHECK_DEADLOCK FALSE
