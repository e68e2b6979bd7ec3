SPECIFICATION Spec
CONSTANTS
  NumExchanges = 2
  Depth = 8
  BookDepth = 2
  FullDepth = 2
  MaxPrice = 9
  Files <- MCFiles
  Snapshots <- MCSnapshots
  Roles = {"l2order", "l2fullamount", "l2sweepable"}
  MaxName = 4
  MaxStores = 2
  MaxRounds = 2
INVARIANTS TypeOK DispatchedPerMention BidTiersCutLevels FinalInsideSweep
PROPERTIES MergeSortsAll
CHECK_DEADLOCK FALSE
