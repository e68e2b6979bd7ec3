SPECIFICATION Spec
CONSTANTS
  N = 3
  GapMod = 4
  MaxPublished = 5
  MaxCalls = 4
  MaxResets = 1
INVARIANTS SkipsOnlyWithoutCallback FoundIsRecent PayloadGoesOutOnce
CHECK_DEADLOCK FALSE
