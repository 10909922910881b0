SPECIFICATION WatchFairSpec
CONSTANTS
  ItemCounts = {0, 1}
  MaxVersions = 2
  MaxUnsent = 2
  MaxLost = 0
CHECK_DEADLOCK FALSE
PROPERTY EveryTriggerReruns
