SPECIFICATION WatchFairSpec
CONSTANTS
  ItemCounts = {0, 1, 256}
  MaxVersions = 3
  MaxUnsent = 2
  MaxLost = 2
CHECK_DEADLOCK FALSE
INVARIANT UnseenIsOnItsWay
PROPERTIES ChangesAreRead RunsComeToRest
