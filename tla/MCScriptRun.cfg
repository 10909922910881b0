SPECIFICATION FairSpec
CONSTANTS
  a = a
  b = b
  v = v
  w = w
  Key = {a, b}
  Value = {v, w}
  None = None
  Observed = {o}
  Filed = {f}
  Goals <- NothingBothOne
  Limits = {0, 1, NoLimit}
  NoLimit = NoLimit
  DryRuns = {TRUE, FALSE}
  NoKind = NoKind
  MaxFaults = 1
  MaxChanges = 1
INVARIANTS EveryItemIsCountedOnce LimitIsSpentBeforeItSkips FileIsRightElsewhere
PROPERTIES CleanRunConverges ObservedConverge
