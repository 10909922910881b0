SPECIFICATION FairSpec
CONSTANTS
  Identity = {a, b}
  Version = {v, w}
  File = {f1, f2, f3, f4}
  None = None
  MaxItems = 2
  MaxFailures = 2
  MaxEdits = 2
INVARIANTS CacheDescribesPool RunsAsAskedOrReports OnlyRestartsLoseTheirFile
PROPERTIES ImplementsSupervision Converges
CHECK_DEADLOCK FALSE
