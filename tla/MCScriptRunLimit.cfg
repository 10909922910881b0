SPECIFICATION Spec
CONSTANTS
  a = a
  b = b
  v = v
  w = w
  Key = {a}
  Value = {v}
  None = None
  Observed = {}
  Filed = {f}
  Goals <- Anything
  Limits = {1, 0, NoLimit}
  NoLimit = NoLimit
  DryRuns = {FALSE}
  NoKind = NoKind
  MaxFaults = 0
  MaxChanges = 0
PROPERTY LimitedItemsAreDoneLater
