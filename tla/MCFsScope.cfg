SPECIFICATION Spec
CONSTANTS
  Key = {f, g, h}
  Value = {blank, x}
  None = None
  Blank = blank
  Keep = Keep
  PruneMaxAbs = 1
  MaxClaims = 2
  MaxFaults = 1
  MaxChanges = 1
SYMMETRY Symmetry
INVARIANTS SnapshotPrunesAreBounded SettledPassDoesNothing
PROPERTIES KeptFilesAreLeftAlone CleanPassConverges
