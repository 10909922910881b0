\* Crashes, failed hooks, failed writes and edits, with one user of the file and two.
SPECIFICATION FairSpec
CONSTANTS
  p1 = p1
  p2 = p2
  Proc = {p1, p2}
  k1 = k1
  k2 = k2
  Key = {k1, k2}
  v1 = v1
  v2 = v2
  Value = {v1, v2}
  None = None
  Goals <- BothOne
  NoFile = NoFile
  Torn = Torn
  MaxFaults <- Two_One
  MaxStops <- Two_One
  MaxEdits <- Two_One
INVARIANTS
  AloneItsFileIsCurrent
  OnlyUnsavedItemsAreMisjudged
PROPERTIES
  ImplementsDurableMap
  FileConverges
