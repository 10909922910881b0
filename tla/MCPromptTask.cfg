\* Items of two kinds and two keys that share one task file; the script is edited.
SPECIFICATION FairSpec
CONSTANTS
  o = o
  f = f
  Observed = {o}
  Filed = {f}
  a_slash_b = a_slash_b
  a_b = a_b
  Key = {a_slash_b, a_b}
  v1 = v1
  v2 = v2
  Value = {v1, v2}
  None = None
  Goals <- Some
  a_b_md = a_b_md
  Name = {a_b_md}
  Safe <- OneName
  c1 = c1
  c2 = c2
  Context = {c1, c2}
  ContextOf <- Nested
  Nothing = Nothing
  Torn = Torn
  MaxFaults = 1
  MaxEdits = 2
INVARIANTS
  ReferencesHold
  RecordedWorkIsAskedFor
PROPERTIES
  ObservedGetDone
