\* Three keys, two values, lists of up to three items.
SPECIFICATION FairSpec
CONSTANTS
  k1 = k1
  k2 = k2
  Key = {k1, k2, k3}
  k3 = k3
  v1 = v1
  v2 = v2
  Value = {v1, v2}
  None = None
  MaxItems = 3
  MaxFaults = 2
  MaxEdits = 2
INVARIANTS HooksFollowTheDiff NeverOldAndNew
PROPERTIES NoSilentOrphan ImplementsReconcile Converges
