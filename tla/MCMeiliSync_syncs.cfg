SPECIFICATION Spec
CONSTANTS
  a1 = a1
  a2 = a2
  s1 = s1
  s2 = s2
  q1 = q1
  Articles = {a1, a2}
  NoSync = NoSync
  Syncs = {s1, s2}
  Searches = {q1}
  MaxVersion = 1
  CanFail = TRUE
SYMMETRY Symmetry
CHECK_DEADLOCK FALSE
INVARIANTS SyncedAlone LastSyncKept SearchFindsIndex
