CONSTANTS
  Store = {s1, s2}
  Cell = {a, b}
  MaxData = 2
  MaxGen = 2
  DirSyncFails = FALSE
  Ordered = FALSE
  NoStore = NoStore
  NoPage = NoPage
  BadPage = BadPage
  NoWal = NoWal
  NoValue = NoValue
  Empty = Empty
SYMMETRY Symmetry
SPECIFICATION Spec
CHECK_DEADLOCK FALSE
INVARIANT NeverTorn
