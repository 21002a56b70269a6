CONSTANTS
  Threads = {t1, t2, t3}
  Items = {i1, i2}
  Capacity = 2
  Nothing = Nothing
  HistoryPoints = 3
  MaxStarts = 3
  MaxSubmits = 7
SPECIFICATION ThreadsSpec
INVARIANTS
  NoneSleepsOnWork
  OneThread
  ShowsLatest
PROPERTIES
  Implements
  CloseReleases
