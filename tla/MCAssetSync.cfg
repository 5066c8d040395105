CONSTANTS
  s1 = s1
  s2 = s2
  a = a
  a2 = a2
  b = b
  Sync = {s1, s2}
  Id = {1, 2, 3, 4, 5}
  File = {a, a2, b}
  Look <- MCLook
  MaxFiles = 2
  Exports <- MCExports
  Pages <- MCPages
SPECIFICATION FairSpec
CHECK_DEADLOCK FALSE
INVARIANTS
  CleanSyncShowsExport
  NothingUnplanned
  LockHasOneHolder
PROPERTY
  EverySyncEnds
