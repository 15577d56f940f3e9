CONSTANTS
  d1 = d1
  d2 = d2
  root = root
  Dirs = {d1, d2}
  Root = root
  Parent <- MCParent
  IdleAfter = 3
  MaxQueue = 4
  MaxFailures = 1
  Files = {f1, f2}
  f1 = f1
  f2 = f2
  MaxFiles = 2
SPECIFICATION FairSpec
INVARIANTS
  NewDirsWatched
  EditsNoticed
  OldWorkWarned
PROPERTIES
  AdvertSettles
CHECK_DEADLOCK FALSE
