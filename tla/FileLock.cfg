SPECIFICATION FairSpec
CONSTANTS
  Procs = {p1, p2, p3}
  NoOwner = noowner
  NoFile = nofile
  MayCrash = TRUE
  MayExit = TRUE
CHECK_DEADLOCK FALSE
INVARIANTS
  Exclusive
PROPERTY LockRecovered
