SPECIFICATION FairSpec
CONSTANTS
  Procs = {p1, p2, p3}
  NoProc = noproc
  Runs = {r1, r2}
  NoRun = norun
  MayFail = TRUE
CHECK_DEADLOCK FALSE
INVARIANTS
  PointedRunStarted
PROPERTIES
  ClearsOwnPointer
  StalePointerRemoved
