SPECIFICATION Spec
CONSTANTS
  Procs = {p1, p2, p3}
  NoProc = noproc
  Runs = {r1, r2, r3}
  NoRun = norun
  MayFail = FALSE
SYMMETRY Symmetry
CHECK_DEADLOCK FALSE
INVARIANT SecondRunRejected
