SPECIFICATION Spec
CONSTANTS
  Procs = {p1, p2}
  NoProc = noproc
  Commands = {c1}
  NoCmd = nocmd
  Repos = {r1}
  NoRepo = norepo
  TransitionTargets = {"failed", "abandoned"}
  MaxEvents = 5
SYMMETRY ProcSymmetry
CHECK_DEADLOCK FALSE
INVARIANTS
  SequenceContiguous
  CompletionIsFresh
PROPERTY ImplementsGate
