SPECIFICATION TermSpec
CONSTANTS
  Procs = {t1, cli}
  Terminals = {t1}
  Cli = cli
  NoProc = noproc
  Commands = {1, 2, 3}
  NoCmd = nocmd
  clean = r1
  dirty = r1
  Repos = {r1}
  NoRepo = norepo
  TransitionTargets = {}
  MaxEvents = 8
  Fingerprint <- DirtyBit
  MaxContent = 0
  MayFail = TRUE
CHECK_DEADLOCK FALSE
INVARIANTS
  EvidenceNeedsZeroExit
  MutationHoldsGate

