SPECIFICATION TermSpec
CONSTANTS
  Procs = {t1, cli}
  Terminals = {t1}
  Cli = cli
  NoProc = noproc
  Commands = {1, 2, 3, 4}
  NoCmd = nocmd
  clean = clean
  dirty = dirty
  Repos = {clean, dirty}
  NoRepo = norepo
  TransitionTargets = {}
  MaxEvents = 20
  Fingerprint <- DirtyBit
  MaxContent = 2
  MayFail = FALSE
CHECK_DEADLOCK FALSE
INVARIANTS
  PassingCheckClears
  SurfacesAgree
PROPERTY CompletionSawContent
