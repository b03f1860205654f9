SPECIFICATION MCSpec
CONSTANTS
  Versions = {v1, v2}
  Nothing = Nothing
  MaxOps = 3
  MaxUser = 1
  Files <- MCFiles
  NoBackup = NoBackup
  MaxShellOps = 3
  MaxEdits = 1
  MaxKaku = 2
  IdOrder <- MCIdOrder
  Initiatives = {"A", "B", "C"}
  NoPr = "null"
  Shared = "shared"
  FirstBoards <- MCBoards
  Used = {"ready", "in-progress", "blocked", "done"}
  Top = 3
  target = 3
  maxIterations = 5
  plateauThreshold = 3
  SubGoals = {g}
  Commands = {c1, c2}
  Errors = {e1, e2}
  NoError = NoError
  maxRepeatThreshold = 3
  Measures <- MCMeasures
  MaxExperiments = 3
  Listeners = {1, 2, 3}
  Reentrant = {2}
  MaxDepth = 3
  Writers = {w1, w2}
  Projects = {x, y}
  NoProject = NoProject
  Missing = Missing
  maxCapacity = 2
  MaxEntries = 4
  Listers = {l1, l2}
  NoBeat = NoBeat
  Torn = Torn
  ttlMs = 1
  MaxBeatClock = 5
  Gone = Gone
  MaxTree = 2
  MaxScripts = 5
CHECK_DEADLOCK FALSE
INVARIANTS
  InstallOkWorks
  CurrentIsWhole
  RecordedIsRemoved
  ZshenvKept
  ShellRestored
  AcceptedCanProceed
  CountsAreExact
  ListenersKnow
  NewestRemembered
  FreshIsListed
  ReleaseIsWhole
PROPERTY LoopAlwaysEnds
