SPECIFICATION FairSpec
CONSTANTS
  Hooks = {h1, h2, h3, h4}
  None = None
  NoDir = NoDir
  MaxKills = 2
CHECK_DEADLOCK FALSE
INVARIANTS
  Exclusive
PROPERTY LockComesBack
