SPECIFICATION Spec
CONSTANTS
  NoState = nostate
  Corrupt = corrupt
  Overlap = FALSE
  MaxEvents = 4
  MaxClock = 3
CHECK_DEADLOCK FALSE
INVARIANTS
  StopNeedsCheck
  BlockedForAReason
