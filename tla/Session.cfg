SPECIFICATION SessionSpec
CONSTANTS
  Hooks = {s1, s2, s3}
  Nobody = nobody
  Interval = 1
  Watchdog = 1
  StaleAfter = 1
  Crowded = FALSE
  MaxClock = 3
  MaxKills = 1
  Turns = {s1, s2, s3}
  Pruners = {p1}
  MaxFiles = 1
  MaxAge = 1
  MaxStamp = 6
  Recorders = {s1, s2, s3}
  Kinds = {session, skill}
  Skills = {skill}
  MaxDay = 3
  MaxEvents = 3
INVARIANTS
  AExclusive
  ReviewsInOrder
  NewestKept
  AdoptionExact
SYMMETRY Symmetry
CHECK_DEADLOCK FALSE
