SPECIFICATION Spec
CONSTANTS
  Agents = {a1, a2, a3}
  Nobody = Nobody
  NoFile = NoFile
  Ttl = 1
  MAX_ACQUIRE_ATTEMPTS = 2
  MaxKills = 1
  MayFail = TRUE
  MaxClock = 2
  Tasks = {t1}
  NotFound = NotFound
  Unwritten = Unwritten
  MaxWrites = 2
SYMMETRY Symmetry
CHECK_DEADLOCK FALSE
INVARIANTS
  Exclusive
  Serializable
