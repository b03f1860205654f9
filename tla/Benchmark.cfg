SPECIFICATION MCSpec
CONSTANTS
  Publishers = {p1, p2, p3}
  Files = {1, 2}
  Absent = Absent
  Older = Older
  Cut = Cut
  MaxFaults = 2
  Workers = {w1, w2}
  ScenarioIds = {1, 2}
  NoScenario = NoScenario
  Controls <- MCControls
  Candidates <- MCCandidates
  Unit = 2
  Unknown = Unknown
  Spends = {0, 1, 2}
INVARIANTS OneGeneration NoAgentLeft EvidenceIsComplete AcceptedIsBetter
PROPERTIES RunEnds
CHECK_DEADLOCK FALSE
