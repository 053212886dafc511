SPECIFICATION Spec
CONSTANTS
  RuleIds = {r1}
  RuleVersions = {v1, v2}
  RulesRegistered <- BothVersions
  Maturities = {"stable"}
  GapTypes = {missing}
  EvidenceTypes = {log}
  HintTypes = {log}
  Strengths = {3, 11}
  Scores = {3, 11}
  CreationStatuses = {"candidate", "retracted"}
  StatDeltas = {0, 1}
  NoScore = NoScore
  Bound <- RegistryBound
  MaxContradictions = 1
  MaxLifecycleSeq = 1
  MaxRevision = 6
INVARIANTS TypeOK ReferencesResolve
PROPERTIES IdentityTracksState StatsPerVersion
CHECK_DEADLOCK FALSE
