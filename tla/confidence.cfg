SPECIFICATION TwoClaimsSpec
CONSTANTS
  RuleIds = {r1}
  RuleVersions = {v1, v2}
  RulesRegistered <- FirstVersion
  Maturities = {"stable"}
  GapTypes = {missing}
  EvidenceTypes = {log}
  HintTypes = {log}
  Strengths = {0, 10}
  Scores = {5}
  CreationStatuses = {"disputed"}
  StatDeltas = {3}
  NoScore = NoScore
  Bound <- ConfidenceBound
  MaxContradictions = 3
  MaxLifecycleSeq = 2
  MaxRevision = 9
  NoRule = r0
  NoTrace = NoTrace
INVARIANTS NeverBoosts KeptTraceStands DisputeExitsConsistent
PROPERTIES ZeroIsForGood SpreadOnlyThroughShared StrongContradictionNeverRaises
CHECK_DEADLOCK FALSE
