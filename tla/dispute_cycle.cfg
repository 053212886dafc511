SPECIFICATION Spec
CONSTANTS
  RuleIds = {r1}
  RuleVersions = {v1}
  RulesRegistered = {}
  Maturities = {"stable"}
  GapTypes = {missing}
  EvidenceTypes = {log}
  HintTypes = {}
  Strengths = {3}
  Scores = {5}
  CreationStatuses = {"candidate"}
  StatDeltas = {}
  NoScore = NoScore
  Bound <- OneClaimBound
  MaxContradictions = 1
  MaxLifecycleSeq = 4
  MaxRevision = 30
PROPERTY DisputeNeedsActiveContradiction
CHECK_DEADLOCK FALSE
