SPECIFICATION RuntimeSpec
CONSTANTS
  RuleIds = {r1}
  RuleVersions = {v1, v2}
  RulesRegistered <- BothVersions
  Maturities = {"stable"}
  GapTypes = {missing}
  EvidenceTypes = {log, banner}
  HintTypes = {}
  Strengths = {8}
  Scores = {5}
  CreationStatuses = {}
  StatDeltas = {}
  NoScore = NoScore
  Bound <- RuntimeBound
  MaxContradictions = 0
  MaxLifecycleSeq = 1
  MaxRevision = 20
  Templates <- RequiringTemplates
  MissingEvidence = missing
  Idle = Idle
INVARIANTS CountIsClaims TracesStayTrue
PROPERTY FailedFiringLeavesNothing
CHECK_DEADLOCK FALSE
