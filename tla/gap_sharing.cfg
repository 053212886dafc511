SPECIFICATION Spec
CONSTANTS
  RuleIds = {r1}
  RuleVersions = {v1}
  RulesRegistered = {}
  Maturities = {"stable"}
  GapTypes = {missing}
  EvidenceTypes = {log, scan}
  HintTypes = {}
  Strengths = {5}
  Scores = {5}
  CreationStatuses = {"candidate"}
  StatDeltas = {}
  NoScore = NoScore
  Bound <- SharingBound
  MaxContradictions = 0
  MaxLifecycleSeq = 2
  MaxRevision = 30
INVARIANTS DedupIndexExact SharingWithinSubject DecisionsStayJustified
CHECK_DEADLOCK FALSE
