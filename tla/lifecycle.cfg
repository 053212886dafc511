SPECIFICATION Spec
CONSTANTS
  RuleIds = {r1}
  RuleVersions = {v1}
  RulesRegistered = {}
  Maturities = {"stable"}
  GapTypes = {missing}
  EvidenceTypes = {log}
  HintTypes = {}
  Strengths = {3, 8}
  Scores = {5}
  CreationStatuses = {"candidate", "confirmed"}
  StatDeltas = {}
  NoScore = NoScore
  Bound <- LifecycleBound
  MaxContradictions = 2
  MaxLifecycleSeq = 4
  MaxRevision = 30
INVARIANTS HistoryIsPathToStatus
           ResolvedWereContradictions
PROPERTIES FirstRegistrationStands ImplementsClaimLedger
CHECK_DEADLOCK FALSE
