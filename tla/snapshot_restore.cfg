SPECIFICATION SnapshotSpec
CONSTANTS
  RuleIds = {r1}
  RuleVersions = {v1}
  RulesRegistered = {}
  Maturities = {"stable"}
  GapTypes = {missing}
  EvidenceTypes = {log}
  HintTypes = {}
  Strengths = {8}
  Scores = {5}
  CreationStatuses = {"candidate", "confirmed"}
  StatDeltas = {}
  NoScore = NoScore
  Bound <- SmallBound
  MaxContradictions = 1
  MaxLifecycleSeq = 2
  MaxRevision = 9
  ForeignDocuments = {}
  OtherStatuses = {}
  MaxRestores = 2
  Nothing = Nothing
INVARIANTS AlwaysRestorable IdentityNamesState HistoryIsPathToStatus
           DedupIndexExact
CHECK_DEADLOCK FALSE
