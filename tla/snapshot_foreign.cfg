SPECIFICATION SnapshotSpec
CONSTANTS
  RuleIds = {r1}
  RuleVersions = {v1}
  RulesRegistered = {}
  Maturities = {"stable"}
  GapTypes = {missing}
  EvidenceTypes = {log}
  HintTypes = {log}
  Strengths = {8}
  Scores = {5}
  CreationStatuses = {"candidate"}
  StatDeltas = {}
  NoScore = NoScore
  Bound <- ForeignBound
  MaxContradictions = 2
  MaxLifecycleSeq = 2
  MaxRevision = 2
  ForeignDocuments <- DamagedDocuments
  OtherStatuses = {"retracted"}
  MaxRestores = 1
  Nothing = Nothing
INVARIANTS LookupsResolve AlwaysRestorable
PROPERTY RestoredStands
CHECK_DEADLOCK FALSE
