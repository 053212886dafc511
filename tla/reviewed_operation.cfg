SPECIFICATION FairOperationSpec
CONSTANTS
  RuleIds = {r0, r1}
  RuleVersions = {v0}
  RulesRegistered <- OnlyReviewed
  Maturities = {"stable"}
  GapTypes = {missing}
  EvidenceTypes = {log}
  HintTypes = {}
  Strengths = {6}
  Scores = {8}
  CreationStatuses = {"candidate"}
  StatDeltas = {1}
  NoScore = NoScore
  Bound <- OperationBound
  MaxContradictions = 1
  MaxLifecycleSeq = 3
  MaxRevision = 20
  NoRule = r0
  NoTrace = NoTrace
  NoCapture = NoCapture
  NoCycle = NoCycle
  AskedGapType = missing
  AskedEvidenceType = log
  MaxOtherCalls = 2
INVARIANTS ReceiptTellsIfReviewed UnbrokenReceiptsProveOutcome
           CompletedOperationFits EffectMatchesIdentity
PROPERTY OperationReports
CHECK_DEADLOCK FALSE
