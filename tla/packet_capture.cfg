SPECIFICATION FairCaptureSpec
CONSTANTS
  RuleIds = {r1}
  RuleVersions = {v1}
  RulesRegistered = {}
  Maturities = {"stable"}
  GapTypes = {missing, other}
  EvidenceTypes = {log}
  HintTypes = {}
  Strengths = {8}
  Scores = {5}
  CreationStatuses = {"candidate", "confirmed"}
  StatDeltas = {}
  NoScore = NoScore
  Bound <- CaptureBound
  MaxContradictions = 1
  MaxLifecycleSeq = 2
  MaxRevision = 7
  NoRule = r0
  NoTrace = NoTrace
  NoCapture = NoCapture
INVARIANTS IdentityVouchesForReads TornPacketTellsOneStory
PROPERTY CaptureCompletes
CHECK_DEADLOCK FALSE
