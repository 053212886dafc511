SPECIFICATION Spec
CONSTANTS
  RawConditions <- WrittenConditions
  MaxNesting = 2
  NoSpec = NoSpec
  RuleIdMap <- Ids
  ClaimTypeMap <- ClaimTypes
  ReasonCodeMap <- ReasonCodes
  RequiredEvidenceMap <- EvidenceNames
  Documents <- AllWritten
  EditedDocuments <- FewEdited
  Contexts <- AllContexts
INVARIANTS PartsOfOneDocument AbsenceNeverFires
