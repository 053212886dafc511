SPECIFICATION Spec
CONSTANTS
  Words <- KeyWords
  NonString = NonString
  MaxNesting = 5
  DraftKeys <- KeysDrafted
  LeafValues <- Leaves
  Packets <- SomePackets
  MaxDraftSteps = 2
INVARIANT ReviewersAgree
PROPERTY NestingHidesNothing
CHECK_DEADLOCK FALSE
