SPECIFICATION CalSpec
CONSTANTS
  TaskIds <- MCTaskIds
  Tools <- MCTools
  Acts <- MCActs
  Args <- MCArgs
  Plans <- MCPlans
  LLMReplies <- MCLLMReplies
  MaxSteps = 5
  Root <- MCRoot
  Replies <- MCReplies
  NoId = NoId
  NoInput = NoInput
  EventIds <- MCEventIds
  Days <- MCDays
  Contexts <- MCContexts
  MaxOthers = 1
  Nth <- MCNth
INVARIANTS
  CalTypeOK
  SingleTargetUnlessAll
  NoDoubleWrite
  SuccessMeansWritten
PROPERTIES
  AmbiguousNeverWrites
  CallbackKeepsContract
CHECK_DEADLOCK FALSE
