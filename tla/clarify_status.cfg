SPECIFICATION CalSpec
CONSTANTS
  TaskIds <- MCTaskIds
  Tools <- MCTools
  Acts <- MCActs
  Args <- MCArgs
  Plans <- MCOrderedPlans
  LLMReplies <- MCModestReplies
  MaxSteps = 5
  Root <- MCRoot
  Replies <- MCReplies
  NoId = NoId
  NoInput = NoInput
  EventIds <- MCEventIds
  Days <- MCDays
  Contexts <- MCContexts
  MaxOthers = 1
  Nth <- MCNth
INVARIANT
  ClarificationEndsTheRun
CHECK_DEADLOCK FALSE
