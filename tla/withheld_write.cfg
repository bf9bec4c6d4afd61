SPECIFICATION CalSpec
CONSTANTS
  TaskIds <- MCTaskIds
  Tools <- MCTools
  Acts <- MCActs
  Args <- MCArgs
  Plans <- MCLoosePlans
  LLMReplies <- MCModestReplies
  MaxSteps = 5
  Root <- MCRoot
  Replies <- MCReplies
  NoId = NoId
  NoInput = NoInput
  EventIds <- MCEventIds
  Days <- MCDays
  Contexts <- MCContexts
  MaxOthers = 1
  Nth <- MCNth
PROPERTY
  WithheldNeverWrites
CHECK_DEADLOCK FALSE
