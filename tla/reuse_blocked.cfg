SPECIFICATION Spec
CONSTANTS
  TaskIds <- MCTaskIds
  Tools <- MCTools
  Acts <- MCActs
  Args <- MCArgs
  Plans <- MCPlans
  LLMReplies <- MCLLMReplies
  MaxSteps = 4
  Root <- MCRoot
  Replies <- MCReplies
  NoId = NoId
  NoInput = NoInput
INVARIANT
  DuplicateQueryBlocked
CHECK_DEADLOCK FALSE
