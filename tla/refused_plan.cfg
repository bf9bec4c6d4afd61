CONSTANTS
  SingleDay <- MCSingleDay
  Requests <- MCRequests
  Stored <- MCStored
  Drafts <- MCDrafts
SPECIFICATION Spec
CHECK_DEADLOCK FALSE
INVARIANT RejectedRunsNothing
