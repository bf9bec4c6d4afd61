SPECIFICATION Spec
CONSTANTS
  Requests = {r1, r2, r3}
  Window = 1
PROPERTY
  SummaryKept
CHECK_DEADLOCK FALSE
