CONSTANTS
  Plan <- MCPlan
  Queries <- MCQueries
  Key <- MCKey
  Chunks = {"h1", "f1"}
  Kbs = {"hr", "finance"}
  KbOf <- MCKbOf
  UsedKbs = {"hr"}
  TopK = 1
  Shown = 2
  PolicyTasks = {"t1"}
  MayReadRag = TRUE
SPECIFICATION Spec
CHECK_DEADLOCK FALSE
INVARIANTS RagTypeOK OwnEvidence GateAgrees EveryTaskAnswered
PROPERTY BatchReturns
