SPECIFICATION Spec
CONSTANTS
  Requests = {r1, r2, r3}
  Window = 1
INVARIANTS
  MemoryTypeOK
  LostOnlyToOverlap
  FreshContext
SYMMETRY RequestSymmetry
CHECK_DEADLOCK FALSE
