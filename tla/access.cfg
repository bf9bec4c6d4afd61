SPECIFICATION Spec
CONSTANTS
  ta = ta
  te = te
  Users <- MCUsers
  Passwords = {"p", "q"}
  DemoUsers <- MCDemoUsers
  Requests = {r1, r2, r3, r4}
  OldTokens = {ta, te}
  Mixes <- MCMixes
  OldStores <- MCOldStores
  PolicyEdits <- MCPolicyEdits
  UserEdits <- MCUserEdits
  Asked <- MCAsked
  Calls <- MCCalls
  MaxSnapshots = 1
  Nobody = Nobody
  NoPolicy = NoPolicy
INVARIANTS
  AccessTypeOK
  AdminChoiceKept
  SnapshotsServe
  ActorWasEntitled
SYMMETRY RequestSymmetry
CHECK_DEADLOCK FALSE
