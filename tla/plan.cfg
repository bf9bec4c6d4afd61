CONSTANTS
  Today <- MCToday
  Now = 570
  Months <- MCMonths
  Written <- MCWritten
  Clock <- MCClock
  Plans <- MCPlans
  Policies <- MCPolicies
  Contexts <- MCContexts
  Skills <- MCSkills
  Meant <- MCMeant
SPECIFICATION Spec
CHECK_DEADLOCK FALSE
INVARIANTS PlanTypeOK DaysAreMeant DependenciesHold WritesAreGrounded
PROPERTIES ReadsSurvive
