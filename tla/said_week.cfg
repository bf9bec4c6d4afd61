CONSTANTS
  Today <- MCToday
  Now = 570
  Months <- MCMonths
  Written <- MCWritten
  Clock <- MCClock
  Plans <- MCWedPlans
  Policies <- MCPolicies
  Contexts <- MCContexts
  Skills <- MCSkills
  Meant <- MCMeant
SPECIFICATION Spec
CHECK_DEADLOCK FALSE
INVARIANT OnePhraseOneTask
