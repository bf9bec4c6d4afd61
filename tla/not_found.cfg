SPECIFICATION Spec
CONSTANTS
  Turns = {t1, t2, t3}
  Dates = {d1}
  MaxIndex = 2
  Fields = {f, g}
  Values = {x, y}
  MaxCalls = 4
  NoEvent = NoEvent
  Nothing = Nothing
INVARIANT
  NotFoundMeansUnchanged
CHECK_DEADLOCK FALSE
