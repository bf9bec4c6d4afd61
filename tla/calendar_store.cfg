SPECIFICATION Spec
CONSTANTS
  Turns = {t1, t2, t3}
  Dates = {d1}
  MaxIndex = 2
  Fields = {f, g}
  Values = {x, y}
  MaxCalls = 4
  NoEvent = NoEvent
  Nothing = Nothing
INVARIANTS
  StoreTypeOK
  NoEventLost
PROPERTY
  TableSpec
SYMMETRY TurnSymmetry
CHECK_DEADLOCK FALSE
