SPECIFICATION Spec
CONSTANTS
  Sources <- MCSources
  Versions <- MCVersions
  Pieces <- MCPieces
  Builds = {b1, b2}
  ApiBuilds = {b1}
  Starts <- MCStarts
  Readers = {r1, r2}
  Scenarios <- MCScenarios
  BatchSize = 1
  Absent = Absent
  NoAgent = NoAgent
  Unread = Unread
INVARIANTS
  IndexTypeOK
  ExactUnlessTorn
  ReindexServes
CHECK_DEADLOCK FALSE
