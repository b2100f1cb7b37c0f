CONSTANTS
  N = 2
  Duration = 1
  Grace = 1
  Chunk = 2
  Room = 2
  MaxUnits = 3
  MaxLag = 1
SPECIFICATION Spec
INVARIANTS TypeOK CountersFollowBytes ReportsAreFinal
PROPERTIES StreamsEnd TestEnds
CHECK_DEADLOCK FALSE
