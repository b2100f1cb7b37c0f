CONSTANTS
  MinPayload = 548
  MaxPayload = 8972
  Divisions = 20
  Overhead = 28
  Limits = {500, 548, 549, 560, 1000, 1472, 4352, 8971, 8972, 9000}
SPECIFICATION FairSpec
INVARIANTS SearchExact NeverOverestimates WithinOneStep
PROPERTIES Terminates
CHECK_DEADLOCK FALSE
