CONSTANTS
  MinPayload = 548
  MaxPayload = 8972
  Divisions = 20
  Overhead = 28
  Limits = {1472}
SPECIFICATION Spec
INVARIANTS ReportsAnArrival
CHECK_DEADLOCK FALSE
