CONSTANTS
  Duration = 3
  Grace = 1
  PacketSize = 2
  Budget = 3
  MaxSent = 6
  MaxDups = 2
SPECIFICATION Spec
INVARIANTS LossIsMissing OutOfOrderMeansLate RateIsLimited
PROPERTIES Terminates
CHECK_DEADLOCK FALSE
