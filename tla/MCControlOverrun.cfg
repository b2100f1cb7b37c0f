CONSTANTS
  Scenarios <- Overrun
  Samples = 1
  MaxAttempts = 3
SPECIFICATION FairSpec
INVARIANTS SessionOutlivesTests
CHECK_DEADLOCK FALSE
