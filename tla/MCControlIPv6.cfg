CONSTANTS
  Scenarios <- LiteralIPv6
  Samples = 1
  MaxAttempts = 3
SPECIFICATION FairSpec
INVARIANTS LatencyReadsItsResult
CHECK_DEADLOCK FALSE
