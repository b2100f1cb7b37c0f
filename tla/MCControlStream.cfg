CONSTANTS
  Scenarios <- LostStream
  Samples = 1
  MaxAttempts = 3
SPECIFICATION FairSpec
PROPERTIES SessionReleased
CHECK_DEADLOCK FALSE
