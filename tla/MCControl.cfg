CONSTANTS
  Scenarios <- All
  Samples = 2
  MaxAttempts = 3
SPECIFICATION FairSpec
INVARIANTS TypeOK FramesPaired FramesExpected QuietBetweenTests OneFailureCostsOneTest AbortReachesTests
PROPERTIES NoConnectionForgotten Terminates ReleasedIfFed
CHECK_DEADLOCK FALSE
