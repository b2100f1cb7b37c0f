CONSTANTS
  Conns = {c1}
  MaxFrames = 2
SPECIFICATION FairSpec
PROPERTIES RunEndsOnCancel
CHECK_DEADLOCK FALSE
