CONSTANTS
  Sizes <- TwoFrames
  MaxMessageSize = 1048576
  MaxDeadlines = 1
SPECIFICATION Spec
INVARIANTS TypeOK InStep
PROPERTIES ImplementsChannel ReadsReturn
CHECK_DEADLOCK FALSE
