CONSTANTS
  Conns = {c1, c2}
  MaxFrames = 2
SPECIFICATION FairSpec
INVARIANTS DrainedBeforeNil NothingLeaks AtMostOneLateRequest OneReplyPerRequest
PROPERTIES ImplementsPromise DeadPeerReleased HandshakeEnds ShutdownCompletes
CHECK_DEADLOCK FALSE
