SPECIFICATION FairServerSpec
CONSTANTS
  Conns = {c1}
  Callers = {s1}
  NoConn = NoConn
  OutboundDepth = 1
  MaxRequests = 4
  MaxHandles = 1
  FirstDelay = 5
  MaxDelay = 8
  MaxAcceptErrors = 2
INVARIANTS TypeOK ServerTypeOK MemoryBound NothingLost RepliesInOrder RepliesBeforeRelease
PROPERTIES ServeEnds ImplementsReplyStream ShutdownReturns AcceptProgress
