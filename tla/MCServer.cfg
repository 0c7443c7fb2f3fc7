SPECIFICATION ServerSpec
CONSTANTS
  Conns = {c1, c2}
  Callers = {s1, s2}
  NoConn = NoConn
  OutboundDepth = 1
  MaxRequests = 1
  MaxHandles = 1
  FirstDelay = 5
  MaxDelay = 8
  MaxAcceptErrors = 1
SYMMETRY Symmetry
INVARIANTS RegistryExact NoLeak DrainedMeansQuiet
PROPERTIES NoAddAfterClosing
