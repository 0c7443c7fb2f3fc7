SPECIFICATION Spec
CONSTANTS
  Conns = {c1}
  OutboundDepth = 2
  MaxRequests = 5
  MaxHandles = 0
INVARIANT AtMostDepthHeld
