SPECIFICATION Spec
CONSTANTS
  Conns = {c1}
  MaxSid = 2
  MaxTid = 1
  MaxFid = 1
  MaxChain = 2
INVARIANTS TypeOK NothingBeforeLogon ResponsesSigned
