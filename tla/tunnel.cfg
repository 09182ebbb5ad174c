SPECIFICATION FairSpec
CONSTANTS
  Sessions = {1, 2}
  Ports = {30000, 30001, 30002}
  Visitors = {1, 2, 3}
  Wrap = 2
  None = None
  Env = {"gone", "clone_err", "accept_err", "dial_err", "close", "hang", "crash"}
  MaxFaults = 2
CHECK_DEADLOCK FALSE
INVARIANTS
  TypeOK
  PoolExact
  PortsExclusive
  
PROPERTIES
  PoolImplemented
  GoneEnds
  
