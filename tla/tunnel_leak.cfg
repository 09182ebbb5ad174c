SPECIFICATION Spec
CONSTANTS
  Sessions = {1}
  Ports = {30000, 30001}
  Visitors = {1}
  Wrap = 2
  None = None
  Env = {"gone"}
  MaxFaults = 1
CHECK_DEADLOCK FALSE
INVARIANTS
  BothPortsReturn
