SPECIFICATION FairSpec
CONSTANTS
  Nodes = {n1, n2}
  Ports = {30000, 30001}
  Services = {a}
  None = None
  Env = {"link_lost", "tunnel_restart"}
  Faulty = {n1}
  MaxEvents = 1
CHECK_DEADLOCK FALSE
PROPERTIES
  AddressCurrent
