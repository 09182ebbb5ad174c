SPECIFICATION FairSpec
CONSTANTS
  Nodes = {n1, n2}
  Ports = {30000, 30001}
  Services = {a, b}
  None = None
  Env = {"link_lost", "tunnel_restart", "accept_err", "file_err", "client_dies", "node_restart", "request_lost", "docker_err", "container_dies", "expire"}
  Faulty = {n1}
  MaxEvents = 2
CHECK_DEADLOCK FALSE
INVARIANTS
  TypeOK
  
PROPERTIES
  ReEnrolls
  AddressHeals
  PicksUp
