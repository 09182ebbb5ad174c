SPECIFICATION FairSpec
CONSTANTS
  Nodes = {h1}
  NoKey = nokey
  Ids = {i1, i2}
  Services = {s1}
  Addrs = {a1}
  Slots = {t1}
  None = None
  Serialised = FALSE
  Env = {"expire", "haproxy_restart", "crash", "write_err", "query_err"}
  MaxEvents = 2
INVARIANTS
  TypeOK
PROPERTIES
  DeadEvicted
  ServerHeals
  
