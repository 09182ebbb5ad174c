SPECIFICATION Spec
CONSTANTS
  Nodes = {h1}
  NoKey = nokey
  Ids = {i1, i2}
  Services = {s1, s2}
  Addrs = {a1, a2}
  Slots = {t1}
  None = None
  Serialised = TRUE
  Env = {"expire", "crash", "redeploy", "haproxy_restart", "haproxy_err", "disconnect"}
  MaxEvents = 3
SYMMETRY Symmetry
INVARIANTS
  
  
  MirrorAtRest
