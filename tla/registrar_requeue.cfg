SPECIFICATION Spec
CONSTANTS
  Nodes = {h1}
  NoKey = nokey
  Ids = {i1}
  Services = {s1}
  Addrs = {a1}
  Slots = {t1}
  None = None
  Serialised = FALSE
  Env = {"expire"}
  MaxEvents = 1
INVARIANTS
  RequeuedIsOrphaned
