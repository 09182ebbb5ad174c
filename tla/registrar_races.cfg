SPECIFICATION Spec
CONSTANTS
  Nodes = {h1}
  NoKey = nokey
  Ids = {i1, i2}
  Services = {s1}
  Addrs = {a1}
  Slots = {t1, t2}
  None = None
  Serialised = FALSE
  Env = {"expire", "crash", "cancel"}
  MaxEvents = 2
SYMMETRY Symmetry
INVARIANTS
  StableIdentity
  IdentityInv
PROPERTIES
  NotForgotten
