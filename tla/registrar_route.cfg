SPECIFICATION FairSpec
CONSTANTS
  Nodes = {h1}
  NoKey = nokey
  Ids = {i1, i2}
  Services = {s1, s2}
  Addrs = {a1}
  Slots = {t1}
  None = None
  Serialised = FALSE
  Env = {}
  MaxEvents = 1
PROPERTIES
  RouteHeals
