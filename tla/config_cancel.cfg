SPECIFICATION Spec
CONSTANTS
  Services = {s1, s2}
  Invalid = {}
  Tasks = {t1}
  Cuts = {0, 9}
  None = None
  Env = {"cancel"}
  MaxEvents = 1
PROPERTIES
  ChangeLands
