SPECIFICATION FairSpec
CONSTANTS
  Services = {s1, s2, bad}
  Invalid = {bad}
  Tasks = {t1, t2}
  Cuts = {0, 9}
  None = None
  Env = {"read_err", "write_err", "validate_err", "reload_err", "cancel",
         "crash", "restart"}
  MaxEvents = 1
INVARIANTS
  TypeOK
  EditsLand
PROPERTIES
  AckedIsRunning
  
  CallsEnd
