CONSTANTS
  Hosts = {h1}
  Conns = {c1}
  Tokens = {t1}
  None = None
  Faults = {}
SPECIFICATION Spec
INVARIANTS
  ActiveNilWhenNoneRunning
CHECK_DEADLOCK FALSE
