CONSTANTS
  Procs = {p1}
  Conns = {c1, c2}
  Labels = {l1, l2}
  Fps = {f1, f2}
  l1 = l1
  f1 = f1
  Tunnels = {t1}
  Meets <- MCMeets
  None = None
  Faults = {"save"}
SPECIFICATION FairSpec
INVARIANTS
  AnswersStick
  PinsWereAskedFor
PROPERTIES
  InboundDecided
  PinIsHeeded
CHECK_DEADLOCK FALSE
