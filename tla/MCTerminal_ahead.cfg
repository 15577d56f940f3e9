CONSTANTS
  h = h
  c = c
  k1 = k1
  Procs = {h, c}
  Host = h
  Redetect = {c}
  Profiles = {k1, k2}
  Peers = {x, y}
  MaxLines = 2
  None = None
SPECIFICATION MCSpec
INVARIANTS
  AnsweredWhenShown
CHECK_DEADLOCK FALSE
