CONSTANTS
  Tunnels = {a, b}
  Tokens = {t1}
  Stale = {s1}
  Passwords = {"none", "right", "wrong"}
  Commands = {"join", "push"}
  Faults = {"refused", "reset", "save"}
  Odd = a
SPECIFICATION MCSpec
INVARIANTS
  OnlyTheEntitled
  InviteBringsOneIn
  NothingToMismatchedPeer
PROPERTIES
  TunnelEnds
  EntitledSucceeds
CHECK_DEADLOCK FALSE
