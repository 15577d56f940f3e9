CONSTANTS
  Tunnels = {a}
  Tokens = {t1}
  Stale = {s1}
  Passwords = {"none", "right", "wrong"}
  Commands = {"join", "push"}
  Faults = {}
  Odd = a
SPECIFICATION MCSpec
PROPERTIES
  PushesBack
CHECK_DEADLOCK FALSE
