CONSTANTS
  Hosts = {h1, h2}
  Conns = {c1, c2}
  Tokens = {t1, t2}
  None = None
  Faults = {"crash", "save"}
SYMMETRY Symmetry
SPECIFICATION Spec
INVARIANTS
  TypeOK
  SingleUse
  LockReleased
  BurnIsDurable
PROPERTIES
  ImplementsOneTimeInvite
CHECK_DEADLOCK FALSE
