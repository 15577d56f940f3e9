CONSTANTS
  a1 = a1
  b1 = b1
  a2 = a2
  b2 = b2
  Ends = {a1, b1, a2, b2}
  PeerOf <- MCPeerOf
  Initiators = {a1, a2}
  IdOf <- MCIdOf
  EphKeys = {1, 3, 5, 7}
  Junk = {0}
  None = None
  MaxFaults = 2
SPECIFICATION Spec
INVARIANTS
  PairedIsMutual
  UndisturbedAgree
  SendKeysUnique
CHECK_DEADLOCK FALSE
