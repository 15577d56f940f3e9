CONSTANTS
  Writers = {w1, w2, w3}
  MsgLen = 3
  MaxFrameSize = 2
  MaxNonce = 3
  None = None
  Faults = {"replay", "reorder", "drop", "corrupt", "crash", "reset"}
  MaxFaults = 2
SPECIFICATION FairSpec
INVARIANTS
  DeliveredInOrder
  NoncesUnique
PROPERTIES
  IsByteStream
  WritesEnd
  AllDelivered
CHECK_DEADLOCK FALSE
