CONSTANTS
  Conns = {c1, c2}
  None = None
  Faults = {"accept", "mdns", "start"}
SPECIFICATION FairSpec
INVARIANTS
  SubsAreServing
  SurvivorsStartedLate
PROPERTIES
  HandlerFinishes
  InterruptEnds
  QueuedIsAccepted
CHECK_DEADLOCK FALSE
