CONSTANTS
  Procs = {cmd, p1, p2}
  Cmd = cmd
  None = None
  Faults = {"io", "crash"}
  Base = 4
  Radix = 3
  InviteLen = 2
  MaxTyped = 4
  MaxBranchLen = 2
  MaxRowLen = 1
  MaxHeadLen = 2
  Entries <- MCEntries
  Words <- MCWords
  Instances = {me, a}
  Self = me
  PeerTTL = 2
  MaxDelay = 1
  ChanCap = 2
SYMMETRY Symmetry
SPECIFICATION MCSpec
INVARIANTS
  NoTmpLeft
  AimIsOneHost
  MetadataSurvives
  InviteAsPrinted
PROPERTIES
  KeyStaysWhole
  ShownWereAlive
CHECK_DEADLOCK FALSE
