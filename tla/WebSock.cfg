CONSTANTS
  Clients = {c1, c2}
  NoClient = NoClient
  NFds = 3
  NSlots = 2
  MaxOthers = 1
  MaxStarts = 1
  MaxSaid = 1
  Leavers = {c1}
  Sizes = {1}
SPECIFICATION FairSpec
INVARIANTS ClientIsKnown  WholeFrames
PROPERTIES StopEnds Served
CHECK_DEADLOCK FALSE
