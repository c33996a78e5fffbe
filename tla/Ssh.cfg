CONSTANTS
  Scripts = {s1, s2}
  MaxSessions = 2
  Kinds = {"password", "key"}
  None = None
  Worker = Worker
  Temporary = TRUE
  MaxLoads = 1
  MaxRequests = 2
SPECIFICATION FairSpec
INVARIANTS RightSession OwnReply BreaksOnlyOutOfOrder
PROPERTIES Replied DestoryReturns
CHECK_DEADLOCK FALSE
