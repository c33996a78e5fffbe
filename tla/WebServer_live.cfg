CONSTANTS
  Conns = {c1, c2, c3}
  NoConn = NoConn
  Fds <- MCFds2
  MaxClient = 1
  Messages <- Plain
  NoMsg = NoMsg
  MarkLen = 1
  Word <- MCWord
  MayReset = {}
SPECIFICATION FairSpec
PROPERTIES Served StopEnds
CHECK_DEADLOCK FALSE
