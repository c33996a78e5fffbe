CONSTANTS
  Conns = {c1, c2, c3}
  NoConn = NoConn
  Fds <- MCFds2
  MaxClient = 2
  Messages <- All
  NoMsg = NoMsg
  MarkLen = 1
  Word <- MCWord
  MayReset = {c1}
SPECIFICATION Spec
INVARIANTS OneOwner ReplyToRequester NeverSilent OnlyUploadsLeak CrashNeedsCompany
SYMMETRY Symm
CHECK_DEADLOCK FALSE
