CONSTANTS
  States = {s1, s2, s3}
  NoState = NoState
  Files = {main, f, bad}
  Boot = main
  Works = {main, f}
  NoThread = NoThread
  ModLocks = {TRUE, FALSE}
  MaxInstalls = 2
  NilResults = TRUE
SPECIFICATION FairSpec
INVARIANTS Exclusive BreaksOnlyAtEdges
PROPERTIES MutexIsGiven PoweroffEnds
CHECK_DEADLOCK FALSE
