CONSTANTS
  Threads = {t1, t2, t3}
  NoThread = NoThread
SPECIFICATION FairSpec
PROPERTIES KeepsPromise WaitsReturn
CHECK_DEADLOCK FALSE
