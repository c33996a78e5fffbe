CONSTANTS
  States = {s1, s2, s3}
  NoState = NoState
  Files = {main, f}
  Boot = main
  Works = {main, f}
  NoThread = NoThread
  ModLocks = {FALSE}
  MaxInstalls = 1
  NilResults = FALSE
SPECIFICATION Spec
INVARIANT CallbacksLocked
CHECK_DEADLOCK FALSE
