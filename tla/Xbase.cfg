CONSTANTS
  Producers = {p1, p2}
  Stopper = stopper
  Worker = worker
  MaxAdds = 2
SPECIFICATION FairSpec
INVARIANTS BreaksOnlyAfterStop
PROPERTIES KeepsOrder EveryTaskRuns StopReturns
CHECK_DEADLOCK FALSE
