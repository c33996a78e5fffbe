CONSTANTS
  Chans = {c1, c2}
  NoChan = NoChan
  Replays = {r1, r2}
  MaxRecords = 2
SPECIFICATION FairSpec
INVARIANTS OneAtATime Faithful StopWorks BreaksOnlyTogether
PROPERTIES ReadyAgain
CHECK_DEADLOCK FALSE
