\* The script, the thread that watches, two plays of a camera of each class.
SPECIFICATION FairSpec
CONSTANTS
  Marks = {1}
  Classes = {"capture", "snaps", "pnp", "screen"}
  MaxCams = 1
  MaxPlays = 2
  MaxTms = 2
INVARIANTS OneInFrame StopIsSafe
PROPERTIES ReaderServed
CHECK_DEADLOCK FALSE
