\* Two cameras with one buffer and counter, two sessions.
SPECIFICATION PnpFairSpec
CONSTANTS
  c1 = c1
  c2 = c2
  Cameras <- TwoCameras
  Ends <- ThreeImages
  Reaches <- MostParts
  Marked = {2}
  Modulus = 6
  Timeouts = 0
  Beats = 1
  MaxLogins = 2
INVARIANTS Whole Complete
PROPERTIES GivenUp
CHECK_DEADLOCK FALSE
