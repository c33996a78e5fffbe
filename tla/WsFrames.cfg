CONSTANTS
  Lens <- Edges
  NoFrame = NoFrame
SPECIFICATION FramesSpec
INVARIANTS LengthsTold Decoded
