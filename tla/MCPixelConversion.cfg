CONSTANTS
  Bits = 5
  MaxDim = 6
  MaxLen = 40
  Builds = {"debug", "release"}

SPECIFICATION Spec

INVARIANT FrameCoversBuffer
