\* Sessions that open, stream or not, and shut down.
CONSTANTS
  g4x3 = g4x3
  g3x4 = g3x4
  g2x2 = g2x2
  Geometries <- MCGeometries
  BufferSize <- MCBufferSize
  InitFailures = {}
  OtherStreams = TRUE
  MayDisconnect = FALSE
  GeometryMayChange = FALSE
SPECIFICATION Spec
CONSTRAINT LeakBound
INVARIANT ShutdownSafe
