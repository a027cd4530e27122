\* A device that may be unplugged while streaming.
CONSTANTS
  g4x3 = g4x3
  g3x4 = g3x4
  g2x2 = g2x2
  Geometries <- MCGeometries
  BufferSize <- MCBufferSize
  InitFailures = {}
  OtherStreams = FALSE
  MayDisconnect = TRUE
  GeometryMayChange = FALSE
SPECIFICATION Spec
CONSTRAINT LeakBound
PROPERTY NextReturns
