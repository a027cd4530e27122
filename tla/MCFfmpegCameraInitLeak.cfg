\* Initialisation failures at every step of Capture::init.
CONSTANTS
  g4x3 = g4x3
  g3x4 = g3x4
  g2x2 = g2x2
  Geometries <- MCGeometries
  BufferSize <- MCBufferSize
  InitFailures = {"driver", "open", "stream_info", "no_stream", "no_codec", "codec_open"}
  OtherStreams = FALSE
  MayDisconnect = FALSE
  GeometryMayChange = FALSE
SPECIFICATION Spec
CONSTRAINT LeakBound
INVARIANT InitFailureReleases
