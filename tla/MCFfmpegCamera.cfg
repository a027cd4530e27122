\* Every init failure, streams of other kinds, a disconnect, a device whose
\* mode may differ from the configured resolution and change mid-stream.
CONSTANTS
  g4x3 = g4x3
  g3x4 = g3x4
  g2x2 = g2x2
  Geometries <- MCGeometries
  BufferSize <- MCBufferSize
  InitFailures = {"driver", "open", "stream_info", "no_stream", "no_codec", "codec_open"}
  OtherStreams = TRUE
  MayDisconnect = TRUE
  GeometryMayChange = TRUE
SPECIFICATION Spec
CONSTRAINT LeakBound
INVARIANT NoUseAfterFree
INVARIANT FrameSizeMatchesConfig
PROPERTY ImplementsSession
