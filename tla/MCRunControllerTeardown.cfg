\* only camera.next() may fail
CONSTANTS
  Failures = {"next"}

SPECIFICATION Spec

CONSTRAINT SaveBound

INVARIANT ShutdownOnExit
