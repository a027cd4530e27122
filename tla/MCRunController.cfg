CONSTANTS
  Failures = {"create", "ntp", "lock", "next", "save", "shutdown"}

SPECIFICATION LiveSpec

CONSTRAINT SaveBound

INVARIANT CancellationLatency
PROPERTY CancellationReturns
