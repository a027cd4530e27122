CONSTANTS
  Interval = 4
  Idle = 1
  Samples = 3
  TimeScaleConfig = 2
  SubMs = 2
  MaxOvershoot = 1
  MaxWork = 3
  NtpSeconds = {0, 1}
  StartReference = 5000

SPECIFICATION Spec

CONSTRAINT ClockBound

INVARIANT TypeOK
INVARIANT SamplesSpaced
INVARIANT ExactlyMaxSamples

INVARIANT PollsBounded

PROPERTY StampsAdvance
