\* sample_at_interval (interval 500, idle 100) at 1/100 scale, run for 5 samples
CONSTANTS
  Interval = 5
  Idle = 1
  Samples = 5
  TimeScaleConfig = 1
  SubMs = 1
  MaxOvershoot = 0
  MaxWork = 0
  NtpSeconds = {}
  StartReference = 0

SPECIFICATION Spec

INVARIANT ElapsedMatchesIndex
