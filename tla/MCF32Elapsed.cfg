\* Samples 5 or 6 ms apart with a 4 ms interval, at a 3-bit significand.
CONSTANTS
  Precision = 3
  Interval = 4
  TimeScale = 1
  MaxGap = 6
SPECIFICATION Spec
CONSTRAINT SpanBound
INVARIANT ElapsedIncreasing
