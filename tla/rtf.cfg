SPECIFICATION Spec
CONSTANTS
  frameSize_ = 4410
  sampleRate_ = 44100
  Durations <- MCDurations
  MaxTime = 20000
INVARIANT
  SlowIsWarned
\* The clock is bounded.
CHECK_DEADLOCK FALSE
