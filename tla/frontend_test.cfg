SPECIFICATION TestSpec
CONSTANTS
  frameSize_ = 2205
  buckets_ <- MCBuckets
  FeaturesDim = 78
  Calls <- MCCalls
  Sines <- MCSines
  null = null
INVARIANTS
  SineArrives
CHECK_DEADLOCK FALSE
