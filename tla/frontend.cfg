SPECIFICATION Spec
CONSTANTS
  frameSize_ = 2205
  buckets_ <- MCBuckets
  FeaturesDim = 78
  Calls <- MCCalls
  null = null
INVARIANTS
  TypeOK
  CoversSpectrum
\* calculate() returns.
CHECK_DEADLOCK FALSE
