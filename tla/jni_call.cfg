SPECIFICATION CallSpec
CONSTANTS
  Byte <- MCByte
  Zero = 0
  SampleSize = 4
  FeaturesDim = 2
  Headers <- MCHeaders
  Output <- MCOutput
  Chunks <- MCChunks
  MaxBytes = 8
  Base = 4
  Arrays <- MCArrays
  Net <- MCNet
  MaxCalls = 2
  null = null
INVARIANT
  CallTypeOK
PROPERTY
  ImplementsLabelService
\* A crashed process stops, and so does a client that made MaxCalls calls.
CHECK_DEADLOCK FALSE
