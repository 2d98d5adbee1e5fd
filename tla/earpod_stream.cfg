SPECIFICATION Spec
CONSTANTS
  Byte <- MCByte
  Zero = 0
  SampleSize = 3
  FeaturesDim = 2
  Headers <- MCHeaders
  Output <- MCOutput
  Chunks <- MCChunks
  MaxBytes = 7
INVARIANTS
  TypeOK
  NothingLost
  TokensLabelFrames
  ShortBetweenCalls
  BadNetNeverAnswers
PROPERTIES
  FlushYieldsOneToken
  ImplementsTokenStream
\* A crashed process and an object fed MaxBytes stop.
CHECK_DEADLOCK FALSE
