SPECIFICATION FairSpec
CONSTANTS
  Recorders = {r1}
  Threads = {t1, t2}
  null = null
  Tokens <- MCTokens
  RingFrames = 2
  JoinInterrupts = TRUE
  MaxFrames = 3
  MaxErrors = 1
INVARIANTS
  TypeOK
  OneThread
  NoNullDeref
  MicHasThread
PROPERTIES
  SilentAfterStop
  ReportsWhatIsHeard
  FramesAnswered
\* A crashed process stops.
CHECK_DEADLOCK FALSE
