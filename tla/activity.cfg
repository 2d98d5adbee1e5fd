SPECIFICATION ActivityFairSpec
CONSTANTS
  Recorders = {r1, r2}
  Threads = {t1, t2}
  null = null
  Tokens <- MCTokens
  RingFrames = 1
  JoinInterrupts = FALSE
  MaxFrames = 1
  MaxErrors = 0
  MaxRequests = 2
INVARIANTS
  ActivityTypeOK
  NoOrphan
  StoppedIsSilent
PROPERTIES
  OnStopEnds
  MessagesHandled
