SPECIFICATION FairSpec
CONSTANTS
  kFrameSize = 2
  Inputs <- MCInputs
  null = null
INVARIANTS
  TypeOK
  WholeFrames
  NoiseIsNoise
  Complete
PROPERTIES
  Terminates
\* The script ends.
CHECK_DEADLOCK FALSE
