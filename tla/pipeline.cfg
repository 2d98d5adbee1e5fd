SPECIFICATION Spec
CONSTANTS
  SetsOf <- MCSetsOf
  Share = 4
  Captures <- MCCaptures
  MaxLines = 6
  MaxRuns = 2
  MaxKills = 1
  null = null
INVARIANTS
  TypeOK
  SplitIsExact
  TestIsUnseen
  EnoughIsUsable
\* The runs of the script are bounded.
CHECK_DEADLOCK FALSE
