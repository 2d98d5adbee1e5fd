SPECIFICATION FftSpec
CONSTANTS
  P <- MCP
  Unit <- MCUnit
  Jobs <- MCJobs
  none = none
INVARIANTS
  FactorsCompose
  ComputesDFT
\* kiss_fft() returns.
CHECK_DEADLOCK FALSE
