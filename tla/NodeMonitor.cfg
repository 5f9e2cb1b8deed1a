SPECIFICATION Spec
CONSTANTS
  CpuLoads <- MCCpuLoads
  MemLoads <- MCMemLoads
  MaxSamples = 2
INVARIANTS
  TypeOK
  AvgWithinMax
  AveragesDefined
  JoinedReportExact
  SkewBounded
PROPERTY
  StopReturns
CHECK_DEADLOCK FALSE
