SPECIFICATION Spec
CONSTANTS
  Overlap = FALSE
  MaxReboots = 3
  MaxFaults = 3
INVARIANTS
  TypeOK
  SentinelMeansComplete
  NoHalfWrittenJar
  RayNeedsSetup
PROPERTIES
  RayComesBack
  SetupResumes
