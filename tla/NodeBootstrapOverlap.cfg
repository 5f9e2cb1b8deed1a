SPECIFICATION Spec
CONSTANTS
  Overlap = TRUE
  MaxReboots = 1
  MaxFaults = 0
INVARIANT
  NoHalfWrittenJar
CHECK_DEADLOCK FALSE
