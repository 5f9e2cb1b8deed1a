SPECIFICATION Spec
CONSTANTS
  Tables <- MCTables
  Weight <- MCWeight
  Scales <- MCScales
  Sf = 2
  Nodes = {n1, n2}
  Slots = 1
  Batch = 2
  Retries = 1
  MaxRuns = 2
  MaxFaults = 1
INVARIANTS
  TypeOK
  DoneMeansUploaded
  CountedOnce
  RerunRepairs
  DiskBounded
PROPERTIES
  GeneratorEnds
CHECK_DEADLOCK FALSE
