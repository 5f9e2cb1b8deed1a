SPECIFICATION Spec
CONSTANTS
  Tables <- MCTables
  Weight <- MCWeight
  Scales <- MCScales
  Sf = 2
  Nodes = {n1, n2}
  Slots = 1
  Batch = 2
  Retries = 1
  MaxRuns = 2
  MaxFaults = 0
INVARIANT
  DatasetExact
CHECK_DEADLOCK FALSE
