SPECIFICATION Spec
CONSTANTS
  Machines = {"m7i", "m9g"}
  Baseline = "m7i"
  Args <- MCArgs
  Generated <- MCGenerated
  Environs <- MCEnvirons
  Walls = {1, 2}
  MaxResults = 2
  MaxClusters = 2
  MaxFaults = 1
INVARIANT
  MedianOfRuns
