SPECIFICATION Spec
CONSTANTS
  Engines <- MCEngines
  Attempts = 2
  MaxLives = 1
  MaxFaults = 1
INVARIANT
  HeaderFirst
CHECK_DEADLOCK FALSE
