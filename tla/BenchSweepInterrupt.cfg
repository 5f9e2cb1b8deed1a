SPECIFICATION Spec
CONSTANTS
  Engines <- MCEngines
  Attempts = 2
  MaxLives = 1
  MaxFaults = 2
INVARIANT
  InterruptEndsSweep
CHECK_DEADLOCK FALSE
