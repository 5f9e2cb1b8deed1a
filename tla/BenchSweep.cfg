SPECIFICATION Spec
CONSTANTS
  Engines <- MCEngines
  Attempts = 2
  MaxLives = 2
  MaxFaults = 2
INVARIANTS
  TypeOK
  FailuresExact
  ExitZeroMeansRecorded
  CsvLosesOnlyAtTears
  S3CsvIsSnapshot
  SparkStopped
PROPERTIES
  LedgerKept
  SweepGoesOn
CHECK_DEADLOCK FALSE
