SPECIFICATION Spec
CONSTANTS
  Buckets = {"b1", "b2"}
  MaxFaults = 3
INVARIANTS
  TypeOK
  ReadyMeansAttached
PROPERTY
  Converges
