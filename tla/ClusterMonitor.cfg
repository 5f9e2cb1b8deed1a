SPECIFICATION Spec
CONSTANTS
  H = H
  W1 = W1
  W2 = W2
  Nodes <- MCNodes
  Head <- H
  NoNode = NoNode
  MaxRuns = 2
  MaxFaults = 2
INVARIANTS
  TypeOK
  SummaryAllOrNothing
  WindowCovered
  KeptActorsToldToStop
PROPERTIES
  EnterAndExitReturn
  LeftoversReaped
CHECK_DEADLOCK FALSE
