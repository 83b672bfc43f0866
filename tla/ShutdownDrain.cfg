SPECIFICATION Spec
CONSTANTS
  r1 = r1
  r2 = r2
  r3 = r3
  Requests <- ThreeRequests
  MaxSignals = 2
CHECK_DEADLOCK FALSE
INVARIANTS
  CountIsExact
  CleanMeansIdle
PROPERTIES
  NoAdmissionWhileDraining
  DrainEnds
  ImplementsGate
