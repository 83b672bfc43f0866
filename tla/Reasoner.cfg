SPECIFICATION Spec
CONSTANTS
  Questions = 3
  MaxAttempts = 2
  Window = 2
  MinAnswered = 2
  MaxSignals = 10
  MaxEntries = 3
  Dimensions <- TwoDimensions
  Technical <- TechnicalDepth
  Patterns <- Depth
INVARIANTS
  TypeOK
  OneEvaluationPerIndex
  MissingIsReportedOnce
PROPERTIES
  EvidenceIsObserved
  KeysAreSettled
  ProfileOnlyGrows
