SPECIFICATION Spec
CONSTANTS
  SessionIds = {s1, s2}
  NoSession = NoSession
  MaxRequests = 2
  StopStages <- SampleStops
  Faults <- AllFaults
  EnforceOffline = TRUE
  OutOfProcess = TRUE
SYMMETRY SessionSymmetry
INVARIANTS
  TypeOK
  StagesInOrder
  ReturnedMeansReady
  GuardScope
  FailureTransparent
  DicVerdict
PROPERTIES
  ImplementsContract
  EnrichedOnly
  FailedLoadIsFinal
