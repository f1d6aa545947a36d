SPECIFICATION FairSpec
CONSTANTS
  SessionIds = {s1}
  NoSession = NoSession
  MaxRequests = 2
  StopStages <- SampleStops
  Faults <- AllFaults
  EnforceOffline = TRUE
  OutOfProcess = TRUE
PROPERTIES
  CallEnds
