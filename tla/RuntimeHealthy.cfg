SPECIFICATION Spec
CONSTANTS
  SessionIds = {s1, s2}
  NoSession = NoSession
  MaxRequests = 2
  StopStages <- StopsBeforeInference
  Faults <- KillOnly
  EnforceOffline = TRUE
  OutOfProcess = FALSE
SYMMETRY SessionSymmetry
INVARIANTS
  RestsBetweenCalls
  CurrentSessionOpen
