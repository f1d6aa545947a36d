SPECIFICATION Spec
CONSTANTS
  Campaigns <- MCCampaigns
  Evaluations <- MCEvaluations
  CorpusSize = 2
  Sensors <- MCSensors
  OomMargin = 3
  RamLimit = 7
  ThermalLimit = 8
CHECK_DEADLOCK FALSE
INVARIANTS
  FailuresAreReported
  MeasuredAsDeclared
  OnlyAnswersCount
  SilenceAloneNeverDisqualifies
