SPECIFICATION Spec
CONSTANTS
  Campaigns <- SmallCampaign
  Evaluations <- MCEvaluations
  CorpusSize = 2
  Sensors <- HotMachine
  OomMargin = 3
  RamLimit = 7
  ThermalLimit = 8
CHECK_DEADLOCK FALSE
INVARIANT
  HeatIsPenalised
