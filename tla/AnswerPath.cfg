SPECIFICATION Spec
CONSTANTS
  Ignored <- MCIgnored
  Figures <- MCFigures
  Points <- MCPoints
  Percents <- MCPercents
  Spelling <- MCSpelling
  WordOrder <- MCWordOrder
  StemOf <- MCStemOf
  Width <- MCWidth
  ModelDensity = 30
  Boilerplate <- MCBoilerplate
  NearDuplicate = 50
  GenericTerms <- MCGenericTerms
  NumericMarkers <- MCNumericMarkers
  Weights <- MCWeights
  Corpora <- MCCorpora
  Questions <- MCQuestions
  Hosts <- MCHosts
  Machines <- MCMachines
  Outputs <- MCOutputs
  MaxEvidenceChars <- MCMaxEvidenceChars
  HeaderChars = 20
INVARIANTS
  FiguresStayWhole
  GrowthIsRounding
  BudgetFollowsMachine
  EvidenceFitsBudget
  PassedIsSupported
  HeatIsReported
