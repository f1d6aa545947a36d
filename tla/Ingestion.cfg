SPECIFICATION Spec
CHECK_DEADLOCK FALSE
CONSTANTS
  TargetTokens = 4
  MaxTokens = 6
  MinTokens = 2
  MergeBelowTokens = 3
  MaxUnits = 3
  Disks <- MCDisks
  Edits <- MCEdits
  Requests <- MCRequests
  Installed = {"pypdf", "pdfminer"}
  MinText = 2
  MaxCalls = 2
INVARIANT
  ReportIsCorpus
