SPECIFICATION Spec
CHECK_DEADLOCK FALSE
CONSTANTS
  TargetTokens = 4
  MaxTokens = 6
  MinTokens = 2
  MergeBelowTokens = 3
  MaxUnits = 3
  Disks <- Single
  Edits = {}
  Requests <- SingleRequest
  Installed = {"pypdf", "pdfminer"}
  MinText = 1
  MaxCalls = 1
INVARIANTS
  LinesConserved
  SectionsKept
  UnitsFit
