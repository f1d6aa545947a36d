SPECIFICATION LiveSpec
CHECK_DEADLOCK FALSE
CONSTANTS
  Pipe = 1
  MaxOutput = 2
  MaxLines = 2
  Generations = 2
  Builds <- MCBuilds
  ErrorTexts <- MCErrorTexts
  HookFaults = {"TypeError", "other"}
INVARIANTS
  AnswerIsWhole
  RejectedFlagIsNamed
  FlagsFitTheBuild
  NothingLeftBehind
PROPERTY
  GenerateEnds
