SPECIFICATION FairSpec
CONSTANTS
  Threads = {t1, t2}
  Handles = {h1, h2, h3}
  Docs = {d1}
  Nothing = Nothing
  Free = Free
  Outsiders = TRUE
  MayStop = TRUE
CHECK_DEADLOCK FALSE
INVARIANTS
  AnswersWhole
PROPERTIES
  RequestsEnd
