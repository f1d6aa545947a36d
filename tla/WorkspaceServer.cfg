SPECIFICATION Spec
CONSTANTS
  Threads = {t1, t2, t3}
  Handles = {h1, h2, h3, h4}
  Docs = {d1}
  Nothing = Nothing
  Free = Free
  Outsiders = FALSE
  MayStop = TRUE
CHECK_DEADLOCK FALSE
SYMMETRY Symmetries
INVARIANTS
  TypeOK
  ChecksumFreshUnderLock
  OneCallAtATime
  AnswersFromCommitted
  TransactionOwned
  DocumentsStayWhole
  IngestedIsStored
