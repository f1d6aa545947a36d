SPECIFICATION Spec
CONSTANTS
  Threads = {t1, t2, t3}
  Handles = {h1, h2, h3, h4}
  Docs = {d1}
  Nothing = Nothing
  Free = Free
  Outsiders = FALSE
  MayStop = FALSE
CHECK_DEADLOCK FALSE
SYMMETRY Symmetries
INVARIANTS
  NeverTwoModels
