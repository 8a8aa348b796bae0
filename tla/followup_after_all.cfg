SPECIFICATION FairSpec
CONSTANTS
  Exp = {e1, e2}
  Task = {t1, t2}
  Msg = {m1}
  Max = 2
  AfterAll = TRUE
  NoExp = NoExp
  NoTask = NoTask
CHECK_DEADLOCK FALSE
PROPERTIES
  Quiesces
