SPECIFICATION Spec
CONSTANTS
  Exp = {e1, e2}
  Task = {t1, t2, t3, t4}
  Msg = {m1}
  Max = 2
  AfterAll = FALSE
  NoExp = NoExp
  NoTask = NoTask
SYMMETRY Symmetry
VIEW View
CHECK_DEADLOCK FALSE
INVARIANTS
  TypeOK
  OneDecisionPerExpectation
  TimeoutArmed
  WindowTimerTracked
