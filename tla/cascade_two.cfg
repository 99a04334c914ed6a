CONSTANTS
  t1 = t1
  t2 = t2
  t3 = t3
  t4 = t4
  c1 = c1
  c2 = c2
  Tasks = {t1, t2, t3, t4}
  Sessions = {c1, c2}
  Callers = {c1, c2}
  NoSession = NoSession
  NoTask = NoTask
  Cap <- WideCap
  Deps <- TwoDeps
  Authored = {t3}
  Movable = {t1, t2, t4}
  MayFail = TRUE
  PerSessionWip = TRUE
  CallModes = {"plain"}
  Targets = {"in_progress", "complete", "blocked", "testing"}
SPECIFICATION CascadeSpec
INVARIANTS CascadeTypeOK NoneForgotten
PROPERTIES OnlyAuthoredLabelled
CHECK_DEADLOCK FALSE
