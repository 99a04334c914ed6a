CONSTANTS
  t1 = t1
  t2 = t2
  s1 = s1
  sys = sys
  r1 = r1
  Tasks = {t1, t2}
  Sessions = {s1, sys}
  System = sys
  Reclaimers = {r1}
  SessionsReturn = TRUE
  Targets = {"emergency", "testing", "complete"}
  Evident = {t1}
  NoSession = NoSession
  NoTask = NoTask
  Cap <- FocusCap
  Deps <- NoDeps
  Weight <- SameWeight
  Authored = {t1, t2}
  Unlabelled = {}
  Prunable = {}
  TxnFails = FALSE
  PerSessionWip = TRUE
  CallModes = {"plain"}
SPECIFICATION ReclaimFair
INVARIANT ReclaimTypeOK
PROPERTIES  ZombiesHeal
CHECK_DEADLOCK FALSE
