CONSTANTS
  t1 = t1
  t2 = t2
  t3 = t3
  t4 = t4
  s1 = s1
  s2 = s2
  Tasks = {t1, t2, t3, t4}
  Sessions = {s1, s2}
  NoSession = NoSession
  NoTask = NoTask
  Cap <- FocusCap
  Deps <- OneDep
  Weight <- Weights
  Authored = {t1, t2, t3}
  Unlabelled = {t2}
  Prunable = {t1}
  TxnFails = TRUE
  PerSessionWip = TRUE
  CallModes = {"plain"}
  Targets = {"icebox", "emergency", "testing", "complete"}
SPECIFICATION ClaimFair
INVARIANTS ClaimTypeOK DistinctClaims OneFocus
PROPERTIES NullMeansRefused ClaimsReturn
CHECK_DEADLOCK FALSE
