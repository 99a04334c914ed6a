CONSTANTS
  t1 = t1
  t2 = t2
  s1 = s1
  s2 = s2
  d1 = d1
  d2 = d2
  Tasks = {t1, t2}
  Sessions = {s1, s2}
  Doors = {d1, d2}
  NoSession = NoSession
  NoCall = NoCall
  NoFile = NoFile
  Cap <- TightCap
  Deps <- OneDep
  PerSessionWip = TRUE
  BlockShortcut = TRUE
  Targets = {"in_progress", "testing"}
  CallModes = {"plain", "bypass_gates"}
  Faults = {"write"}
SPECIFICATION Spec
INVARIANTS TypeOK WipRespected LockInv FileAgrees
PROPERTIES AuditChain
SYMMETRY AllSymmetry
CHECK_DEADLOCK FALSE
