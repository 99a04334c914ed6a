CONSTANTS
  t1 = t1
  t2 = t2
  s1 = s1
  s2 = s2
  d1 = d1
  d2 = d2
  Tasks = {t1}
  Sessions = {}
  Doors = {d1, d2}
  NoSession = NoSession
  NoCall = NoCall
  NoFile = NoFile
  Cap <- TightCap
  Deps <- NoDeps
  PerSessionWip = TRUE
  BlockShortcut = TRUE
  Targets = {"icebox", "in_progress", "testing", "complete", "blocked"}
  CallModes = {"plain", "bypass_gates"}
  Faults = {"crash", "vanish"}
SPECIFICATION FairSpec
INVARIANTS FileOneEdgeAhead
PROPERTIES CallsReturn
CHECK_DEADLOCK FALSE
