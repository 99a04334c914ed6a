CONSTANTS
  t1 = t1
  t2 = t2
  s1 = s1
  s2 = s2
  d1 = d1
  d2 = d2
  Tasks = {t1}
  Sessions = {}
  Doors = {d1, d2}
  NoSession = NoSession
  NoCall = NoCall
  NoFile = NoFile
  Cap <- TightCap
  Deps <- NoDeps
  PerSessionWip = TRUE
  BlockShortcut = FALSE
  Targets = {"icebox", "in_progress", "testing", "complete"}
  CallModes = {"plain", "force"}
  Faults = {"write", "commit", "crash", "vanish"}
SPECIFICATION Spec
PROPERTIES ImplementsBoard
SYMMETRY AllSymmetry
CHECK_DEADLOCK FALSE
