CONSTANTS
  new = new
  bare = bare
  old = old
  Openers = {new, bare, old}
  Latest <- Mixed
  Fts5 = {new, old}
  Starts = {8, 47, 49, 54}
  MaxCrashes = 1
SPECIFICATION MigrationFair
INVARIANTS MigrationTypeOK OpenIsCurrent TriggersClosed
PROPERTIES ImplementsVersions CatchesUp
CHECK_DEADLOCK FALSE
