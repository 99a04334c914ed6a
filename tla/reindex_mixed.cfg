CONSTANTS
  caller = caller
  callee = callee
  base = base
  m = m
  n = n
  Files = {caller, callee}
  Names = {m, n}
  Versions <- Mutual
  Commands <- MutualCommands
  Gone = Gone
  NoRow = NoRow
  MaxJobs = 2
  MaxTroubles = 1
SPECIFICATION ReindexFair
INVARIANTS ReindexTypeOK IncrementalIsFull
PROPERTIES WorkersEnd
CHECK_DEADLOCK FALSE
