CONSTANTS
  caller = caller
  callee = callee
  base = base
  m = m
  n = n
  Files = {caller, callee, base}
  Names = {m, n}
  Versions <- Chain
  Commands = {}
  Gone = Gone
  NoRow = NoRow
  MaxJobs = 2
  MaxTroubles = 0
SPECIFICATION ReindexSpec
INVARIANTS CallersReread
CHECK_DEADLOCK FALSE
