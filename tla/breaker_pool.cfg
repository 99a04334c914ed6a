CONSTANTS
  Callers = {d1, d2, d3}
  Timeouts = {1, 3}
  Hints = {0, 2, 4}
  Base = 1
  Maximum = 3
  FailCap = 3
  Lag = 1
  DbBusy = TRUE
SPECIFICATION BreakerFair
INVARIANTS BreakerTypeOK
PROPERTIES LastCooldownKept ProbeUndisturbed Reopens
CHECK_DEADLOCK FALSE
