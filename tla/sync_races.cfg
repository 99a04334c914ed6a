CONSTANTS
  a1 = a1
  a2 = a2
  y1 = y1
  NoOne = NoOne
  Agents = {a1, a2}
  Syncers = {y1}
  Forced = {y1}
  Roles <- AnyPair
  Born = {"icebox"}
  Reach = {"in_progress", "testing", "blocked"}
SPECIFICATION Spec
INVARIANTS SyncTypeOK NotesKept SkippedIsCurrent
CHECK_DEADLOCK FALSE
