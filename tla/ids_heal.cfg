CONSTANTS
  c1 = c1
  c2 = c2
  p1 = p1
  sa = sa
  sb = sb
  old = old
  Creators = {c1, c2}
  Pruners = {p1}
  Slug <- OwnSlugs
  OldSlug = old
  MaxId = 4
  Reserving = Reserving
  NoRow = NoRow
  Faults = {"crash", "remove"}
SPECIFICATION FairSpec
INVARIANTS IdsTypeOK DistinctReservations DistinctIds
PROPERTIES TableHeals
CHECK_DEADLOCK FALSE
