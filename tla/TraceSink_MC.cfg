CONSTANTS
  Producers = {p1, p2}
  MaxEvents = 3
  Keys = {k1, k2}
  Events = {x1, x2, x3, x4}
  Bulk = 3
SPECIFICATION SinkSpec
CHECK_DEADLOCK FALSE
INVARIANTS StoredInOrder CountMatchesRows
PROPERTIES CancelReturns CommandEnds
