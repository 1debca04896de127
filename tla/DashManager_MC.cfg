CONSTANTS
  Tiles = {t1, t2}
  Index = index
  Represents = {r1, r2}
  Threads = 2
  MaxRequests = 5
SPECIFICATION FairSpec
CHECK_DEADLOCK FALSE
INVARIANTS TypeOK OneResolve OneHolder SegmentsInOrder InitialBeforeMedia
PROPERTY WaitsEnd
