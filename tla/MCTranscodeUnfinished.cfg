SPECIFICATION Spec
CONSTANTS
  Requests = {r1, r2}
  Stops = {}
  Sweeper = sweeper
  k1 = k1
  k2 = k2
  p1 = p1
  Keys = {k1}
  Plays = {p1}
  PlayOf <- OnePlay
  LastIndex = 2
  Fmp4 = FALSE
  Allowed = 1
  Throttling = FALSE
  Gap = 1
  SegmentDeletion = FALSE
  Keep = 1
  MayCrash = FALSE
  None = None
PROPERTY NeverServedUnfinished
CHECK_DEADLOCK FALSE
