SPECIFICATION Spec
CONSTANTS
  Requests = {r1, r2}
  Stops = {d1}
  Sweeper = sweeper
  k1 = k1
  k2 = k2
  p1 = p1
  Keys = {k1}
  Plays = {p1}
  PlayOf <- OnePlay
  LastIndex = 2
  Fmp4 = TRUE
  Allowed = 1
  Throttling = TRUE
  Gap = 1
  SegmentDeletion = TRUE
  Keep = 2
  MayCrash = TRUE
  None = None
SYMMETRY Alike
INVARIANTS TypeOK EncodersAreOwned PausesStarveNobody StoppedServerLeavesNothing
PROPERTY OwnFileIsFinished
CHECK_DEADLOCK FALSE
