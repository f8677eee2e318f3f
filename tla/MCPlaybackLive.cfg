SPECIFICATION FairSpec
CONSTANTS
  s1 = s1
  s2 = s2
  film = film
  clip = clip
  Sessions = {s1, s2}
  Items = {film, clip}
  Runtime <- Lengths
  Requests <- PairRequests
  TICKS_PER_SECOND = 1
  MIN_RESUME_PCT = 25
  MAX_RESUME_PCT = 75
  MIN_RESUME_DURATION_SECONDS = 4
  Silence = 1
  MayFail = TRUE
  MaxTime = 2
  MaxCount = 1
  None = None
PROPERTIES SilentSessionsEnd
