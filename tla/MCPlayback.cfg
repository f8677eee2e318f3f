SPECIFICATION Spec
CONSTANTS
  s1 = s1
  s2 = s2
  film = film
  clip = clip
  Sessions = {s1, s2}
  Items = {film}
  Runtime <- Lengths
  Requests <- FilmRequests
  TICKS_PER_SECOND = 1
  MIN_RESUME_PCT = 25
  MAX_RESUME_PCT = 75
  MIN_RESUME_DURATION_SECONDS = 4
  Silence = 1
  MayFail = TRUE
  MaxTime = 2
  MaxCount = 2
  None = None
INVARIANTS TypeOK StoredPositionIsResumable
PROPERTIES SweepKeepsTheRest PlayedUntilStartedOrUnmarked
