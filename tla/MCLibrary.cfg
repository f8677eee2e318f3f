\* One library of two films, of which the provider knows one: two changes of the disk,
\* one fault, three scans, a stop and a restart.
SPECIFICATION ScanSpec
CONSTANTS
  films = films
  heat = heat
  ran = ran
  None = None
  Libraries = {films}
  Rooted = {films}
  Configured = {films}
  Files <- TwoFilms
  LibraryOf <- InFilms
  Unmatched = {ran}
  threshold <- Half
  MaxVersion = 2
  MaxChanges = 2
  MaxFaults = 1
  MaxRequests = 3
  MaxUnlisted = 0
  MaxRestarts = 1
INVARIANTS
  ScanTypeOK
  NobodyIsForgotten
PROPERTIES
  AQuietScanDescribesTheDisk
  AnEmptyShareRemovesNothing
  AfterStopNothingIsWritten
CHECK_DEADLOCK FALSE
