\* Three requests for ffmpeg; a playlist of four items and two users, of whom neither
\* sees them all; a film or a series over the scans, with a provider that comes and goes;
\* three libraries, one of them added while the server runs, a stop and a restart.
SPECIFICATION PartsSpec
CONSTANTS
  r1 = r1
  r2 = r2
  r3 = r3
  ann = ann
  bob = bob
  Nothing = Nothing
  Requests <- ThreeRequests
  Mixes <- TwoMixes
  Users <- TwoUsers
  Administrators = {bob}
  Keys = {1, 2, 3, 4}
  Closed <- HalfClosed
  Batches <- TwoBatches
  Grants <- OneGrant
  Media = {"film", "series"}
  Modes = {"default", "replace"}
  Sidecars <- ThreeSidecars
  Artworks <- TwoArtworks
  PathName <- InThePath
  Measured <- TwoVersions
  Remote <- Known
  films = films
  shows = shows
  shelf = shelf
  None = None
  Libraries <- ThreeLibraries
  Rooted = {films, shows}
  Configured = {films}
  MaxRequests = 3
  MaxUnlisted = 1
  MaxRestarts = 1
INVARIANTS
  PartsTypeOK
  OneExtractionPerArtefact
  NothingOutlivesItsRequest
  ServedWhole
  OrdinalsAreContiguous
  AnOutageLeavesNoTrace
  SettledOwesNothing
PROPERTIES
  EntriesKeepTheirPlace
  ARescanChangesNothing
  ALockKeepsItsValue
  EveryExtractionIsAnswered
  AnswersEveryRequest
  StopReturns
CHECK_DEADLOCK FALSE
