------------------------------- MODULE MCParts -------------------------------
(* Small instances of the parts that have nothing to do with one another:  *)
(* a behaviour is one of Productions, of Playlists, of ItemMetadata or of  *)
(* Scanner.                                                                *)
EXTENDS Productions, Playlists, ItemMetadata, Scanner

CONSTANTS r1, r2, r3, ann, bob, films, shows, shelf

\* Three requests for a subtitle, or two for a remux beside a stream.
ThreeRequests == {r1, r2, r3}
TwoMixes == {[r \in Requests |-> "extraction"],
             [r \in Requests |-> IF r = r3 THEN "stream" ELSE "remux"]}

\* Each of two users sees only a part of four items; the second may edit.
TwoUsers == {ann, bob}
HalfClosed == [u \in Users |-> IF u = ann THEN {4} ELSE {2, 3}]
TwoBatches == {<<1, 2, 3>>, <<4, 1, 4>>}
OneGrant == {[u \in Users |-> IF u = ann THEN "none" ELSE "edit"]}

\* No sidecar, one that is open and gives a runtime, one that locks.
NoSidecar == [values |-> NoValues, whole |-> "unsaid", names |-> {"unsaid"}]
OpenSidecar ==
  [values |-> [NoValues EXCEPT !["name"] = {"Heat"}, !["tags"] = {"noir"},
                               !["people"] = {<<"Pacino", "">>}, !["runtime"] = {"3h"}],
   whole |-> "no", names |-> {}]
LockedSidecar ==
  [values |-> [NoValues EXCEPT !["overview"] = {"mine"}, !["ids"] = {<<"Tmdb", 1>>}],
   whole |-> "yes", names |-> {"overview", "name"}]
ThreeSidecars == {NoSidecar, OpenSidecar, LockedSidecar}
TwoArtworks == {{"front"}, {"back"}}
InThePath == {"heat.1995"}
TwoVersions == <<{"1h"}, {"2h"}>>
Known ==
  [NoValues EXCEPT !["name"] = {"Heat (1995)"}, !["overview"] = {"theirs"},
                   !["tags"] = {"crime"}, !["ids"] = {<<"Tmdb", 9>>},
                   !["people"] = {<<"Pacino", "Hanna">>, <<"De Niro", "">>}]

\* Three libraries, one without paths and one added while the server runs.
ThreeLibraries == {films, shows, shelf}

----------------------------------------------------------------------------
VARIABLE part

partsVars == <<part, productionVars, playlistVars, metadataVars, vars>>

PartsInit ==
  /\ part \in {"productions", "playlists", "metadata", "scanner"}
  /\ ProductionInit /\ PlaylistInit /\ MetadataInit /\ Init
  \* One start for the parts that stand still.
  /\ part # "productions" => kind = [r \in Requests |-> "extraction"]
  /\ part # "metadata" =>
       medium = "film" /\ sidecar = NoSidecar /\ artwork = {"front"}

PartsNext ==
  /\ UNCHANGED part
  /\ \/ /\ part = "productions" /\ ProductionNext
        /\ UNCHANGED <<playlistVars, metadataVars, vars>>
     \/ /\ part = "playlists" /\ PlaylistNext
        /\ UNCHANGED <<productionVars, metadataVars, vars>>
     \/ /\ part = "metadata" /\ MetadataNext
        /\ UNCHANGED <<productionVars, playlistVars, vars>>
     \/ /\ part = "scanner" /\ Next
        /\ UNCHANGED <<productionVars, playlistVars, metadataVars>>

\* The event loop runs what is ready and its timers come; ffmpeg owes nothing.  Who
\* waits for a lock is woken when it is let go, in turn.  A scan ends.
PartsFairness ==
  /\ \A r \in Requests : WF_productionVars(part = "productions" /\ HandlerOf(r))
  /\ \A r \in Requests : SF_productionVars(part = "productions" /\ TakeLock(r))
  /\ WF_vars(part = "scanner" /\ WorkerStep)
  /\ WF_vars(part = "scanner" /\ ScanReturns)
  /\ WF_vars(part = "scanner" /\ Stopped)

PartsSpec == PartsInit /\ [][PartsNext]_partsVars /\ PartsFairness

\* The type invariants of the four modules.
PartsTypeOK == ProductionTypeOK /\ PlaylistTypeOK /\ MetadataTypeOK /\ TypeOK
=============================================================================
