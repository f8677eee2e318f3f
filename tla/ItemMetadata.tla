---------------------------- MODULE ItemMetadata -----------------------------
(***************************************************************************)
(* The metadata of one film or series over its scans: what the scanner     *)
(* derives from the path and the file (src/atrium/library/scan.py), what   *)
(* the refresh behind it resolves from the sidecar, the artwork, a         *)
(* provider and the path (src/atrium/metadata/refresh.py, merge.py), and   *)
(* the row that both of them write (src/atrium/db/repositories.py).        *)
(*                                                                         *)
(* A scan is one transaction (LibraryScan has its steps), so here it is    *)
(* one action.  A value is a set: empty when there is none, of one element *)
(* for a scalar, of pairs for people and their roles and for provider ids. *)
(***************************************************************************)
EXTENDS Naturals, FiniteSets, SequencesExt

CONSTANTS
  Media,      \* what the item may be: "film", "series"
  Sidecars,   \* the sidecars somebody may write, no sidecar among them
  Artworks,   \* what may lie beside the file
  PathName,   \* the name in the path
  Measured,   \* the runtime of each version of the file
  Remote,     \* what the provider knows of the item
  Modes       \* the refresh modes a caller of `scan` may ask for

Fields == {"name", "overview", "runtime", "tags", "people", "ids", "images"}

\* LOCK_OF: ids and images cannot be locked.
Lockable == {"name", "overview", "runtime", "tags", "people"}

\* `_THE_SCANNER_OWNS`
ScannerOwned == {"name"}

ASSUME MediaAssumption == Media \subseteq {"film", "series"}

ASSUME ModesAssumption == Modes \subseteq {"default", "replace", "local-only"}

ASSUME SidecarsAssumption ==
  \A s \in Sidecars : /\ DOMAIN s = {"values", "whole", "names"}
                      /\ DOMAIN s.values = Fields
                      /\ s.whole \in {"unsaid", "yes", "no"}
                      /\ s.names \in {{"unsaid"}} \union SUBSET Lockable

AtMostOne(value) == \A x, y \in value : x = y

\* A person whom a source credits twice is matched by the place in its list, which a
\* set has not: here a source credits everybody once.
ASSUME ValuesAssumption ==
  /\ \A v \in {s.values : s \in Sidecars} \union {Remote} :
       /\ DOMAIN v = Fields
       /\ \A f \in {"name", "overview", "runtime"} : AtMostOne(v[f])
       /\ \A p, q \in v["people"] : p[1] = q[1] => p = q
  /\ AtMostOne(PathName)
  /\ \A version \in DOMAIN Measured : AtMostOne(Measured[version])
  /\ 1 \in DOMAIN Measured

VARIABLES
  medium, file, sidecar, artwork, provider,
  item    \* the rows there are of the item: none, or one

metadataVars == <<medium, file, sidecar, artwork, provider, item>>

----------------------------------------------------------------------------
MetadataTypeOK ==
  /\ medium \in Media
  /\ file \in DOMAIN Measured
  /\ sidecar \in Sidecars
  /\ artwork \in Artworks
  /\ provider \in {"up", "down", "unmatched"}
  /\ Cardinality(item) <= 1
  /\ \A row \in item :
       /\ DOMAIN row.values = Fields
       /\ \A f \in {"name", "overview", "runtime"} : Cardinality(row.values[f]) <= 1
       /\ row.source \in DOMAIN Measured
       /\ row.locked \in BOOLEAN
       /\ row.names \subseteq Lockable
       /\ row.pending \in BOOLEAN /\ row.resolved \in BOOLEAN

MetadataInit ==
  /\ medium \in Media
  /\ file = 1
  /\ sidecar \in Sidecars
  /\ artwork \in Artworks
  /\ provider = "up"
  /\ item = {}

----------------------------------------------------------------------------
(* The merge: values in, values out.                                       *)

NoValues == [f \in Fields |-> {}]

\* `_first_value`: what is empty is not a value.
FirstValue(sources, f) ==
  LET i == SelectInSeq(sources, LAMBDA s : s[f] # {})
  IN IF i = 0 THEN {} ELSE sources[i][f]

\* `_union`
United(current, winner, mode) ==
  IF mode = "replace" THEN winner ELSE current \union winner

\* `_enrich`: nobody is added and nobody removed, a role that is missing is filled in.
Enriched(current, winner, mode) ==
  IF mode = "replace" \/ current = {} THEN winner
  ELSE {LET offered == {q \in winner : q[1] = p[1]}
        IN IF p[2] = "" /\ offered # {} THEN CHOOSE q \in offered : TRUE ELSE p
        : p \in current}

\* `_accumulate`: an id the item has is replaced only by a Replace.
Accumulated(current, winner, mode) ==
  LET has(ids, i) == \E j \in ids : j[1] = i[1]
  IN IF mode = "replace" THEN winner \union {i \in current : ~has(winner, i)}
     ELSE current \union {i \in winner : ~has(current, i)}

\* Mistake: a scalar is combined like a list.
AppliedUnited(f, current, winner, mode) ==
  CASE f = "images" -> winner
    [] f = "people" -> Enriched(current, winner, mode)
    [] f = "ids" -> Accumulated(current, winner, mode)
    [] OTHER -> United(current, winner, mode)

\* `_apply`
Applied(f, current, winner, mode) ==
  CASE f = "images" -> winner
    [] f = "tags" -> United(current, winner, mode)
    [] f = "people" -> Enriched(current, winner, mode)
    [] f = "ids" -> Accumulated(current, winner, mode)
    [] OTHER -> IF current # {} /\ mode # "replace" THEN current ELSE winner

\* `values_of`: what a default refresh keeps, without what the scanner derived.
Held(row, f) == IF f \in ScannerOwned THEN {} ELSE row.values[f]

\* Locked, or a runtime of a file, which is what opening the file measured.
Refused(row, f) ==
  row.locked \/ f \in row.names \/ (f = "runtime" /\ medium = "film")

\* `merge`
Merged(row, sources, mode) ==
  [f \in Fields |->
     LET winner == FirstValue(sources, f)
     IN IF winner = {} \/ Refused(row, f) THEN row.values[f]
        ELSE Applied(f, Held(row, f), winner, mode)]

----------------------------------------------------------------------------
(* The refresh of an item (`_apply_one`).                                  *)

\* The sidecar, with the artwork in front of it.
Local(paper, art) == [paper.values EXCEPT !["images"] = art]

\* `_path_values`, read off the row.
FromPath(row) == [NoValues EXCEPT !["name"] = row.values["name"]]

\* `_wanted_for`, of the fields there are here.
Wanted == {"name", "overview", "people"}
            \union (IF medium = "film" THEN {} ELSE {"runtime"})

\* Mistake: an item that a refresh has been at wants nothing more.
StillWantingOnce(row, local) ==
  ~row.resolved /\ \E f \in Wanted : local[f] = {} /\ FromPath(row)[f] = {}

\* `_still_wanting`
StillWanting(row, local) ==
  \E f \in Wanted : local[f] = {} /\ FromPath(row)[f] = {} /\ Held(row, f) = {}

\* Whether `_remote` asks the provider at all.
Asks(row, local, mode) ==
  mode # "local-only" /\ (mode = "replace" \/ StillWanting(row, local))

\* Every local source, then remote, then the path.
Sources(row, local, remote) == <<local>> \o remote \o <<FromPath(row)>>

Refreshed(row, paper, art, mode, weather) ==
  LET local == Local(paper, art)
      asks == Asks(row, local, mode)
      failed == asks /\ weather = "down"
      remote == IF asks /\ weather = "up" THEN <<Remote>> ELSE <<>>
      values == Merged(row, Sources(row, local, remote), mode)
      silent == paper.whole = "unsaid" /\ paper.names = {"unsaid"}
  IN IF values = row.values /\ silent /\ ~failed THEN row
     ELSE [row EXCEPT !.values = values,
                      !.locked = IF paper.whole = "unsaid" THEN @ ELSE paper.whole = "yes",
                      !.names = IF paper.names = {"unsaid"} THEN @ ELSE paper.names,
                      !.pending = failed,
                      !.resolved = TRUE]

----------------------------------------------------------------------------
(* The scan.                                                               *)

\* `_runtime_of`: a container has no file, and no runtime of the scanner's.
ScannedRuntime(version) == IF medium = "film" THEN Measured[version] ELSE {}

\* Mistake: a name of its own is compared though a refresh has resolved it.
DiffersByName(row, version) ==
  \/ row.values["name"] # PathName
  \/ row.values["runtime"] # ScannedRuntime(version)
  \/ medium = "film" /\ row.source # version

\* `_differs`
Differs(row, version) ==
  \/ ~row.resolved /\ row.values["name"] # PathName
  \/ row.values["runtime"] # ScannedRuntime(version)
  \/ medium = "film" /\ row.source # version

\* `ItemRepository.add`
New(version) ==
  [values |-> [NoValues EXCEPT !["name"] = PathName,
                               !["runtime"] = ScannedRuntime(version)],
   source |-> version, locked |-> FALSE, names |-> {}, pending |-> FALSE,
   resolved |-> FALSE]

\* Mistake: the scanner names the item on every scan.
UpdatedWithName(row, version) ==
  [row EXCEPT !.values["name"] = PathName,
              !.values["runtime"] = IF medium = "film" THEN ScannedRuntime(version) ELSE @,
              !.source = version]

\* `ItemRepository.update`: the name is the refresh's once it has resolved one.
Updated(row, version) ==
  [row EXCEPT !.values["name"] = IF row.resolved THEN @ ELSE PathName,
              !.values["runtime"] = IF medium = "film" THEN ScannedRuntime(version) ELSE @,
              !.source = version]

\* What the scan hands to the refresh: what it touched, and what is still pending.
Touched(row, version, deep) == deep \/ row.pending \/ Differs(row, version)

Scanned(row, version, paper, art, mode, deep, weather) ==
  LET written == IF Differs(row, version) THEN Updated(row, version) ELSE row
  IN IF Touched(row, version, deep) THEN Refreshed(written, paper, art, mode, weather)
     ELSE written

FirstScan(mode) ==
  /\ item = {}
  /\ item' = {Refreshed(New(file), sidecar, artwork, mode, provider)}
  /\ UNCHANGED <<medium, file, sidecar, artwork, provider>>

ScanAgain(mode, deep) ==
  /\ item # {}
  /\ item' = {Scanned(row, file, sidecar, artwork, mode, deep, provider) : row \in item}
  /\ UNCHANGED <<medium, file, sidecar, artwork, provider>>

\* Somebody edits the library; the provider comes and goes, and learns.
WorldChanges ==
  /\ \/ file' \in DOMAIN Measured /\ UNCHANGED <<sidecar, artwork, provider>>
     \/ sidecar' \in Sidecars /\ UNCHANGED <<file, artwork, provider>>
     \/ artwork' \in Artworks /\ UNCHANGED <<file, sidecar, provider>>
     \/ /\ provider' \in {"up", "down", "unmatched"}
        /\ UNCHANGED <<file, sidecar, artwork>>
  /\ UNCHANGED <<medium, item>>

MetadataNext ==
  \/ \E mode \in Modes : FirstScan(mode) \/ \E deep \in BOOLEAN : ScanAgain(mode, deep)
  \/ WorldChanges

----------------------------------------------------------------------------
(* What has to hold.                                                       *)

\* A provider that was away costs an item, new or old, nothing: when the refresh is tried
\* again, the item is what it would be had the provider answered at once.  But where the
\* sidecar sets a lock or lifts one: the try that failed does that, before the next one.
AnOutageLeavesNoTrace ==
  \A row \in item \union {New(file)}, mode \in Modes :
    LET Try(r, weather) == Refreshed(r, sidecar, artwork, mode, weather)
        failed == Try(row, "down")
    IN failed.locked = row.locked /\ failed.names = row.names =>
         Try(failed, "up").values = Try(row, "up").values

\* A rescan of an unchanged library changes nothing and touches nothing: no value moves,
\* unless the scan before has taken a lock away, and what a scan has left needs no
\* refresh, but what its provider failed for and the series whose sidecar gives a
\* runtime, which every scan takes for a difference.
ARescanChangesNothing ==
  [][\A mode \in Modes, deep \in BOOLEAN : FirstScan(mode) \/ ScanAgain(mode, deep) =>
       \A row \in item' :
         /\ row.resolved /\ ~row.pending /\ (medium = "film" \/ row.values["runtime"] = {})
              => ~Touched(row, file, FALSE)
         /\ (\A old \in item : (old.locked => row.locked) /\ old.names \subseteq row.names)
              => Scanned(row, file, sidecar, artwork, mode, deep, provider).values
                   = row.values
    ]_metadataVars

\* A lock keeps the value whatever the scans find and however they are asked, until the
\* sidecar itself takes it away: neither half of a scan writes over it.  The runtime of a
\* film is not the refresh's to keep.
ALockKeepsItsValue ==
  [][\A old \in item, row \in item', f \in Lockable :
       (old.locked \/ f \in old.names) /\ ~(f = "runtime" /\ medium = "film") =>
         row.values[f] = old.values[f]]_metadataVars
=============================================================================
