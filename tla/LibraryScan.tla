----------------------------- MODULE LibraryScan -----------------------------
(***************************************************************************)
(* What a scan does to the rows of a library (src/atrium/library/scan.py,  *)
(* walker.py, metadata/refresh.py), inside the scanner that starts it.     *)
(* Meanwhile files come, go and change, shares go away, the server stops   *)
(* or dies, and a negotiation that finds a file nobody inspected opens it  *)
(* and stores what it sees (library/inspection.py).                        *)
(*                                                                         *)
(* A scan is one transaction of the scan thread.  Its reads see what is    *)
(* committed; its first write takes the database's write lock, and what it *)
(* writes is in `scan` until the commit.                                   *)
(***************************************************************************)
EXTENDS Scanner

CONSTANTS
  Files,
  LibraryOf,          \* the library whose paths a file lies under
  Unmatched,          \* the files the online provider does not know
  threshold,          \* the part of a library that may go: <<of, in>>
  MaxVersion, MaxChanges, MaxFaults \* bounds

ASSUME FilesAssumption == LibraryOf \in [Files -> Rooted] /\ Unmatched \subseteq Files

ASSUME NumbersAssumption ==
  /\ {MaxVersion, MaxChanges, MaxFaults} \subseteq Nat /\ MaxVersion # 0
  /\ threshold \in Nat \X (Nat \ {0})

VARIABLES
  disk,    \* the version of each file, 0 when there is none
  share,   \* what the paths of a library show
  rows,    \* the item rows with their sources
  probes,  \* the stored inspections, by the version inspected
  scan,    \* the scan in progress
  opening, \* the inspection of a negotiation in progress
  changes, faults

worldVars == <<disk, share, changes>>
dataVars == <<rows, probes>>
allVars == <<vars, worldVars, dataVars, scan, opening, faults>>

----------------------------------------------------------------------------
\* The signal of a file, its size and time, is its version.
Versions == 0..MaxVersion

Row == [removed: BOOLEAN, source: Versions, runtime: Versions,
        resolved: BOOLEAN, refresh_pending: BOOLEAN]

ASSUME NoRowAssumption == None \notin Row

Added(version, runtime) ==
  [removed |-> FALSE, source |-> version, runtime |-> runtime, resolved |-> FALSE,
   refresh_pending |-> FALSE]

Phases == {"idle", "settling", "resolving", "inspecting", "writing", "refreshing",
           "checking", "committing"}

Table == [Files -> Row \union {None}]

Scan == [phase: Phases, walked: [Files -> Versions], existing: Table,
         touched: SUBSET Files, locked: BOOLEAN, rows: Table,
         probes: [Files -> Versions], undisturbed: BOOLEAN]

NoFiles == [f \in Files |-> 0]
NoRows == [f \in Files |-> None]

NoScan == [phase |-> "idle", walked |-> NoFiles, existing |-> NoRows, touched |-> {},
           locked |-> FALSE, rows |-> NoRows, probes |-> NoFiles, undisturbed |-> TRUE]

FilesOf(l) == {f \in Files : LibraryOf[f] = l}

Seen(f) == IF share[LibraryOf[f]] = "mounted" THEN disk[f] ELSE 0

Live(f) == rows[f] # None /\ ~rows[f].removed

ScanTypeOK ==
  /\ TypeOK
  /\ disk \in [Files -> Versions]
  /\ share \in [Rooted -> {"mounted", "empty", "away"}]
  /\ rows \in Table
  /\ probes \in [Files -> Versions]
  /\ scan \in Scan
  /\ opening \in [file: Files, version: Versions] \union {None}
  /\ changes \in 0..MaxChanges
  /\ faults \in 0..MaxFaults

ScanInit ==
  /\ Init
  /\ disk = [f \in Files |-> 1]
  /\ share = [l \in Rooted |-> "mounted"]
  /\ rows = NoRows
  /\ probes = NoFiles
  /\ scan = NoScan
  /\ opening = None
  /\ changes = 0
  /\ faults = 0

----------------------------------------------------------------------------
(* The scan.                                                               *)

At(phase) == worker = "scanning" /\ scan.phase = phase

\* What the transaction sees: its own writes once it has made one.
View == IF scan.locked THEN scan.rows ELSE rows
ViewProbes == IF scan.locked THEN scan.probes ELSE probes

Goes(fields) ==
  /\ scan' = fields
  /\ UNCHANGED <<vars, worldVars, dataVars, opening>>

\* The transaction is rolled back: nothing of the scan is left.
RollsBack ==
  /\ scan' = NoScan
  /\ ScanReturns
  /\ UNCHANGED <<worldVars, dataVars, opening>>

Faulty == faults < MaxFaults /\ faults' = faults + 1

\* Guard one, and the first pass of the walk.
Walk ==
  /\ At("idle") /\ job.library \in Rooted
  /\ share[job.library] # "away"
  /\ Goes([NoScan EXCEPT
             !.phase = "settling",
             !.walked = [f \in Files |-> IF LibraryOf[f] = job.library THEN Seen(f) ELSE 0]])
  /\ UNCHANGED faults

RootUnreadable ==
  /\ At("idle") /\ job.library \in Rooted
  /\ share[job.library] = "away"
  /\ RollsBack
  /\ UNCHANGED faults

\* The second pass: a file whose size has moved, or that has gone, is no candidate.
Settle(moved) ==
  /\ At("settling")
  /\ moved \subseteq {f \in Files : scan.walked[f] # 0 /\ Seen(f) # scan.walked[f]}
  /\ Goes([scan EXCEPT
             !.phase = "resolving",
             !.walked = [f \in Files |-> IF scan.walked[f] = 0 \/ f \in moved THEN 0
                                         ELSE Seen(f)]])
  /\ UNCHANGED faults

Candidates == {f \in Files : scan.walked[f] # 0}

Held(table) == {f \in FilesOf(job.library) : table[f] # None}

\* What has gone since it was last seen.
Missing(table) == {f \in Held(table) \ Candidates : ~table[f].removed}

\* Mistake: an empty walk is believed.
GuardsLoose(existing) ==
  threshold[2] * Cardinality(Missing(existing)) > threshold[1] * Cardinality(Held(existing))

\* Guards two and three: nothing left of what was known, or too much of it gone.
Guarded(existing) ==
  \/ Candidates = {} /\ Held(existing) # {}
  \/ /\ Missing(existing) # {}
     /\ threshold[2] * Cardinality(Missing(existing))
          > threshold[1] * Cardinality(Held(existing))

Resolve ==
  /\ At("resolving")
  /\ ~Guarded(rows)
  /\ Goes([scan EXCEPT !.phase = "inspecting", !.existing = rows])
  /\ UNCHANGED faults

Refused ==
  /\ At("resolving")
  /\ Guarded(rows)
  /\ RollsBack
  /\ UNCHANGED faults

\* `_inspect_media`: the files whose stored inspection describes other bytes are opened,
\* as they are now.  One that cannot be read costs itself.
Inspect(broken) ==
  /\ At("inspecting")
  /\ LET due == {f \in Candidates : probes[f] # scan.walked[f]}
         opened == {f \in due \ broken : Seen(f) # 0}
     IN /\ broken \subseteq due
        /\ IF broken = {} THEN UNCHANGED faults ELSE Faulty
        /\ Goes([scan EXCEPT
                   !.phase = "writing",
                   !.locked = opened # {},
                   !.rows = rows,
                   !.probes = [f \in Files |-> IF f \in opened THEN Seen(f) ELSE probes[f]],
                   !.undisturbed = @ /\ broken = {}])

\* `_reconcile`: of a file that is not modified the stored row is kept, with its runtime.
Modified(f) == scan.existing[f].source # scan.walked[f]

\* Mistake: the duration an inspection measured is not compared.
DiffersBySource(f) == Modified(f)

\* `_differs`, of the item with the runtime that was measured.
Differs(f) ==
  \/ Modified(f)
  \/ scan.existing[f].runtime # ViewProbes[f]

\* `update` leaves `removed` alone; `revive` and `mark_removed` change nothing else.
Written(f) ==
  LET runtime == ViewProbes[f]
      row == View[f]
      updated == IF Differs(f)
                 THEN [row EXCEPT !.source = scan.walked[f], !.runtime = runtime]
                 ELSE row
  IN IF f \in Candidates
     THEN IF scan.existing[f] = None THEN Added(scan.walked[f], runtime)
          ELSE [updated EXCEPT !.removed = @ /\ ~scan.existing[f].removed]
     ELSE IF f \in Missing(scan.existing) THEN [row EXCEPT !.removed = TRUE]
     ELSE row

\* What the refresh takes from `_touched` is compared before the measured runtime is in.
Write ==
  /\ At("writing")
  /\ LET written == [f \in Files |-> Written(f)] IN
       Goes([scan EXCEPT
               !.phase = "refreshing",
               !.touched = {f \in Candidates : scan.existing[f] = None \/ Modified(f)},
               !.rows = written,
               !.probes = ViewProbes,
               !.locked = @ \/ written # View])
  /\ UNCHANGED faults

\* Mistake: only what the scan touched is refreshed.
ConsideredTouched == {f \in scan.touched : View[f] # None /\ ~View[f].removed}

\* `pending_and_touched`, less what is not there.
Considered ==
  {f \in scan.touched \union {g \in FilesOf(job.library) :
                                View[g] # None /\ View[g].refresh_pending} :
     View[f] # None /\ ~View[f].removed}

\* Mistake: a failure of the provider is logged and no more.
RefreshUnmarked(failing) ==
  /\ At("refreshing")
  /\ LET asking == {f \in Considered : ~View[f].resolved}
         found == asking \ (failing \union Unmatched)
     IN /\ failing \subseteq asking
        /\ IF failing = {} THEN UNCHANGED faults ELSE Faulty
        /\ Goes([scan EXCEPT
                   !.phase = "checking",
                   !.undisturbed = @ /\ failing = {},
                   !.locked = @ \/ found # {},
                   !.rows = [f \in Files |->
                               IF f \in found
                               THEN [View[f] EXCEPT !.resolved = TRUE,
                                                    !.refresh_pending = FALSE]
                               ELSE View[f]],
                   !.probes = ViewProbes])

\* `_apply_one`, whose local sources say nothing: the provider is asked for what is still
\* wanting.  An answer settles the item, a failure marks it, and one it does not know
\* changes nothing.
Refresh(failing) ==
  /\ At("refreshing")
  /\ LET asking == {f \in Considered : ~View[f].resolved}
         found == asking \ (failing \union Unmatched)
     IN /\ failing \subseteq asking
        /\ IF failing = {} THEN UNCHANGED faults ELSE Faulty
        /\ Goes([scan EXCEPT
                   !.phase = "checking",
                   !.undisturbed = @ /\ failing = {},
                   !.locked = @ \/ found \union failing # {},
                   !.rows = [f \in Files |->
                               IF f \in failing
                               THEN [View[f] EXCEPT !.refresh_pending = TRUE]
                               ELSE IF f \in found
                               THEN [View[f] EXCEPT !.resolved = TRUE,
                                                    !.refresh_pending = FALSE]
                               ELSE View[f]],
                   !.probes = ViewProbes])

\* The last look at the flag.
Check ==
  /\ At("checking") /\ ~stopping
  /\ Goes([scan EXCEPT !.phase = "committing"])
  /\ UNCHANGED faults

Commit ==
  /\ At("committing")
  /\ rows' = View
  /\ probes' = ViewProbes
  /\ scan' = NoScan
  /\ ScanReturns
  /\ UNCHANGED <<worldVars, opening, faults>>

\* The sink raises at the next report, or the flag is seen before the commit.
ScanStopped ==
  /\ stopping /\ worker = "scanning"
  /\ scan.phase \notin {"idle", "committing"}
  /\ RollsBack
  /\ UNCHANGED faults

\* Anything else that goes wrong, the commit included.
ScanFails ==
  /\ worker = "scanning" /\ scan.phase # "idle"
  /\ Faulty
  /\ RollsBack

ScanStep ==
  \/ Walk \/ RootUnreadable \/ Resolve \/ Refused \/ Write \/ Check \/ Commit
  \/ ScanStopped \/ ScanFails
  \/ \E fs \in SUBSET Files : Settle(fs) \/ Inspect(fs) \/ Refresh(fs)

----------------------------------------------------------------------------
(* A negotiation opens a file nobody inspected, and stores what it saw.     *)

Open(f) ==
  /\ stage = "up" /\ opening = None
  /\ Live(f) /\ probes[f] = 0 /\ Seen(f) # 0
  /\ opening' = [file |-> f, version |-> Seen(f)]
  /\ UNCHANGED <<vars, worldVars, dataVars, scan, faults>>

\* The signal of the source and the inspection, in one transaction.
Store ==
  /\ opening # None /\ ~scan.locked
  /\ LET f == opening.file IN
     /\ rows' = [rows EXCEPT ![f].source = opening.version]
     /\ probes' = [probes EXCEPT ![f] = opening.version]
     /\ scan' = [scan EXCEPT !.undisturbed = @ /\ (scan.phase # "idle" =>
                                                     opening.version = Seen(f))]
  /\ opening' = None
  /\ UNCHANGED <<vars, worldVars, faults>>

\* It could not be opened, or waits for the lock in vain.
StoreFails ==
  /\ opening # None
  /\ opening' = None
  /\ UNCHANGED <<vars, worldVars, dataVars, scan, faults>>

----------------------------------------------------------------------------
(* The world, and the rest of the scanner.                                 *)

Disturbs(l) ==
  /\ changes < MaxChanges
  /\ changes' = changes + 1
  /\ scan' = [scan EXCEPT !.undisturbed = @ /\ (scan.phase # "idle" => job.library # l)]
  /\ UNCHANGED <<vars, dataVars, opening, faults>>

\* A file is written, replaced or deleted.
FileChanges(f, version) ==
  /\ disk[f] # version
  /\ disk' = [disk EXCEPT ![f] = version]
  /\ Disturbs(LibraryOf[f])
  /\ UNCHANGED share

ShareChanges(l, shows) ==
  /\ share[l] # shows
  /\ share' = [share EXCEPT ![l] = shows]
  /\ Disturbs(l)
  /\ UNCHANGED disk

Undisturbing == UNCHANGED <<worldVars, dataVars, scan, faults>>

Dies ==
  /\ Restart
  /\ scan' = NoScan /\ opening' = None
  /\ UNCHANGED <<worldVars, dataVars, faults>>

ScanNext ==
  \/ (Arrivals \/ WorkerStep \/ NothingToScan \/ Stop \/ Stopped)
       /\ Undisturbing /\ UNCHANGED opening
  \/ ScanStep
  \/ \E f \in Files : Open(f)
  \/ Store \/ StoreFails
  \/ \E f \in Files, version \in Versions : FileChanges(f, version)
  \/ \E l \in Rooted, shows \in {"mounted", "empty", "away"} : ShareChanges(l, shows)
  \/ Dies

ScanSpec == ScanInit /\ [][ScanNext]_allVars

----------------------------------------------------------------------------
(* What has to hold.                                                       *)

Committed ==
  scan.phase = "committing" /\ scan'.phase = "idle" /\ faults' = faults /\ restarts' = restarts

Describes(f) ==
  IF Seen(f) = 0 THEN ~Live(f)
  ELSE /\ Live(f)
       /\ rows[f].resolved \/ f \in Unmatched
       /\ {rows[f].source, rows[f].runtime, probes[f]} = {Seen(f)}

\* A scan during which nothing moved, every file could be opened and the provider
\* answered leaves a library that says what is on the disk and what the provider knows,
\* whatever earlier scans that were stopped, refused, disturbed or half blind, and
\* whatever negotiations, have left behind.
AQuietScanDescribesTheDisk ==
  [][Committed /\ scan.undisturbed =>
       \A f \in FilesOf(job.library) : Describes(f)']_allVars

\* An item the provider could not be asked about is asked about again: it is resolved,
\* or marked, or the provider has said that it does not know it.
NobodyIsForgotten ==
  \A f \in Files : rows[f] # None =>
    rows[f].resolved \/ rows[f].refresh_pending \/ f \in Unmatched

\* A share that shows nothing does not cost the library its items: the last of them are
\* only ever removed by a scan that found another file.
AnEmptyShareRemovesNothing ==
  [][\A l \in Rooted :
       (\E f \in FilesOf(l) : Live(f)) /\ (\A f \in FilesOf(l) : ~Live(f)') =>
         \E f \in FilesOf(l) : scan.walked[f] # 0]_allVars

\* Once the stop has returned no scan writes: `Scanner.stop` waits for the thread.
AfterStopNothingIsWritten ==
  [][stage = "stopped" /\ opening = None => UNCHANGED dataVars]_allVars
=============================================================================
