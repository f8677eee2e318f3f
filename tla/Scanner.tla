------------------------------- MODULE Scanner -------------------------------
(***************************************************************************)
(* The in-process scan worker (src/atrium/library/scanner.py): requests    *)
(* are merged until the worker takes them, the worker has one library      *)
(* scanned after another in a thread, and the server's stop waits for it.  *)
(*                                                                         *)
(* `request` and the worker's own steps run on the event loop; what the    *)
(* thread does to the database is in LibraryScan, which extends this.      *)
(***************************************************************************)
EXTENDS Integers, FiniteSets

CONSTANTS
  Libraries,
  Rooted,         \* the libraries that have paths
  Configured,     \* the libraries there are at first
  MaxRequests, MaxUnlisted, MaxRestarts, \* bounds
  None

ASSUME LibrariesAssumption == Rooted \subseteq Libraries /\ Configured \subseteq Libraries

ASSUME BoundsAssumption == {MaxRequests, MaxUnlisted, MaxRestarts} \subseteq Nat

ASSUME NoneAssumption == None \notin Libraries /\ None \notin {"added", "refresh"}

VARIABLES
  known,      \* the library rows
  pending,    \* Scanner._pending
  everything, \* Scanner._everything
  worker,     \* the worker task
  asked,      \* `everything`, the worker's own
  batch,      \* what is left of the worker's pass
  job,        \* the call of `_scan_one` in the thread
  stopping,   \* Scanner._stopping
  settled,    \* Scanner._settled
  stage,      \* the server
  requests, unlisted, restarts

boundVars == <<requests, unlisted, restarts>>
vars == <<known, pending, everything, worker, asked, batch, job, stopping, settled,
          stage, boundVars>>

----------------------------------------------------------------------------
Triggers == {"added", "refresh"}

\* `_stronger`
Stronger(held, trigger) == IF "added" \in {held, trigger} THEN "added" ELSE "refresh"

Job == [library: Libraries, trigger: Triggers]

ASSUME NoJobAssumption == None \notin Job

Nobody == [l \in Libraries |-> None]

Asked(requested, ls, trigger) ==
  [l \in Libraries |-> IF l \in ls THEN Stronger(requested[l], trigger)
                       ELSE requested[l]]

Waiting == everything # None \/ \E l \in Libraries : pending[l] # None

TypeOK ==
  /\ known \subseteq Libraries
  /\ pending \in [Libraries -> Triggers \union {None}]
  /\ everything \in Triggers \union {None}
  /\ worker \in {"none", "ready", "resting", "listing", "passing", "scanning", "done"}
  /\ asked \in Triggers \union {None}
  /\ batch \in [Libraries -> Triggers \union {None}]
  /\ job \in Job \union {None}
  /\ stopping \in BOOLEAN
  /\ settled \in BOOLEAN
  /\ stage \in {"up", "stopping", "stopped"}
  /\ requests \in 0..MaxRequests
  /\ unlisted \in 0..MaxUnlisted
  /\ restarts \in 0..MaxRestarts

Init ==
  /\ known = Configured
  /\ pending = Nobody
  /\ everything = None
  /\ worker = "none"
  /\ asked = None
  /\ batch = Nobody
  /\ job = None
  /\ stopping = FALSE
  /\ settled = TRUE
  /\ stage = "up"
  /\ requests = 0
  /\ unlisted = 0
  /\ restarts = 0

----------------------------------------------------------------------------
(* What the routes call.                                                   *)

\* `_ensure_worker`: the worker is started, or woken where it waits.
EnsureWorker ==
  /\ settled' = FALSE
  /\ worker' = IF worker \in {"none", "resting", "done"} THEN "ready" ELSE worker

\* `request`, which the routes call while the server is up.
Request ==
  /\ stage = "up" /\ requests < MaxRequests
  /\ requests' = requests + 1
  /\ EnsureWorker
  /\ UNCHANGED <<asked, batch, job, stopping, stage, unlisted, restarts>>

\* `add_virtual_folder`: the row first, then the scan, if it is asked for.
AddLibrary(l, refreshLibrary) ==
  /\ stage = "up" /\ l \notin known
  /\ known' = known \union {l}
  /\ IF refreshLibrary
     THEN Request /\ pending' = Asked(pending, {l}, "added")
     ELSE UNCHANGED <<pending, worker, settled, requests, asked, batch, job, stopping,
                      stage, unlisted, restarts>>
  /\ UNCHANGED everything

\* `refresh_library`
RefreshLibrary ==
  /\ Request
  /\ everything' = Stronger(everything, "refresh")
  /\ UNCHANGED <<known, pending>>

----------------------------------------------------------------------------
(* The worker, from one await to the next.                                 *)

\* Mistake: only the libraries named are looked at.
RestNamed ==
  /\ worker = "ready" /\ ~stopping /\ pending = Nobody
  /\ settled' = TRUE
  /\ worker' = "resting"
  /\ UNCHANGED <<known, pending, everything, asked, batch, job, stopping, stage,
                 boundVars>>

Rest ==
  /\ worker = "ready" /\ ~stopping /\ ~Waiting
  /\ settled' = TRUE
  /\ worker' = "resting"
  /\ UNCHANGED <<known, pending, everything, asked, batch, job, stopping, stage,
                 boundVars>>

\* The requests are taken and emptied in one step.
TakeBatch ==
  /\ worker = "ready" /\ ~stopping /\ Waiting
  /\ batch' = pending
  /\ pending' = Nobody
  /\ asked' = everything
  /\ everything' = None
  /\ worker' = IF everything = None THEN "passing" ELSE "listing"
  /\ UNCHANGED <<known, job, stopping, settled, stage, boundVars>>

\* `_library_ids`
ListLibraries ==
  /\ worker = "listing"
  /\ batch' = Asked(batch, known, asked)
  /\ asked' = None
  /\ worker' = "passing"
  /\ UNCHANGED <<known, pending, everything, job, stopping, settled, stage, boundVars>>

\* The database cannot say: none, and the pass goes on.
ListingFails ==
  /\ worker = "listing" /\ unlisted < MaxUnlisted
  /\ unlisted' = unlisted + 1
  /\ asked' = None
  /\ worker' = "passing"
  /\ UNCHANGED <<known, pending, everything, batch, job, stopping, settled, stage,
                 requests, restarts>>

\* Mistake: every library of the pass is scanned for what was asked of them all.
NextScanForAll(l) ==
  /\ worker = "passing" /\ ~stopping
  /\ batch[l] # None
  /\ job' = [library |-> l, trigger |-> asked]
  /\ batch' = [batch EXCEPT ![l] = None]
  /\ worker' = "scanning"
  /\ UNCHANGED <<known, pending, everything, asked, stopping, settled, stage, boundVars>>

\* The next library of the pass goes to the thread.
NextScan(l) ==
  /\ worker = "passing" /\ ~stopping
  /\ batch[l] # None
  /\ job' = [library |-> l, trigger |-> batch[l]]
  /\ batch' = [batch EXCEPT ![l] = None]
  /\ worker' = "scanning"
  /\ UNCHANGED <<known, pending, everything, asked, stopping, settled, stage, boundVars>>

\* `_scan_one` returns: whatever became of the scan, nothing escapes it.
ScanReturns ==
  /\ worker = "scanning"
  /\ job' = None
  /\ worker' = "passing"
  /\ UNCHANGED <<known, pending, everything, asked, batch, stopping, settled, stage,
                 boundVars>>

\* Mistake: the requests are emptied when the pass is over.
PassEndsEmptying ==
  /\ worker = "passing" /\ batch = Nobody
  /\ worker' = "ready"
  /\ pending' = Nobody /\ everything' = None
  /\ UNCHANGED <<known, asked, batch, job, stopping, settled, stage, boundVars>>

PassEnds ==
  /\ worker = "passing" /\ batch = Nobody
  /\ worker' = "ready"
  /\ UNCHANGED <<known, pending, everything, asked, batch, job, stopping, settled, stage,
                 boundVars>>

\* The worker sees the stop, at the top of its loop or before the next library.
WorkerEnds ==
  /\ stopping
  /\ worker = "ready" \/ (worker = "passing" /\ batch # Nobody)
  /\ worker' = "done"
  /\ batch' = Nobody
  /\ UNCHANGED <<known, pending, everything, asked, job, stopping, settled, stage,
                 boundVars>>

----------------------------------------------------------------------------
(* The stop of the server, its end, and the next start.                    *)

\* Mistake: the flag is raised and the worker is not waited for.
StopImpatient ==
  /\ stage = "up" /\ worker # "none"
  /\ stage' = "stopped"
  /\ stopping' = TRUE
  /\ worker' = IF worker = "resting" THEN "ready" ELSE worker
  /\ UNCHANGED <<known, pending, everything, asked, batch, job, settled, boundVars>>

\* Mistake: a worker that waits for a request is not woken.
StopUnwoken ==
  /\ stage = "up"
  /\ stage' = IF worker = "none" THEN "stopped" ELSE "stopping"
  /\ stopping' = (worker # "none")
  /\ UNCHANGED <<known, pending, everything, worker, asked, batch, job, settled, boundVars>>

\* `stop`, up to its await.  There is nothing to await without a worker.
Stop ==
  /\ stage = "up"
  /\ stage' = IF worker = "none" THEN "stopped" ELSE "stopping"
  /\ stopping' = (worker # "none")
  /\ worker' = IF worker = "resting" THEN "ready" ELSE worker
  /\ UNCHANGED <<known, pending, everything, asked, batch, job, settled, boundVars>>

Stopped ==
  /\ stage = "stopping" /\ worker = "done"
  /\ worker' = "none"
  /\ stopping' = FALSE
  /\ pending' = Nobody
  /\ everything' = None
  /\ settled' = TRUE
  /\ stage' = "stopped"
  /\ UNCHANGED <<known, asked, batch, job, boundVars>>

\* The process ends, by itself after a stop or at any moment, and is started again.
\* Only rows survive it.
Restart ==
  /\ restarts < MaxRestarts
  /\ restarts' = restarts + 1
  /\ pending' = Nobody /\ everything' = None
  /\ worker' = "none" /\ asked' = None /\ batch' = Nobody /\ job' = None
  /\ stopping' = FALSE /\ settled' = TRUE
  /\ stage' = "up"
  /\ UNCHANGED <<known, requests, unlisted>>

----------------------------------------------------------------------------
\* What `_scan_one` does before it opens a scan: a library that is gone or has no
\* paths is no refusal.
NothingToScan == worker = "scanning" /\ job.library \notin Rooted /\ ScanReturns

Arrivals ==
  \/ \E l \in Libraries, refreshLibrary \in BOOLEAN : AddLibrary(l, refreshLibrary)
  \/ RefreshLibrary

WorkerStep ==
  \/ Rest \/ TakeBatch \/ ListLibraries \/ ListingFails \/ PassEnds \/ WorkerEnds
  \/ \E l \in Libraries : NextScan(l)

\* Here a scan may return whenever it likes; LibraryScan says what it does until then.
Next == Arrivals \/ WorkerStep \/ ScanReturns \/ Stop \/ Stopped \/ Restart

Spec == Init /\ [][Next]_vars

\* The event loop runs what is ready, and a scan ends.
FairSpec == Spec /\ WF_vars(WorkerStep) /\ WF_vars(ScanReturns) /\ WF_vars(Stopped)

----------------------------------------------------------------------------
\* What the scanner owes a library: what has been asked and not been begun.
Owes(l) ==
  {pending[l], batch[l]} \union (IF l \in known THEN {everything, asked} ELSE {})

Owed ==
  [l \in Libraries |-> IF "added" \in Owes(l) THEN "added"
                       ELSE IF "refresh" \in Owes(l) THEN "refresh" ELSE None]

Contract == INSTANCE OwedScans WITH
  owed <- Owed, now <- job, lost <- unlisted, open <- stage = "up", starts <- restarts

\* The scanner answers every request it has taken: merged, arrived during a pass, or
\* made while the libraries are listed.
AnswersEveryRequest == Contract!Spec

\* Who waits on `idle` is told so only when nothing is owed and nothing is scanned.
SettledOwesNothing ==
  settled => /\ job = None
             /\ \A l \in Libraries : Owed[l] = None

\* `stop` returns, however many libraries the pass still had to scan.
StopReturns == stage = "stopping" ~> stage # "stopping"
=============================================================================
