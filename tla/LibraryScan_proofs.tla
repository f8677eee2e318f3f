------------------------- MODULE LibraryScan_proofs -------------------------
(***************************************************************************)
(* Proofs about the scan of a library: it takes no step that the scanner   *)
(* does not, nothing is written after the stop, no item is lost from       *)
(* sight, an empty share removes nothing, and a scan left alone makes the  *)
(* rows describe the disk, for any libraries, files, faults and changes.   *)
(*                                                                         *)
(* DataInv says what a scan and a negotiation have in hand; Marked, that a *)
(* row is resolved or known to need a refresh, in the scan's own view as   *)
(* well as in the committed one; Quiet, what a scan that nothing disturbs  *)
(* has brought about at each of its points.                                *)
(***************************************************************************)
EXTENDS LibraryScan, Scanner_proofs

----------------------------------------------------------------------------
(* The scan is a scanner.                                                  *)

LEMMA StepIsAScannersStep == ASSUME [ScanNext]_allVars PROVE [Next]_vars
<1>1. CASE UNCHANGED allVars
  BY <1>1 DEF allVars
<1>2. CASE (Arrivals \/ WorkerStep \/ NothingToScan \/ Stop \/ Stopped)
             /\ Undisturbing /\ UNCHANGED opening
  BY <1>2 DEF Next, NothingToScan
<1>3. CASE ScanStep
  BY <1>3 DEF ScanStep, Next, Walk, RootUnreadable, Resolve, Refused, Write, Check, Commit,
              ScanStopped, ScanFails, Settle, Inspect, Refresh, Goes, RollsBack
<1>4. CASE \/ \E f \in Files : Open(f)
           \/ Store \/ StoreFails
           \/ \E f \in Files, version \in Versions : FileChanges(f, version)
           \/ \E l \in Rooted, shows \in {"mounted", "empty", "away"} :
                ShareChanges(l, shows)
  BY <1>4 DEF Open, Store, StoreFails, FileChanges, ShareChanges, Disturbs
<1>5. CASE Dies
  BY <1>5 DEF Dies, Next
<1>6. QED
  BY <1>1, <1>2, <1>3, <1>4, <1>5 DEF ScanNext

\* What `_scan_one` does in its thread is all between `NextScan` and `ScanReturns`: a
\* scanner that scans keeps every promise of the scanner.
THEOREM ScansAreScanners == ScanSpec => Spec
<1>1. ScanInit => Init
  BY DEF ScanInit
<1>2. [ScanNext]_allVars => [Next]_vars
  BY StepIsAScannersStep
<1>3. QED
  BY <1>1, <1>2, PTL DEF ScanSpec, Spec

----------------------------------------------------------------------------
(* The stop.                                                               *)

\* A server that has stopped has no worker: `stop` waits for the task.
StoppedHasNoWorker == stage = "stopped" => worker = "none"

LEMMA StopWaits == Spec => []StoppedHasNoWorker
<1>1. Init => StoppedHasNoWorker
  BY DEF Init, StoppedHasNoWorker
<1>2. StoppedHasNoWorker /\ [Next]_vars => StoppedHasNoWorker'
  BY DEF StoppedHasNoWorker, Next, Arrivals, AddLibrary, RefreshLibrary, Request,
         WorkerStep, Rest, TakeBatch, ListLibraries, ListingFails, PassEnds, WorkerEnds,
         NextScan, ScanReturns, Stop, Stopped, Restart, vars, boundVars
<1>3. QED
  BY <1>1, <1>2, PTL DEF Spec

\* Once the stop has returned, no scan writes: only a negotiation that was opening a file
\* may still store what it saw (`Scanner.stop`).
THEOREM NothingIsWrittenAfterStop == ScanSpec => AfterStopNothingIsWritten
<1>1. ASSUME StoppedHasNoWorker, [ScanNext]_allVars
      PROVE  [stage = "stopped" /\ opening = None => UNCHANGED dataVars]_allVars
  <2>1. SUFFICES ASSUME stage = "stopped", opening = None, ScanNext
                 PROVE  UNCHANGED dataVars
    BY <1>1
  <2>2. worker = "none"
    BY <1>1, <2>1 DEF StoppedHasNoWorker
  <2>3. ~ScanStep /\ ~Store
    BY <2>1, <2>2 DEF ScanStep, Walk, RootUnreadable, Resolve, Refused, Write, Check,
                      Commit, ScanStopped, ScanFails, Settle, Inspect, Refresh, At, Store
  <2>4. QED
    BY <2>1, <2>3 DEF ScanNext, Undisturbing, Open, StoreFails, FileChanges, ShareChanges,
                      Disturbs, Dies
<1>2. QED
  BY <1>1, ScansAreScanners, StopWaits, PTL DEF ScanSpec, AfterStopNothingIsWritten

----------------------------------------------------------------------------
(* Rows, and the record of a scan.                                         *)

\* The scans that have read what the library held.
Planned == {"inspecting", "writing", "refreshing", "checking", "committing"}

Started == scan.phase # "idle"

\* What a scan has in its hands, and the negotiation beside it.
InHand ==
  /\ ~Started => scan = NoScan
  /\ Started => worker = "scanning" /\ job.library \in Rooted
  /\ \A f \in Files : scan.walked[f] # 0 => LibraryOf[f] = job.library
  /\ scan.touched \subseteq Candidates
  /\ scan.phase \in {"settling", "resolving"} => scan.touched = {}
  /\ opening # None => rows[opening.file] # None

\* The transaction: no lock before the first write, no row is lost, and other libraries
\* are as they were.
Transaction ==
  /\ scan.locked => scan.phase \in {"writing", "refreshing", "checking", "committing"}
  /\ scan.phase = "writing" /\ scan.locked => scan.rows = rows
  /\ Started => \A f \in Files :
       /\ rows[f] # None => View[f] # None
       /\ LibraryOf[f] # job.library => View[f] = rows[f]

\* Two rows of which a negotiation may have written the source.
Alike(a, b) ==
  /\ a = None <=> b = None
  /\ a # None => /\ a.removed = b.removed /\ a.runtime = b.runtime
                 /\ a.resolved = b.resolved /\ a.refresh_pending = b.refresh_pending

\* What the scan believes the library holds: all but the source is still so, and where it
\* holds anything, the walk has found something (the second guard).
Known ==
  scan.phase \in Planned =>
    /\ \A f \in Files : Alike(scan.existing[f], rows[f])
    /\ Candidates = {} => Held(scan.existing) = {}

DataInv == ScanTypeOK /\ InHand /\ Transaction /\ Known

LEMMA SourceWritten ==
  ASSUME NEW row \in Row, NEW version \in Versions
  PROVE  LET new == [row EXCEPT !.source = version]
         IN /\ new \in Row /\ new.source = version
            /\ new.removed = row.removed /\ new.runtime = row.runtime
            /\ new.resolved = row.resolved /\ new.refresh_pending = row.refresh_pending
BY DEF Row

LEMMA RemovedWritten ==
  ASSUME NEW row \in Row, NEW removed \in BOOLEAN
  PROVE  LET new == [row EXCEPT !.removed = removed]
         IN /\ new \in Row /\ new.removed = removed
            /\ new.source = row.source /\ new.runtime = row.runtime
            /\ new.resolved = row.resolved /\ new.refresh_pending = row.refresh_pending
BY DEF Row

LEMMA MarkWritten ==
  ASSUME NEW row \in Row
  PROVE  LET new == [row EXCEPT !.refresh_pending = TRUE]
         IN /\ new \in Row /\ new.refresh_pending
            /\ new.removed = row.removed /\ new.source = row.source
            /\ new.runtime = row.runtime /\ new.resolved = row.resolved
BY DEF Row

LEMMA ResolvedWritten ==
  ASSUME NEW row \in Row
  PROVE  LET new == [row EXCEPT !.resolved = TRUE, !.refresh_pending = FALSE]
         IN /\ new \in Row /\ new.resolved
            /\ new.removed = row.removed /\ new.source = row.source
            /\ new.runtime = row.runtime
BY DEF Row

LEMMA AddedType ==
  ASSUME NEW version \in Versions, NEW runtime \in Versions
  PROVE  LET new == Added(version, runtime)
         IN /\ new \in Row /\ new # None /\ ~new.removed
            /\ new.source = version /\ new.runtime = runtime
<1>1. Added(version, runtime) \in Row
  BY DEF Added, Row
<1>2. QED
  BY <1>1, NoRowAssumption DEF Added

LEMMA VersionsHaveNone == 0 \in Versions /\ 1 \in Versions
BY NumbersAssumption DEF Versions

LEMMA ScanType ==
  ASSUME scan \in Scan
  PROVE  /\ DOMAIN scan = {"phase", "walked", "existing", "touched", "locked", "rows",
                           "probes", "undisturbed"}
         /\ scan.phase \in Phases /\ scan.walked \in [Files -> Versions]
         /\ scan.existing \in Table /\ scan.touched \subseteq Files
         /\ scan.locked \in BOOLEAN /\ scan.rows \in Table
         /\ scan.probes \in [Files -> Versions] /\ scan.undisturbed \in BOOLEAN
BY DEF Scan

LEMMA ScanWritten ==
  ASSUME NEW s \in Scan, NEW phase \in Phases, NEW walked \in [Files -> Versions],
         NEW existing \in Table, NEW touched \in SUBSET Files, NEW locked \in BOOLEAN,
         NEW table \in Table, NEW inspected \in [Files -> Versions],
         NEW undisturbed \in BOOLEAN
  PROVE  /\ [s EXCEPT !.phase = phase] \in Scan
         /\ [s EXCEPT !.phase = phase, !.walked = walked] \in Scan
         /\ [s EXCEPT !.phase = phase, !.existing = existing] \in Scan
         /\ [s EXCEPT !.phase = phase, !.locked = locked, !.rows = table,
                      !.probes = inspected, !.undisturbed = undisturbed] \in Scan
         /\ [s EXCEPT !.phase = phase, !.touched = touched, !.rows = table,
                      !.probes = inspected, !.locked = locked] \in Scan
         /\ [s EXCEPT !.phase = phase, !.undisturbed = undisturbed, !.locked = locked,
                      !.rows = table, !.probes = inspected] \in Scan
BY DEF Scan

LEMMA NoScanType == NoScan \in Scan
BY VersionsHaveNone DEF NoScan, Scan, Phases, Table, NoFiles, NoRows

LEMMA ViewType ==
  ASSUME scan \in Scan, rows \in Table, probes \in [Files -> Versions]
  PROVE  View \in Table /\ ViewProbes \in [Files -> Versions]
BY ScanType DEF View, ViewProbes

LEMMA SeenType ==
  ASSUME disk \in [Files -> Versions], NEW f \in Files
  PROVE  Seen(f) \in Versions
BY VersionsHaveNone DEF Seen

----------------------------------------------------------------------------
(* What the steps of a scan do to its record.                              *)

\* Nothing of the world, of the rows and of the scanner moves while a scan works.
Working ==
  /\ worker = "scanning"
  /\ UNCHANGED <<vars, worldVars, dataVars, opening>>

Follows(old, new) ==
  /\ scan.phase = old
  /\ scan'.phase = new
  /\ Working

LEMMA WalkDoes ==
  ASSUME DataInv, Walk
  PROVE  /\ Follows("idle", "settling") /\ job.library \in Rooted
         /\ scan'.walked = [f \in Files |-> IF LibraryOf[f] = job.library THEN Seen(f) ELSE 0]
         /\ scan'.existing = NoRows /\ scan'.touched = {} /\ ~scan'.locked
         /\ scan'.rows = NoRows /\ scan'.probes = NoFiles /\ scan'.undisturbed
BY DEF Walk, Goes, At, NoScan, Follows, Working

LEMMA SettleDoes ==
  ASSUME DataInv, NEW moved, Settle(moved)
  PROVE  /\ Follows("settling", "resolving")
         /\ moved \subseteq {f \in Files : scan.walked[f] # 0 /\ Seen(f) # scan.walked[f]}
         /\ scan'.walked = [f \in Files |-> IF scan.walked[f] = 0 \/ f \in moved THEN 0
                                            ELSE Seen(f)]
         /\ scan'.existing = scan.existing /\ scan'.touched = scan.touched
         /\ scan'.locked = scan.locked /\ scan'.rows = scan.rows
         /\ scan'.probes = scan.probes /\ scan'.undisturbed = scan.undisturbed
BY ScanType DEF DataInv, ScanTypeOK, Settle, Goes, At, Follows, Working

LEMMA ResolveDoes ==
  ASSUME DataInv, Resolve
  PROVE  /\ Follows("resolving", "inspecting") /\ ~Guarded(rows)
         /\ scan'.existing = rows
         /\ scan'.walked = scan.walked /\ scan'.touched = scan.touched
         /\ scan'.locked = scan.locked /\ scan'.rows = scan.rows
         /\ scan'.probes = scan.probes /\ scan'.undisturbed = scan.undisturbed
BY ScanType DEF DataInv, ScanTypeOK, Resolve, Goes, At, Follows, Working

LEMMA InspectDoes ==
  ASSUME DataInv, NEW broken, Inspect(broken)
  PROVE  LET due == {f \in Candidates : probes[f] # scan.walked[f]}
             opened == {f \in due \ broken : Seen(f) # 0}
         IN /\ Follows("inspecting", "writing")
            /\ broken \subseteq due
            /\ scan'.locked <=> opened # {}
            /\ scan'.rows = rows
            /\ scan'.probes = [f \in Files |-> IF f \in opened THEN Seen(f) ELSE probes[f]]
            /\ scan'.undisturbed <=> scan.undisturbed /\ broken = {}
            /\ scan'.walked = scan.walked /\ scan'.touched = scan.touched
            /\ scan'.existing = scan.existing
BY ScanType DEF DataInv, ScanTypeOK, Inspect, Goes, At, Follows, Working

LEMMA WriteDoes ==
  ASSUME DataInv, Write
  PROVE  /\ Follows("writing", "refreshing")
         /\ scan'.touched = {f \in Candidates : scan.existing[f] = None \/ Modified(f)}
         /\ scan'.rows = [f \in Files |-> Written(f)]
         /\ scan'.probes = ViewProbes
         /\ scan'.locked <=> scan.locked \/ scan'.rows # View
         /\ scan'.walked = scan.walked /\ scan'.existing = scan.existing
         /\ scan'.undisturbed = scan.undisturbed
BY ScanType DEF DataInv, ScanTypeOK, Write, Goes, At, Follows, Working

LEMMA RefreshDoes ==
  ASSUME DataInv, NEW failing, Refresh(failing)
  PROVE  LET asking == {f \in Considered : ~View[f].resolved}
             found == asking \ (failing \union Unmatched)
         IN /\ Follows("refreshing", "checking")
            /\ failing \subseteq asking
            /\ scan'.undisturbed <=> scan.undisturbed /\ failing = {}
            /\ scan'.locked <=> scan.locked \/ found \union failing # {}
            /\ scan'.rows = [f \in Files |->
                               IF f \in failing
                               THEN [View[f] EXCEPT !.refresh_pending = TRUE]
                               ELSE IF f \in found
                               THEN [View[f] EXCEPT !.resolved = TRUE,
                                                    !.refresh_pending = FALSE]
                               ELSE View[f]]
            /\ scan'.probes = ViewProbes
            /\ scan'.walked = scan.walked /\ scan'.existing = scan.existing
            /\ scan'.touched = scan.touched
BY ScanType DEF DataInv, ScanTypeOK, Refresh, Goes, At, Follows, Working

LEMMA CheckDoes ==
  ASSUME DataInv, Check
  PROVE  /\ Follows("checking", "committing")
         /\ scan'.walked = scan.walked /\ scan'.existing = scan.existing
         /\ scan'.touched = scan.touched /\ scan'.locked = scan.locked
         /\ scan'.rows = scan.rows /\ scan'.probes = scan.probes
         /\ scan'.undisturbed = scan.undisturbed
BY ScanType DEF DataInv, ScanTypeOK, Check, Goes, At, Follows, Working

\* Beside the scan: a negotiation or the world can only disturb it.
LEMMA BesideDoes ==
  ASSUME DataInv,
         Store \/ \E l \in Rooted : Disturbs(l)
  PROVE  /\ scan'.phase = scan.phase /\ scan' \in Scan
         /\ scan'.walked = scan.walked /\ scan'.existing = scan.existing
         /\ scan'.touched = scan.touched /\ scan'.locked = scan.locked
         /\ scan'.rows = scan.rows /\ scan'.probes = scan.probes
         /\ scan'.undisturbed => scan.undisturbed
         /\ ~Started => scan' = scan
         /\ UNCHANGED vars
<1>1. scan \in Scan
  BY DEF DataInv, ScanTypeOK
<1>2. PICK calm \in BOOLEAN :
        /\ scan' = [scan EXCEPT !.undisturbed = @ /\ (scan.phase # "idle" => calm)]
        /\ UNCHANGED vars
  <2>1. CASE Store
    BY <2>1, Zenon DEF Store
  <2>2. ASSUME NEW l \in Rooted, Disturbs(l)
        PROVE  \E calm \in BOOLEAN :
                 /\ scan' = [scan EXCEPT !.undisturbed = @ /\ (scan.phase # "idle" => calm)]
                 /\ UNCHANGED vars
    BY <2>2, Zenon DEF Disturbs
  <2>3. QED
    BY <2>1, <2>2
<1>3. QED
  BY <1>1, <1>2, ScanType DEF Scan, Started

\* The transaction is gone, by a rollback or with the process.
RolledBack ==
  /\ scan' = NoScan
  /\ UNCHANGED <<worldVars, dataVars>>
  /\ opening' \in {opening, None}
  /\ faults' \in 0..MaxFaults

\* The scanner goes on around a scan, and a negotiation opens its file.
LEMMA ScannerGoesAround ==
  ASSUME Inv, DataInv,
         \/ UNCHANGED allVars
         \/ (Arrivals \/ WorkerStep \/ NothingToScan \/ Stop \/ Stopped)
              /\ Undisturbing /\ UNCHANGED opening
         \/ StoreFails
         \/ \E f \in Files : Open(f)
  PROVE  /\ UNCHANGED <<worldVars, dataVars, scan, faults>>
         /\ Started => UNCHANGED <<worker, job>>
<1>1. CASE UNCHANGED allVars \/ StoreFails \/ \E f \in Files : Open(f)
  BY <1>1 DEF allVars, vars, StoreFails, Open
<1>2. CASE (Arrivals \/ WorkerStep \/ NothingToScan \/ Stop \/ Stopped)
              /\ Undisturbing /\ UNCHANGED opening
  <2>1. Started => worker = "scanning" /\ job.library \in Rooted
    BY DEF DataInv, InHand
  <2>2. QED
    BY <1>2, <2>1
    DEF Undisturbing, Arrivals, AddLibrary, RefreshLibrary, Request, EnsureWorker,
        WorkerStep, Rest, TakeBatch, ListLibraries, ListingFails, PassEnds, WorkerEnds,
        NextScan, NothingToScan, Stop, Stopped
<1>3. QED
  BY <1>1, <1>2

LEMMA FaultsAreCounted ==
  ASSUME DataInv, Faulty \/ UNCHANGED faults
  PROVE  faults' \in 0..MaxFaults
BY NumbersAssumption DEF DataInv, ScanTypeOK, Faulty

LEMMA BackIsBack ==
  ASSUME DataInv, RootUnreadable \/ Refused \/ ScanStopped \/ ScanFails \/ Dies
  PROVE  RolledBack
<1>1. faults' \in 0..MaxFaults
  BY FaultsAreCounted DEF RootUnreadable, Refused, ScanStopped, ScanFails, Dies
<1>2. QED
  BY <1>1 DEF RolledBack, RootUnreadable, Refused, ScanStopped, ScanFails, Dies, RollsBack

----------------------------------------------------------------------------
(* What is stored keeps its type.                                          *)

\* The steps before the first write.
LEMMA ReadingKeepsDataInv ==
  ASSUME Inv, Inv', DataInv,
         \/ Walk \/ Resolve \/ Check
         \/ \E fs \in SUBSET Files : Settle(fs) \/ Inspect(fs)
  PROVE  DataInv'
<1>1. scan \in Scan /\ rows \in Table /\ probes \in [Files -> Versions]
  BY DEF DataInv, ScanTypeOK
<1>2. \A f \in Files : Seen(f) \in Versions
  BY SeenType DEF DataInv, ScanTypeOK
<1>3. TypeOK'
  BY DEF Inv
<1>4. faults' \in 0..MaxFaults
  BY FaultsAreCounted DEF Walk, Resolve, Check, Settle, Inspect
<1>5. CASE Walk
  <2>1. scan'.walked \in [Files -> Versions]
    BY <1>2, <1>5, WalkDoes, VersionsHaveNone
  <2>2. scan' \in Scan
    BY <1>5, <2>1, NoScanType DEF Walk, Goes, Scan, Phases, NoScan
  <2>3. QED
    BY <1>3, <1>4, <1>5, <2>2, WalkDoes
    DEF DataInv, ScanTypeOK, InHand, Transaction, Known, Follows, Working, Started,
        Planned, View, worldVars, dataVars, vars, Candidates
<1>6. ASSUME NEW moved \in SUBSET Files, Settle(moved)
      PROVE  DataInv'
  <2>1. scan'.walked \in [Files -> Versions]
    <3>1. scan'.walked = [f \in Files |-> IF scan.walked[f] = 0 \/ f \in moved THEN 0
                                           ELSE Seen(f)]
      BY <1>6, SettleDoes
    <3>2. QED
      BY <1>2, <3>1, VersionsHaveNone
  <2>2. scan' \in Scan
    <3>1. scan' = [scan EXCEPT !.phase = "resolving", !.walked = scan'.walked]
      BY <1>6, SettleDoes, Zenon DEF Settle, Goes
    <3>2. "resolving" \in Phases
      BY DEF Phases
    <3>3. [scan EXCEPT !.phase = "resolving", !.walked = scan'.walked] \in Scan
      BY <1>1, <2>1, <3>2, ScanWritten
    <3>4. QED
      BY <3>1, <3>3
  <2>3. \A f \in Files : scan'.walked[f] # 0 => scan.walked[f] # 0
    BY <1>6, SettleDoes
  <2>4. scan.touched = {} /\ ~scan.locked
    BY <1>6 DEF Settle, At, DataInv, InHand, Transaction
  <2>5. QED
    BY <1>3, <1>4, <1>6, <2>2, <2>3, SettleDoes
    DEF DataInv, ScanTypeOK, InHand, Transaction, Known, Follows, Working, Started,
        Planned, View, worldVars, dataVars, vars, Candidates
<1>7. CASE Resolve
  <2>1. scan' \in Scan
    BY <1>1, <1>7, ScanWritten, Zenon DEF Resolve, Goes, Phases
  <2>2. Candidates = {} => Held(rows) = {}
    BY <1>7, ResolveDoes DEF Guarded
  <2>3. Candidates' = Candidates /\ Held(scan.existing)' = Held(rows)
    BY <1>7, ResolveDoes DEF Candidates, Held, FilesOf, Follows, Working, vars
  <2>4. QED
    BY <1>3, <1>4, <1>7, <2>1, <2>2, <2>3, ResolveDoes
    DEF DataInv, ScanTypeOK, InHand, Transaction, Known, Follows, Working, Started,
        Planned, View, worldVars, dataVars, vars, Alike
<1>8. ASSUME NEW broken \in SUBSET Files, Inspect(broken)
      PROVE  DataInv'
  <2> DEFINE due == {f \in Candidates : probes[f] # scan.walked[f]}
             opened == {f \in due \ broken : Seen(f) # 0}
  <2>1. /\ Follows("inspecting", "writing") /\ scan'.rows = rows
        /\ scan'.walked = scan.walked /\ scan'.touched = scan.touched
        /\ scan'.existing = scan.existing
    BY <1>8, InspectDoes
  <2>2. scan'.probes \in [Files -> Versions]
    <3>1. scan'.probes = [f \in Files |-> IF f \in opened THEN Seen(f) ELSE probes[f]]
      BY <1>8, InspectDoes
    <3>2. QED
      BY <1>1, <1>2, <3>1
  <2>3. scan' \in Scan
    <3> DEFINE locked == opened # {}
               undisturbed == scan.undisturbed /\ broken = {}
    <3>1. scan' = [scan EXCEPT !.phase = "writing", !.locked = locked, !.rows = rows,
                               !.probes = scan'.probes, !.undisturbed = undisturbed]
      <4>1. scan'.probes = [f \in Files |-> IF f \in opened THEN Seen(f) ELSE probes[f]]
        BY <1>8, InspectDoes
      <4>2. QED
        BY <1>8, <4>1, Zenon DEF Inspect, Goes
    <3>2. "writing" \in Phases /\ locked \in BOOLEAN /\ undisturbed \in BOOLEAN
      BY DEF Phases
    <3> HIDE DEF locked, undisturbed
    <3>3. QED
      BY <1>1, <2>2, <3>1, <3>2 DEF Scan
  <2>4. Held(scan.existing)' = Held(scan.existing)
    BY <2>1 DEF Held, FilesOf, Follows, Working, vars
  <2>5. QED
    BY <1>3, <1>4, <2>1, <2>3, <2>4
    DEF DataInv, ScanTypeOK, InHand, Transaction, Known, Follows, Working, Started,
        Planned, View, worldVars, dataVars, vars, Candidates, Alike
<1>9. CASE Check
  <2>1. scan' \in Scan
    <3>1. "committing" \in Phases
      BY DEF Phases
    <3>2. QED
      BY <1>1, <1>9, <3>1, ScanWritten DEF Check, Goes
  <2>2. Held(scan.existing)' = Held(scan.existing)
    BY <1>9, CheckDoes DEF Held, FilesOf, Follows, Working, vars
  <2>3. View' = View
    BY <1>9, CheckDoes DEF View, Follows, Working, dataVars
  <2>4. QED
    BY <1>3, <1>4, <1>9, <2>1, <2>2, <2>3, CheckDoes
    DEF DataInv, ScanTypeOK, InHand, Transaction, Known, Follows, Working, Started,
        Planned, worldVars, dataVars, vars, Candidates, Alike
<1>10. QED
  BY <1>5, <1>6, <1>7, <1>8, <1>9

\* What `Written` makes of a row.
LEMMA WhatIsWritten ==
  ASSUME DataInv, scan.phase = "writing", NEW f \in Files
  PROVE  /\ Written(f) \in Row \union {None}
         /\ View[f] # None => Written(f) # None
         /\ scan.walked[f] # 0 =>
              /\ Written(f) # None
              /\ scan.existing[f] = None =>
                   /\ ~Written(f).removed
                   /\ Written(f).source = scan.walked[f]
                   /\ Written(f).runtime = ViewProbes[f]
              /\ scan.existing[f] # None =>
                   /\ Written(f).removed <=> View[f].removed /\ ~scan.existing[f].removed
                   /\ Written(f).resolved = View[f].resolved
                   /\ Written(f).refresh_pending = View[f].refresh_pending
                   /\ Differs(f) => /\ Written(f).source = scan.walked[f]
                                    /\ Written(f).runtime = ViewProbes[f]
                   /\ ~Differs(f) => /\ Written(f).source = View[f].source
                                     /\ Written(f).runtime = View[f].runtime
         /\ scan.walked[f] = 0 /\ f \in Missing(scan.existing) =>
              /\ View[f] # None /\ Written(f) # None
              /\ Written(f).removed
              /\ Written(f).resolved = View[f].resolved
              /\ Written(f).refresh_pending = View[f].refresh_pending
         /\ scan.walked[f] = 0 /\ f \notin Missing(scan.existing) => Written(f) = View[f]
<1>1. /\ scan.walked[f] \in Versions /\ View[f] \in Row \union {None}
      /\ ViewProbes[f] \in Versions
  BY ViewType, ScanType DEF DataInv, ScanTypeOK, Table
<1>2. f \in Candidates <=> scan.walked[f] # 0
  BY DEF Candidates
<1>3. scan.existing[f] # None => View[f] \in Row
  <2>1. scan.existing[f] # None => rows[f] # None
    BY DEF DataInv, Known, Planned, Alike
  <2>2. rows[f] # None => View[f] # None
    BY DEF DataInv, Transaction, Started
  <2>3. QED
    BY <1>1, <2>1, <2>2
<1> DEFINE updated == IF Differs(f)
                      THEN [View[f] EXCEPT !.source = scan.walked[f],
                                           !.runtime = ViewProbes[f]]
                      ELSE View[f]
<1>4. CASE scan.walked[f] # 0 /\ scan.existing[f] = None
  <2>1. Written(f) = Added(scan.walked[f], ViewProbes[f])
    BY <1>2, <1>4 DEF Written
  <2>2. QED
    BY <1>1, <1>4, <2>1, AddedType
<1>5. CASE scan.walked[f] # 0 /\ scan.existing[f] # None
  <2>1. View[f] \in Row
    BY <1>3, <1>5
  <2>2. /\ updated \in Row /\ updated.removed = View[f].removed
        /\ updated.resolved = View[f].resolved
        /\ updated.refresh_pending = View[f].refresh_pending
        /\ Differs(f) => updated.source = scan.walked[f] /\ updated.runtime = ViewProbes[f]
        /\ ~Differs(f) => updated = View[f]
    <3>1. CASE Differs(f)
      <4>1. updated = [View[f] EXCEPT !.source = scan.walked[f], !.runtime = ViewProbes[f]]
        BY <3>1
      <4>2. LET new == [View[f] EXCEPT !.source = scan.walked[f], !.runtime = ViewProbes[f]]
            IN /\ new \in Row /\ new.source = scan.walked[f] /\ new.runtime = ViewProbes[f]
               /\ new.removed = View[f].removed /\ new.resolved = View[f].resolved
               /\ new.refresh_pending = View[f].refresh_pending
        BY <1>1, <2>1 DEF Row
      <4> HIDE DEF updated
      <4>3. QED
        BY <3>1, <4>1, <4>2
    <3>2. CASE ~Differs(f)
      BY <2>1, <3>2
    <3>3. QED
      BY <3>1, <3>2
  <2>3. Written(f)
          = [updated EXCEPT !.removed = updated.removed /\ ~scan.existing[f].removed]
    BY <1>2, <1>5, Zenon DEF Written
  <2>4. (updated.removed /\ ~scan.existing[f].removed) \in BOOLEAN
    OBVIOUS
  <2> HIDE DEF updated
  <2>5. LET new == [updated EXCEPT !.removed = updated.removed /\ ~scan.existing[f].removed]
        IN /\ new \in Row
           /\ new.removed <=> updated.removed /\ ~scan.existing[f].removed
           /\ new.source = updated.source /\ new.runtime = updated.runtime
           /\ new.resolved = updated.resolved
           /\ new.refresh_pending = updated.refresh_pending
    BY <2>2, <2>4, RemovedWritten
  <2>6. QED
    BY <1>5, <2>1, <2>2, <2>3, <2>5, NoRowAssumption
<1>6. CASE scan.walked[f] = 0 /\ f \in Missing(scan.existing)
  <2>1. View[f] \in Row
    BY <1>3, <1>6 DEF Missing, Held
  <2>2. f \notin Candidates
    BY <1>2, <1>6
  <2>3. Written(f) = [View[f] EXCEPT !.removed = TRUE]
    BY <1>6, <2>2, Zenon DEF Written
  <2>4. LET new == [View[f] EXCEPT !.removed = TRUE]
        IN /\ new \in Row /\ new.removed /\ new.resolved = View[f].resolved
           /\ new.refresh_pending = View[f].refresh_pending
    BY <2>1, RemovedWritten
  <2>5. QED
    BY <1>6, <2>1, <2>3, <2>4, NoRowAssumption
<1>7. CASE scan.walked[f] = 0 /\ f \notin Missing(scan.existing)
  <2>1. Written(f) = View[f]
    BY <1>2, <1>7 DEF Written
  <2>2. QED
    BY <1>1, <1>7, <2>1
<1>8. QED
  BY <1>4, <1>5, <1>6, <1>7

\* What the refresh makes of a row.
LEMMA WhatIsRefreshed ==
  ASSUME DataInv, NEW failing \in SUBSET Files, Refresh(failing), NEW f \in Files
  PROVE  /\ scan'.rows[f] \in Row \union {None}
         /\ scan'.rows[f] = None <=> View[f] = None
         /\ View[f] # None =>
              /\ scan'.rows[f].removed = View[f].removed
              /\ scan'.rows[f].source = View[f].source
              /\ scan'.rows[f].runtime = View[f].runtime
         /\ f \notin Considered => scan'.rows[f] = View[f]
         /\ f \in Considered =>
              \/ f \in failing /\ scan'.rows[f].refresh_pending
              \/ f \notin failing /\ scan'.rows[f].resolved
              \/ f \in Unmatched /\ scan'.rows[f] = View[f]
<1> DEFINE asking == {g \in Considered : ~View[g].resolved}
           found == asking \ (failing \union Unmatched)
<1>1. View[f] \in Row \union {None}
  BY ViewType DEF DataInv, ScanTypeOK, Table
<1>2. f \in Considered => View[f] \in Row
  BY <1>1 DEF Considered
<1>3. failing \subseteq asking
  BY RefreshDoes
<1>4. scan'.rows[f] = IF f \in failing THEN [View[f] EXCEPT !.refresh_pending = TRUE]
                      ELSE IF f \in found
                      THEN [View[f] EXCEPT !.resolved = TRUE, !.refresh_pending = FALSE]
                      ELSE View[f]
  <2>1. scan'.rows = [g \in Files |->
                        IF g \in failing THEN [View[g] EXCEPT !.refresh_pending = TRUE]
                        ELSE IF g \in found
                        THEN [View[g] EXCEPT !.resolved = TRUE, !.refresh_pending = FALSE]
                        ELSE View[g]]
    BY RefreshDoes
  <2>2. QED
    BY <2>1, Zenon
<1>5. CASE f \in failing
  <2>1. f \in Considered /\ View[f] \in Row
    BY <1>2, <1>3, <1>5
  <2>2. scan'.rows[f] = [View[f] EXCEPT !.refresh_pending = TRUE]
    BY <1>4, <1>5
  <2>3. LET new == [View[f] EXCEPT !.refresh_pending = TRUE]
        IN /\ new \in Row /\ new.refresh_pending
           /\ new.removed = View[f].removed /\ new.source = View[f].source
           /\ new.runtime = View[f].runtime
    BY <2>1, MarkWritten
  <2>4. QED
    BY <1>5, <2>1, <2>2, <2>3, NoRowAssumption
<1>6. CASE f \notin failing /\ f \in found
  <2>1. f \in Considered /\ View[f] \in Row
    BY <1>2, <1>6
  <2>2. scan'.rows[f] = [View[f] EXCEPT !.resolved = TRUE, !.refresh_pending = FALSE]
    BY <1>4, <1>6
  <2>3. LET new == [View[f] EXCEPT !.resolved = TRUE, !.refresh_pending = FALSE]
        IN /\ new \in Row /\ new.resolved
           /\ new.removed = View[f].removed /\ new.source = View[f].source
           /\ new.runtime = View[f].runtime
    BY <2>1, ResolvedWritten
  <2>4. QED
    BY <1>6, <2>1, <2>2, <2>3, NoRowAssumption
<1>7. CASE f \notin failing /\ f \notin found
  <2>1. scan'.rows[f] = View[f]
    BY <1>4, <1>7
  <2>2. f \in Considered => View[f].resolved \/ f \in Unmatched
    BY <1>7
  <2>3. QED
    BY <1>1, <1>7, <2>1, <2>2
<1>8. QED
  BY <1>5, <1>6, <1>7

\* Only files of the library that is scanned are walked, written and refreshed.
LEMMA OthersAreLeftAlone ==
  ASSUME DataInv, NEW f \in Files, LibraryOf[f] # job.library
  PROVE  /\ scan.walked[f] = 0
         /\ \A table : f \notin Missing(table)
         /\ f \notin Considered
<1>1. scan.walked[f] = 0 /\ f \notin scan.touched
  BY DEF DataInv, InHand, Candidates
<1>2. f \notin FilesOf(job.library)
  BY DEF FilesOf
<1>3. QED
  BY <1>1, <1>2 DEF Missing, Held, Considered

\* The steps that write, and the commit.
LEMMA WritingKeepsDataInv ==
  ASSUME Inv, Inv', DataInv,
         Write \/ Commit \/ \E fs \in SUBSET Files : Refresh(fs)
  PROVE  DataInv'
<1>1. scan \in Scan /\ rows \in Table /\ probes \in [Files -> Versions]
  BY DEF DataInv, ScanTypeOK
<1>2. View \in Table /\ ViewProbes \in [Files -> Versions]
  BY <1>1, ViewType
<1>3. TypeOK'
  BY DEF Inv
<1>4. faults' \in 0..MaxFaults
  BY FaultsAreCounted DEF Write, Commit, Refresh
<1>5. CASE Write
  <2>1. scan.phase = "writing"
    BY <1>5 DEF Write, At
  <2>2. scan'.rows \in Table /\ \A f \in Files : scan'.rows[f] = Written(f)
    BY <1>5, <2>1, WriteDoes, WhatIsWritten DEF Table
  <2>3. scan'.touched \subseteq Candidates
    BY <1>5, WriteDoes
  <2>4. scan' \in Scan
    <3> DEFINE locked == scan.locked \/ scan'.rows # View
    <3>1. scan' = [scan EXCEPT !.phase = "refreshing", !.touched = scan'.touched,
                               !.rows = scan'.rows, !.probes = scan'.probes,
                               !.locked = locked]
      BY <1>5, WriteDoes, Zenon DEF Write, Goes
    <3>2. /\ "refreshing" \in Phases /\ locked \in BOOLEAN /\ scan'.touched \in SUBSET Files
          /\ scan'.probes \in [Files -> Versions]
      BY <1>2, <1>5, <2>3, WriteDoes DEF Phases, Candidates
    <3> HIDE DEF locked
    <3>3. QED
      BY <1>1, <2>2, <3>1, <3>2 DEF Scan
  <2>5. Held(scan.existing)' = Held(scan.existing)
    BY <1>5, WriteDoes DEF Held, FilesOf, Follows, Working, vars
  <2>6. View' = scan'.rows
    BY <1>5, WriteDoes DEF View, Follows, Working, dataVars
  <2>7. \A f \in Files : /\ rows[f] # None => scan'.rows[f] # None
                         /\ LibraryOf[f] # job.library => scan'.rows[f] = rows[f]
    BY <2>1, <2>2, WhatIsWritten, OthersAreLeftAlone DEF DataInv, Transaction, Started
  <2>8. QED
    BY <1>3, <1>4, <1>5, <2>3, <2>4, <2>5, <2>6, <2>7, WriteDoes
    DEF DataInv, ScanTypeOK, InHand, Transaction, Known, Follows, Working, Started,
        Planned, worldVars, dataVars, vars, Candidates, Alike
<1>6. ASSUME NEW failing \in SUBSET Files, Refresh(failing)
      PROVE  DataInv'
  <2>1. scan'.rows \in Table
    BY <1>6, RefreshDoes, WhatIsRefreshed DEF Table
  <2>2. scan' \in Scan
    <3> DEFINE asking == {f \in Considered : ~View[f].resolved}
               found == asking \ (failing \union Unmatched)
               locked == scan.locked \/ found \union failing # {}
               undisturbed == scan.undisturbed /\ failing = {}
    <3>1. scan' = [scan EXCEPT !.phase = "checking", !.undisturbed = undisturbed,
                               !.locked = locked, !.rows = scan'.rows,
                               !.probes = scan'.probes]
      BY <1>6, RefreshDoes, Zenon DEF Refresh, Goes
    <3>2. /\ "checking" \in Phases /\ locked \in BOOLEAN /\ undisturbed \in BOOLEAN
          /\ scan'.probes \in [Files -> Versions]
      BY <1>2, <1>6, RefreshDoes DEF Phases
    <3> HIDE DEF locked, undisturbed
    <3>3. QED
      BY <1>1, <2>1, <3>1, <3>2 DEF Scan
  <2>3. /\ Follows("refreshing", "checking")
        /\ scan'.walked = scan.walked /\ scan'.existing = scan.existing
        /\ scan'.touched = scan.touched
    BY <1>6, RefreshDoes
  <2>4. Held(scan.existing)' = Held(scan.existing)
    BY <2>3 DEF Held, FilesOf, Follows, Working, vars
  <2>5. View' = scan'.rows
    <3> DEFINE asking == {f \in Considered : ~View[f].resolved}
               found == asking \ (failing \union Unmatched)
    <3>1. CASE scan'.locked
      BY <3>1 DEF View
    <3>2. CASE ~scan'.locked
      <4>1. View' = rows /\ View = rows /\ found \union failing = {}
        BY <1>6, <3>2, RefreshDoes DEF View, Follows, Working, dataVars
      <4>2. scan'.rows
              = [f \in Files |-> IF f \in failing
                                 THEN [View[f] EXCEPT !.refresh_pending = TRUE]
                                 ELSE IF f \in found
                                 THEN [View[f] EXCEPT !.resolved = TRUE,
                                                      !.refresh_pending = FALSE]
                                 ELSE View[f]]
        BY <1>6, RefreshDoes
      <4>3. scan'.rows = [f \in Files |-> View[f]]
        BY <4>1, <4>2
      <4>4. QED
        BY <1>2, <4>1, <4>3 DEF Table
    <3>3. QED
      BY <3>1, <3>2
  <2>6. \A f \in Files : /\ rows[f] # None => scan'.rows[f] # None
                         /\ LibraryOf[f] # job.library => scan'.rows[f] = rows[f]
    BY <1>6, <2>3, WhatIsRefreshed, OthersAreLeftAlone
    DEF DataInv, Transaction, Started, Follows
  <2>7. QED
    BY <1>3, <1>4, <2>2, <2>3, <2>4, <2>5, <2>6
    DEF DataInv, ScanTypeOK, InHand, Transaction, Known, Follows, Working, Started,
        Planned, worldVars, dataVars, vars, Candidates, Alike
<1>7. CASE Commit
  <2>1. /\ scan' = NoScan /\ rows' = View /\ probes' = ViewProbes
        /\ UNCHANGED <<worldVars, opening>>
    BY <1>7 DEF Commit
  <2>2. opening # None => View[opening.file] # None
    BY <1>7 DEF Commit, At, DataInv, ScanTypeOK, InHand, Transaction, Started
  <2>3. QED
    BY <1>2, <1>3, <1>4, <2>1, <2>2, NoScanType
    DEF DataInv, ScanTypeOK, InHand, Transaction, Known, Started, Planned, worldVars,
        NoScan, NoFiles, NoRows
<1>8. QED
  BY <1>5, <1>6, <1>7

\* `_store`: only the source of a row that is there.
LEMMA StoreWrites ==
  ASSUME DataInv, Store
  PROVE  /\ rows' \in Table /\ probes' \in [Files -> Versions]
         /\ \A f \in Files : Alike(rows'[f], rows[f])
         /\ \A f \in Files : f # opening.file => rows'[f] = rows[f] /\ probes'[f] = probes[f]
         /\ rows'[opening.file].source = opening.version
         /\ probes'[opening.file] = opening.version
         /\ opening' = None /\ ~scan.locked
         /\ UNCHANGED <<worldVars, faults>>
<1>1. /\ opening.file \in Files /\ opening.version \in Versions
      /\ rows \in [Files -> Row \union {None}] /\ rows[opening.file] # None
      /\ probes \in [Files -> Versions]
  BY DEF Store, DataInv, ScanTypeOK, InHand, Table
<1>2. rows[opening.file] \in Row
  BY <1>1
<1> DEFINE new == [rows[opening.file] EXCEPT !.source = opening.version]
<1>3. /\ new \in Row /\ new.source = opening.version
      /\ new.removed = rows[opening.file].removed /\ new.runtime = rows[opening.file].runtime
      /\ new.resolved = rows[opening.file].resolved
      /\ new.refresh_pending = rows[opening.file].refresh_pending
  BY <1>1, <1>2, SourceWritten
<1>4. rows' = [rows EXCEPT ![opening.file] = new]
  BY Zenon DEF Store
<1>5. probes' = [probes EXCEPT ![opening.file] = opening.version]
  BY Zenon DEF Store
<1> HIDE DEF new
<1>6. QED
  BY <1>1, <1>2, <1>3, <1>4, <1>5, NoRowAssumption DEF Store, Table, Alike

LEMMA BesideKeepsDataInv ==
  ASSUME Inv', DataInv,
         \/ Store
         \/ \E f \in Files, version \in Versions : FileChanges(f, version)
         \/ \E l \in Rooted, shows \in {"mounted", "empty", "away"} : ShareChanges(l, shows)
  PROVE  DataInv'
<1>1. TypeOK'
  BY DEF Inv
<1>2. CASE Store
  <2>1. \A f \in Files : Alike(scan.existing[f], rows[f]) => Alike(scan.existing[f], rows'[f])
    BY <1>2, StoreWrites DEF Alike
  <2>2. UNCHANGED vars
    BY <1>2, BesideDoes
  <2>3. Held(scan.existing)' = Held(scan.existing) /\ Candidates' = Candidates
    BY <1>2, <2>2, BesideDoes DEF Held, FilesOf, vars, Candidates
  <2>4. ~scan.locked /\ View' = rows' /\ View = rows
    BY <1>2, StoreWrites, BesideDoes DEF View
  <2>5. Started /\ LibraryOf[opening.file] # job.library
          => View'[opening.file] = rows'[opening.file]
    BY <2>4
  <2>6. QED
    BY <1>1, <1>2, <2>1, <2>2, <2>3, <2>4, StoreWrites, BesideDoes
    DEF DataInv, ScanTypeOK, InHand, Transaction, Known, Started, Planned, worldVars,
        vars
<1>3. ASSUME NEW l \in Rooted, Disturbs(l),
             disk' \in [Files -> Versions],
             share' \in [Rooted -> {"mounted", "empty", "away"}]
      PROVE  DataInv'
  <2>1. UNCHANGED <<vars, dataVars, opening, faults>> /\ changes' \in 0..MaxChanges
    BY <1>3, NumbersAssumption DEF Disturbs, DataInv, ScanTypeOK
  <2>2. Held(scan.existing)' = Held(scan.existing) /\ Candidates' = Candidates
        /\ View' = View
    BY <1>3, <2>1, BesideDoes DEF Held, FilesOf, vars, Candidates, View, dataVars
  <2>3. QED
    BY <1>1, <1>3, <2>1, <2>2, BesideDoes
    DEF DataInv, ScanTypeOK, InHand, Transaction, Known, Started, Planned, dataVars, vars
<1>4. ASSUME NEW f \in Files, NEW version \in Versions, FileChanges(f, version)
      PROVE  DataInv'
  <2>1. disk' \in [Files -> Versions] /\ share' \in [Rooted -> {"mounted", "empty", "away"}]
    BY <1>4 DEF FileChanges, DataInv, ScanTypeOK
  <2>2. LibraryOf[f] \in Rooted /\ Disturbs(LibraryOf[f])
    BY <1>4, FilesAssumption DEF FileChanges
  <2>3. QED
    BY <1>3, <2>1, <2>2
<1>5. ASSUME NEW l \in Rooted, NEW shows \in {"mounted", "empty", "away"},
             ShareChanges(l, shows)
      PROVE  DataInv'
  <2>1. disk' \in [Files -> Versions] /\ share' \in [Rooted -> {"mounted", "empty", "away"}]
    BY <1>5 DEF ShareChanges, DataInv, ScanTypeOK
  <2>2. QED
    BY <1>3, <1>5, <2>1 DEF ShareChanges
<1>6. QED
  BY <1>2, <1>4, <1>5

LEMMA BackKeepsDataInv ==
  ASSUME Inv', DataInv, RolledBack
  PROVE  DataInv'
BY NoScanType
DEF Inv, DataInv, ScanTypeOK, InHand, Transaction, Known, Started, Planned, RolledBack,
    worldVars, dataVars, NoScan, NoFiles, NoRows

LEMMA AroundKeepsDataInv ==
  ASSUME Inv, Inv', DataInv,
         \/ UNCHANGED allVars
         \/ (Arrivals \/ WorkerStep \/ NothingToScan \/ Stop \/ Stopped)
              /\ Undisturbing /\ UNCHANGED opening
         \/ StoreFails
         \/ \E f \in Files : Open(f)
  PROVE  DataInv'
<1>1. UNCHANGED <<worldVars, dataVars, scan, faults>> /\ (Started => UNCHANGED <<worker, job>>)
  BY ScannerGoesAround
<1>2. /\ opening' \in [file: Files, version: Versions] \union {None}
      /\ opening' # None => rows[opening'.file] # None
  <2>1. CASE UNCHANGED opening
    BY <2>1 DEF DataInv, ScanTypeOK, InHand
  <2>2. CASE StoreFails
    BY <2>2 DEF StoreFails
  <2>3. ASSUME NEW f \in Files, Open(f)
        PROVE  /\ opening' \in [file: Files, version: Versions] \union {None}
               /\ opening' # None => rows[opening'.file] # None
    <3>1. Seen(f) \in Versions
      BY SeenType DEF DataInv, ScanTypeOK
    <3>2. QED
      BY <2>3, <3>1 DEF Open, Live
  <2>4. QED
    BY <2>1, <2>2, <2>3 DEF allVars
<1>3. Started => Held(scan.existing)' = Held(scan.existing)
  BY <1>1 DEF Held, FilesOf
<1>4. View' = View /\ Candidates' = Candidates
  BY <1>1 DEF View, Candidates, dataVars
<1>5. ~Started => scan = NoScan
  BY DEF DataInv, InHand
<1>6. QED
  BY <1>1, <1>2, <1>3, <1>4, <1>5
  DEF Inv, DataInv, ScanTypeOK, InHand, Transaction, Known, Started, Planned, worldVars,
      dataVars, NoScan, NoFiles

LEMMA StepKeepsDataInv ==
  ASSUME Inv, Inv', DataInv, [ScanNext]_allVars
  PROVE  DataInv'
BY AroundKeepsDataInv, ReadingKeepsDataInv, WritingKeepsDataInv, BesideKeepsDataInv,
   BackKeepsDataInv, BackIsBack
DEF ScanNext, ScanStep

LEMMA DataInvHolds == ScanSpec => [](Inv /\ DataInv)
<1>1. Inv /\ ScanInit => DataInv
  BY NoScanType, VersionsHaveNone, NumbersAssumption
  DEF ScanInit, Inv, DataInv, ScanTypeOK, InHand, Transaction, Known, Started, Planned,
      Table, NoRows, NoFiles, NoScan, Candidates
<1>2. Inv /\ Inv' /\ DataInv /\ [ScanNext]_allVars => DataInv'
  BY StepKeepsDataInv
<1>3. QED
  BY <1>1, <1>2, ScansAreScanners, InvHolds, PTL DEF ScanSpec

\* The variables of a scan and of the tables it writes keep their types, whatever the
\* disk does and wherever a scan is stopped.
THEOREM ScanTypesHold == ScanSpec => []ScanTypeOK
<1>1. DataInv => ScanTypeOK
  BY DEF DataInv
<1>2. QED
  BY <1>1, DataInvHolds, PTL

----------------------------------------------------------------------------
(* Nobody is forgotten.                                                    *)

Remembered(f, row) == row.resolved \/ row.refresh_pending \/ f \in Unmatched

\* An item just added is neither resolved nor marked: until the refresh has been at it,
\* it is among those the scan has touched, and the refresh does not pass it over.
Marked ==
  /\ NobodyIsForgotten
  /\ scan.phase = "refreshing" =>
       \A f \in Files : View[f] # None =>
         Remembered(f, View[f]) \/ (f \in scan.touched /\ ~View[f].removed)
  /\ scan.phase \in {"checking", "committing"} =>
       \A f \in Files : View[f] # None => Remembered(f, View[f])

LEMMA WriteKeepsMarked ==
  ASSUME DataInv, Marked, Write
  PROVE  Marked'
<1>1. scan.phase = "writing" /\ scan'.phase = "refreshing" /\ rows' = rows
  BY WriteDoes DEF Follows, Working, dataVars
<1>2. View' = scan'.rows /\ \A f \in Files : scan'.rows[f] = Written(f)
  BY WriteDoes DEF View, Follows, Working, dataVars
<1>3. View = rows
  BY <1>1 DEF View, DataInv, Transaction
<1>4. ASSUME NEW f \in Files, Written(f) # None
      PROVE  Remembered(f, Written(f)) \/ (f \in scan'.touched /\ ~Written(f).removed)
  <2>1. CASE scan.walked[f] # 0 /\ scan.existing[f] = None
    <3>1. f \in scan'.touched
      BY <2>1, WriteDoes DEF Candidates
    <3>2. QED
      BY <1>1, <2>1, <3>1, WhatIsWritten
  <2>2. CASE ~(scan.walked[f] # 0 /\ scan.existing[f] = None)
    <3>1. /\ View[f] # None
          /\ Written(f).resolved = View[f].resolved
          /\ Written(f).refresh_pending = View[f].refresh_pending
      <4>1. CASE scan.walked[f] # 0
        <5>1. scan.existing[f] # None
          BY <2>2, <4>1
        <5>2. View[f] # None
          BY <1>1, <1>3, <5>1 DEF DataInv, Known, Planned, Alike
        <5>3. QED
          BY <1>1, <4>1, <5>1, <5>2, WhatIsWritten
      <4>2. CASE scan.walked[f] = 0
        BY <1>1, <1>4, <4>2, WhatIsWritten
      <4>3. QED
        BY <4>1, <4>2
    <3>2. Remembered(f, View[f])
      BY <1>3, <3>1 DEF Marked, NobodyIsForgotten, Remembered
    <3>3. QED
      BY <3>1, <3>2 DEF Remembered
  <2>3. QED
    BY <2>1, <2>2
<1>5. QED
  BY <1>1, <1>2, <1>4 DEF Marked, NobodyIsForgotten

LEMMA RefreshKeepsMarked ==
  ASSUME DataInv, Marked, NEW failing \in SUBSET Files, Refresh(failing)
  PROVE  Marked'
<1>1. scan.phase = "refreshing" /\ scan'.phase = "checking" /\ rows' = rows
  BY RefreshDoes DEF Follows, Working, dataVars
<1>2. ASSUME NEW f \in Files, scan'.rows[f] # None
      PROVE  Remembered(f, scan'.rows[f])
  <2>1. View[f] # None
    BY <1>2, WhatIsRefreshed
  <2>2. CASE f \in Considered
    BY <2>2, WhatIsRefreshed DEF Remembered
  <2>3. CASE f \notin Considered
    <3>1. scan'.rows[f] = View[f]
      BY <2>3, WhatIsRefreshed
    <3>2. ~(f \in scan.touched /\ ~View[f].removed)
      BY <2>1, <2>3 DEF Considered
    <3>3. QED
      BY <1>1, <2>1, <3>1, <3>2 DEF Marked
  <2>4. QED
    BY <2>2, <2>3
<1>3. \A f \in Files : View'[f] \in {scan'.rows[f], rows[f]}
  BY <1>1 DEF View
<1>4. QED
  BY <1>1, <1>2, <1>3 DEF Marked, NobodyIsForgotten, Remembered

LEMMA StepKeepsMarked ==
  ASSUME Inv, DataInv, Marked, [ScanNext]_allVars
  PROVE  Marked'
<1>1. CASE Write
  BY <1>1, WriteKeepsMarked
<1>2. ASSUME NEW failing \in SUBSET Files, Refresh(failing)
      PROVE  Marked'
  BY <1>2, RefreshKeepsMarked
<1>3. CASE Walk
  BY <1>3, WalkDoes DEF Follows, Working, dataVars, Marked, NobodyIsForgotten
<1>4. ASSUME NEW fs \in SUBSET Files, Settle(fs)
      PROVE  Marked'
  BY <1>4, SettleDoes DEF Follows, Working, dataVars, Marked, NobodyIsForgotten
<1>5. CASE Resolve
  BY <1>5, ResolveDoes DEF Follows, Working, dataVars, Marked, NobodyIsForgotten
<1>6. ASSUME NEW fs \in SUBSET Files, Inspect(fs)
      PROVE  Marked'
  BY <1>6, InspectDoes DEF Follows, Working, dataVars, Marked, NobodyIsForgotten
<1>7. CASE Check
  BY <1>7, CheckDoes DEF Follows, Working, dataVars, Marked, NobodyIsForgotten, View
<1>8. CASE Commit
  <2>1. scan' = NoScan /\ rows' = View /\ scan.phase = "committing"
    BY <1>8 DEF Commit, At
  <2>2. QED
    BY <2>1 DEF Marked, NobodyIsForgotten, NoScan, Remembered
<1>9. CASE RolledBack
  BY <1>9 DEF RolledBack, dataVars, NoScan, Marked, NobodyIsForgotten
<1>10. CASE Store
  <2>1. \A f \in Files : Alike(rows'[f], rows[f]) /\ (scan.locked \/ View = rows)
    BY <1>10, StoreWrites DEF View
  <2>2. ~scan.locked
    BY <1>10, StoreWrites
  <2>3. View' = rows' /\ View = rows /\ scan'.phase = scan.phase
        /\ scan'.touched = scan.touched
    BY <1>10, <2>2, BesideDoes DEF View
  <2>4. QED
    BY <2>1, <2>3 DEF Marked, NobodyIsForgotten, Remembered, Alike
<1>11. ASSUME NEW l \in Rooted, Disturbs(l)
       PROVE  Marked'
  <2>1. rows' = rows /\ View' = View /\ scan'.phase = scan.phase
        /\ scan'.touched = scan.touched
    BY <1>11, BesideDoes DEF Disturbs, dataVars, View
  <2>2. QED
    BY <2>1 DEF Marked, NobodyIsForgotten
<1>12. CASE UNCHANGED <<dataVars, scan>>
  BY <1>12 DEF Marked, NobodyIsForgotten, dataVars, View
<1>13. QED
  BY <1>1, <1>2, <1>3, <1>4, <1>5, <1>6, <1>7, <1>8, <1>9, <1>10, <1>11, <1>12,
     BackIsBack, ScannerGoesAround, FilesAssumption
  DEF ScanNext, ScanStep, FileChanges, ShareChanges, allVars

\* An item the provider could not be asked about is never lost from sight: through every
\* interleaving of scans that fail, stop or die half way with negotiations that store what
\* they saw, a row of the library is resolved, or marked for the next scan, or of an item
\* the provider does not know (`_apply_one`, `pending_and_touched`).
THEOREM EveryItemIsRemembered == ScanSpec => []NobodyIsForgotten
<1>1. ScanInit => Marked
  BY DEF ScanInit, Marked, NobodyIsForgotten, NoRows, NoScan
<1>2. Inv /\ DataInv /\ Marked /\ [ScanNext]_allVars => Marked'
  BY StepKeepsMarked
<1>3. Marked => NobodyIsForgotten
  BY DEF Marked
<1>4. QED
  BY <1>1, <1>2, <1>3, DataInvHolds, PTL DEF ScanSpec

----------------------------------------------------------------------------
(* An empty share.                                                         *)

\* What was not live before a scan's commit and what the scan has found.
LEMMA CommitLeavesSome ==
  ASSUME DataInv, Commit, NEW l \in Rooted,
         \E f \in FilesOf(l) : Live(f),
         \A f \in FilesOf(l) : ~(rows'[f] # None /\ ~rows'[f].removed)
  PROVE  \E f \in FilesOf(l) : scan.walked[f] # 0
<1>1. rows' = View /\ scan.phase = "committing"
  BY DEF Commit, At
<1>2. PICK f \in FilesOf(l) : Live(f)
  OBVIOUS
<1>3. f \in Files /\ LibraryOf[f] = l
  BY DEF FilesOf
<1>4. CASE l # job.library
  <2>1. View[f] = rows[f]
    BY <1>1, <1>3, <1>4 DEF DataInv, Transaction, Started
  <2>2. QED
    BY <1>1, <1>2, <2>1 DEF Live
<1>5. CASE l = job.library
  <2>1. scan.existing[f] # None
    BY <1>1, <1>2, <1>3 DEF Live, DataInv, Known, Planned, Alike
  <2>2. f \in Held(scan.existing)
    BY <1>2, <1>5, <2>1 DEF Held
  <2>3. PICK g \in Files : scan.walked[g] # 0
    BY <1>1, <2>2 DEF DataInv, Known, Planned, Candidates
  <2>4. g \in FilesOf(l)
    BY <1>5, <2>3 DEF DataInv, InHand, FilesOf
  <2>5. QED
    BY <2>3, <2>4
<1>6. QED
  BY <1>4, <1>5

\* Who writes rows: the commit of a scan, and a negotiation that stores a source.
LEMMA WhoWrites ==
  ASSUME DataInv, [ScanNext]_allVars
  PROVE  Commit \/ Store \/ UNCHANGED dataVars
BY BackIsBack
DEF ScanNext, ScanStep, allVars, Undisturbing, Walk, Resolve, Write, Check, Settle, Inspect,
    Refresh, Goes, RolledBack, Open, StoreFails, FileChanges, ShareChanges, Disturbs

\* A share that is mounted and shows nothing costs the library nothing: only a scan that
\* has found another file of the library commits the removal of the last of its items,
\* for any libraries, files and threshold (`_require_not_suddenly_empty`).
THEOREM AnEmptyShareCostsNothing == ScanSpec => AnEmptyShareRemovesNothing
<1>1. ASSUME DataInv, [ScanNext]_allVars, NEW l \in Rooted,
             \E f \in FilesOf(l) : Live(f), \A f \in FilesOf(l) : ~Live(f)'
      PROVE  \E f \in FilesOf(l) : scan.walked[f] # 0
  <2>1. \A f \in FilesOf(l) : ~(rows'[f] # None /\ ~rows'[f].removed)
    BY <1>1 DEF Live
  <2>2. CASE Commit
    BY <1>1, <2>1, <2>2, CommitLeavesSome
  <2>3. CASE Store
    BY <1>1, <2>1, <2>3, StoreWrites DEF Alike, Live, FilesOf
  <2>4. CASE UNCHANGED dataVars
    BY <1>1, <2>1, <2>4 DEF dataVars, Live
  <2>5. QED
    BY <1>1, <2>2, <2>3, <2>4, WhoWrites
<1>2. DataInv /\ [ScanNext]_allVars =>
        [\A l \in Rooted :
           (\E f \in FilesOf(l) : Live(f)) /\ (\A f \in FilesOf(l) : ~Live(f)') =>
             \E f \in FilesOf(l) : scan.walked[f] # 0]_allVars
  BY <1>1
<1>3. QED
  BY <1>2, DataInvHolds, PTL DEF ScanSpec, AnEmptyShareRemovesNothing

----------------------------------------------------------------------------
(* A quiet scan.                                                           *)

\* While nothing disturbs the scan, the walk is what the disk shows; a source has only
\* moved to it; what was opened is what was walked; and once written, the rows say so.
QuietOf(f) ==
  /\ scan.walked[f] = Seen(f)
  /\ scan.phase \in Planned /\ rows[f] # None =>
       rows[f].source \in {scan.existing[f].source, Seen(f)}
  /\ scan.phase \in Planned \ {"inspecting"} /\ Seen(f) # 0 => ViewProbes[f] = Seen(f)
  /\ scan.phase \in {"refreshing", "checking", "committing"} =>
       IF Seen(f) = 0 THEN View[f] = None \/ View[f].removed
       ELSE /\ View[f] # None /\ ~View[f].removed
            /\ View[f].source = Seen(f) /\ View[f].runtime = Seen(f)
  /\ scan.phase \in {"checking", "committing"} /\ Seen(f) # 0 =>
       View[f].resolved \/ f \in Unmatched

Quiet == Started /\ scan.undisturbed => \A f \in FilesOf(job.library) : QuietOf(f)

\* While the scan works, the world and its library stay what they are.
LEMMA WorkingSees ==
  ASSUME Working
  PROVE  /\ \A f \in Files : Seen(f)' = Seen(f)
         /\ FilesOf(job.library)' = FilesOf(job.library)
         /\ rows' = rows /\ probes' = probes
BY DEF Working, worldVars, dataVars, vars, Seen, FilesOf

LEMMA ReadingKeepsQuiet ==
  ASSUME DataInv, Quiet,
         Walk \/ Resolve \/ Check \/ \E moved \in SUBSET Files : Settle(moved)
  PROVE  Quiet'
<1>1. CASE Walk
  BY <1>1, WalkDoes, WorkingSees DEF Follows, Quiet, QuietOf, FilesOf, Planned
<1>2. ASSUME NEW moved \in SUBSET Files, Settle(moved)
      PROVE  Quiet'
  <2>1. /\ scan.phase = "settling" /\ scan'.phase = "resolving" /\ Working
        /\ scan'.undisturbed = scan.undisturbed
    BY <1>2, SettleDoes DEF Follows
  <2>2. scan'.walked = [f \in Files |-> IF scan.walked[f] = 0 \/ f \in moved THEN 0
                                        ELSE Seen(f)]
    BY <1>2, SettleDoes
  <2>3. moved \subseteq {f \in Files : scan.walked[f] # 0 /\ Seen(f) # scan.walked[f]}
    BY <1>2, SettleDoes
  <2>4. SUFFICES ASSUME scan.undisturbed, NEW f \in FilesOf(job.library)
                 PROVE  scan'.walked[f] = Seen(f)
    BY <2>1, WorkingSees DEF Quiet, QuietOf, Planned, FilesOf
  <2>5. scan.walked[f] = Seen(f)
    BY <2>1, <2>4 DEF Quiet, QuietOf, Started
  <2>6. QED
    BY <2>2, <2>3, <2>5 DEF FilesOf
<1>3. CASE Resolve
  <2>1. /\ scan.phase = "resolving" /\ scan'.phase = "inspecting" /\ Working
        /\ scan'.undisturbed = scan.undisturbed /\ scan'.walked = scan.walked
        /\ scan'.existing = rows
    BY <1>3, ResolveDoes DEF Follows
  <2>2. QED
    BY <2>1, WorkingSees DEF Quiet, QuietOf, Planned, Started, FilesOf
<1>4. CASE Check
  <2>1. /\ scan.phase = "checking" /\ scan'.phase = "committing" /\ Working
        /\ scan'.undisturbed = scan.undisturbed /\ scan'.walked = scan.walked
        /\ scan'.existing = scan.existing
        /\ scan'.locked = scan.locked /\ scan'.rows = scan.rows /\ scan'.probes = scan.probes
    BY <1>4, CheckDoes DEF Follows
  <2>2. View' = View /\ ViewProbes' = ViewProbes
    BY <2>1, WorkingSees DEF View, ViewProbes
  <2>3. QED
    BY <2>1, <2>2, WorkingSees DEF Quiet, QuietOf, Planned, Started, FilesOf
<1>5. QED
  BY <1>1, <1>2, <1>3, <1>4

\* What is opened is what was walked: nothing has moved in between.
LEMMA InspectKeepsQuiet ==
  ASSUME DataInv, Quiet, NEW broken \in SUBSET Files, Inspect(broken)
  PROVE  Quiet'
<1> DEFINE due == {f \in Candidates : probes[f] # scan.walked[f]}
           opened == {f \in due \ broken : Seen(f) # 0}
<1>1. /\ scan.phase = "inspecting" /\ scan'.phase = "writing" /\ Working
      /\ scan'.walked = scan.walked /\ scan'.existing = scan.existing
      /\ scan'.locked <=> opened # {}
      /\ scan'.undisturbed <=> scan.undisturbed /\ broken = {}
  BY InspectDoes DEF Follows
<1>2. scan'.probes = [f \in Files |-> IF f \in opened THEN Seen(f) ELSE probes[f]]
  BY InspectDoes
<1>3. SUFFICES ASSUME scan.undisturbed, broken = {}, NEW f \in FilesOf(job.library)
               PROVE  QuietOf(f)'
  BY <1>1, WorkingSees DEF Quiet
<1>4. QuietOf(f) /\ f \in Files
  BY <1>1, <1>3 DEF Quiet, Started, FilesOf
<1>5. Seen(f) # 0 => ViewProbes'[f] = Seen(f)
  <2>1. Seen(f) # 0 => f \in opened \/ probes[f] = Seen(f)
    BY <1>3, <1>4 DEF QuietOf, Candidates
  <2>2. QED
    BY <1>1, <1>2, <1>4, <2>1, WorkingSees DEF ViewProbes
<1>6. QED
  BY <1>1, <1>4, <1>5, WorkingSees DEF QuietOf, Planned

LEMMA WriteKeepsQuiet ==
  ASSUME DataInv, Quiet, Write
  PROVE  Quiet'
<1>1. /\ scan.phase = "writing" /\ scan'.phase = "refreshing" /\ Working
      /\ scan'.walked = scan.walked /\ scan'.existing = scan.existing
      /\ scan'.undisturbed = scan.undisturbed /\ scan'.probes = ViewProbes
      /\ scan'.locked <=> scan.locked \/ scan'.rows # View
      /\ \A f \in Files : scan'.rows[f] = Written(f)
  BY WriteDoes DEF Follows
<1>2. View' = scan'.rows /\ ViewProbes' = ViewProbes /\ View = rows
  BY <1>1, WorkingSees DEF View, ViewProbes, DataInv, Transaction
<1>3. SUFFICES ASSUME scan.undisturbed, NEW f \in FilesOf(job.library)
               PROVE  QuietOf(f)'
  BY <1>1, WorkingSees DEF Quiet
<1>4. QuietOf(f) /\ f \in Files
  BY <1>1, <1>3 DEF Quiet, Started, FilesOf
<1>5. /\ scan.walked[f] = Seen(f)
      /\ Seen(f) # 0 => ViewProbes[f] = Seen(f)
      /\ rows[f] # None => rows[f].source \in {scan.existing[f].source, Seen(f)}
  BY <1>1, <1>4 DEF QuietOf, Planned
<1>6. Alike(scan.existing[f], View[f])
  BY <1>1, <1>2, <1>4 DEF DataInv, Known, Planned
<1>7. CASE Seen(f) = 0
  <2>1. Written(f) = None \/ Written(f).removed
    <3>1. CASE f \in Missing(scan.existing)
      BY <1>1, <1>4, <1>5, <1>7, <3>1, WhatIsWritten
    <3>2. CASE f \notin Missing(scan.existing)
      <4>1. Written(f) = View[f]
        BY <1>1, <1>4, <1>5, <1>7, <3>2, WhatIsWritten
      <4>2. scan.existing[f] = None \/ scan.existing[f].removed
        BY <1>3, <1>5, <1>7, <3>2 DEF Missing, Held, Candidates
      <4>3. QED
        BY <1>6, <4>1, <4>2 DEF Alike
    <3>3. QED
      BY <3>1, <3>2
  <2>2. QED
    BY <1>1, <1>2, <1>4, <1>5, <1>7, <2>1, WorkingSees DEF QuietOf
<1>8. CASE Seen(f) # 0
  <2>1. /\ Written(f) # None /\ ~Written(f).removed
        /\ Written(f).source = Seen(f) /\ Written(f).runtime = Seen(f)
    <3>1. CASE scan.existing[f] = None
      BY <1>1, <1>4, <1>5, <1>8, <3>1, WhatIsWritten
    <3>2. CASE scan.existing[f] # None /\ Differs(f)
      BY <1>1, <1>4, <1>5, <1>6, <1>8, <3>2, WhatIsWritten DEF Alike
    <3>3. CASE scan.existing[f] # None /\ ~Differs(f)
      <4>1. scan.existing[f].source = Seen(f) /\ scan.existing[f].runtime = Seen(f)
        BY <1>5, <1>8, <3>3 DEF Differs, Modified
      <4>2. View[f].source = Seen(f) /\ View[f].runtime = Seen(f)
        BY <1>2, <1>5, <1>6, <3>3, <4>1 DEF Alike
      <4>3. QED
        BY <1>1, <1>4, <1>5, <1>6, <1>8, <3>3, <4>2, WhatIsWritten DEF Alike
    <3>4. QED
      BY <3>1, <3>2, <3>3
  <2>2. QED
    BY <1>1, <1>2, <1>4, <1>5, <1>8, <2>1, WorkingSees DEF QuietOf
<1>9. QED
  BY <1>7, <1>8

LEMMA RefreshKeepsQuiet ==
  ASSUME DataInv, Marked, Quiet, NEW failing \in SUBSET Files, Refresh(failing)
  PROVE  Quiet'
<1>1. /\ scan.phase = "refreshing" /\ scan'.phase = "checking" /\ Working
      /\ scan'.walked = scan.walked /\ scan'.existing = scan.existing
      /\ scan'.undisturbed <=> scan.undisturbed /\ failing = {}
      /\ scan'.probes = ViewProbes
  BY RefreshDoes DEF Follows
<1>2. \A f \in Files : View'[f] = scan'.rows[f]
  <2> DEFINE asking == {f \in Considered : ~View[f].resolved}
             found == asking \ (failing \union Unmatched)
  <2>1. CASE scan'.locked
    BY <2>1 DEF View
  <2>2. CASE ~scan'.locked
    <3>1. ~scan.locked /\ found \union failing = {}
      BY <2>2, RefreshDoes
    <3>2. scan'.rows = [f \in Files |-> IF f \in failing
                                        THEN [View[f] EXCEPT !.refresh_pending = TRUE]
                                        ELSE IF f \in found
                                        THEN [View[f] EXCEPT !.resolved = TRUE,
                                                             !.refresh_pending = FALSE]
                                        ELSE View[f]]
      BY RefreshDoes
    <3>3. scan'.rows = [f \in Files |-> View[f]]
      BY <3>1, <3>2
    <3>4. View' = rows /\ View = rows
      BY <1>1, <2>2, <3>1, WorkingSees DEF View
    <3>5. QED
      BY <3>3, <3>4
  <2>3. QED
    BY <2>1, <2>2
<1>3. ViewProbes' = ViewProbes
  <2>1. scan.locked => scan'.locked
    BY RefreshDoes
  <2>2. QED
    BY <1>1, <2>1, WorkingSees DEF ViewProbes
<1>4. SUFFICES ASSUME scan.undisturbed, failing = {}, NEW f \in FilesOf(job.library)
               PROVE  QuietOf(f)'
  BY <1>1, WorkingSees DEF Quiet
<1>5. QuietOf(f) /\ f \in Files
  BY <1>1, <1>4 DEF Quiet, Started, FilesOf
<1>6. /\ scan'.rows[f] = None <=> View[f] = None
      /\ View[f] # None => /\ scan'.rows[f].removed = View[f].removed
                           /\ scan'.rows[f].source = View[f].source
                           /\ scan'.rows[f].runtime = View[f].runtime
  BY <1>5, WhatIsRefreshed
<1>7. Seen(f) # 0 => scan'.rows[f].resolved \/ f \in Unmatched
  <2>1. SUFFICES ASSUME Seen(f) # 0 PROVE scan'.rows[f].resolved \/ f \in Unmatched
    OBVIOUS
  <2>2. View[f] # None /\ ~View[f].removed
    BY <1>1, <1>5, <2>1 DEF QuietOf
  <2>3. CASE f \in Considered
    BY <1>4, <1>5, <2>3, WhatIsRefreshed
  <2>4. CASE f \notin Considered
    <3>1. scan'.rows[f] = View[f] /\ f \notin scan.touched /\ ~View[f].refresh_pending
      BY <1>4, <1>5, <2>2, <2>4, WhatIsRefreshed DEF Considered
    <3>2. QED
      BY <1>1, <1>5, <2>2, <3>1 DEF Marked, Remembered
  <2>5. QED
    BY <2>3, <2>4
<1>8. QED
  BY <1>1, <1>2, <1>3, <1>5, <1>6, <1>7, WorkingSees DEF QuietOf, Planned

\* A negotiation that stores what is still there, and a change to another library, leave
\* the scan undisturbed; anything else is marked on it.
LEMMA BesideKeepsQuiet ==
  ASSUME DataInv, Quiet,
         \/ Store
         \/ \E f \in Files, version \in Versions : FileChanges(f, version)
         \/ \E l \in Rooted, shows \in {"mounted", "empty", "away"} : ShareChanges(l, shows)
  PROVE  Quiet'
<1>1. CASE Store
  <2>1. /\ scan'.phase = scan.phase /\ scan'.walked = scan.walked /\ UNCHANGED vars
        /\ scan'.existing = scan.existing
    BY <1>1, BesideDoes
  <2>2. /\ \A f \in Files : Alike(rows'[f], rows[f])
        /\ \A f \in Files : f # opening.file => rows'[f] = rows[f] /\ probes'[f] = probes[f]
        /\ rows'[opening.file].source = opening.version
        /\ probes'[opening.file] = opening.version
        /\ ~scan.locked /\ UNCHANGED worldVars
    BY <1>1, StoreWrites
  <2>3. /\ scan'.locked = scan.locked
        /\ View = rows /\ View' = rows' /\ ViewProbes = probes /\ ViewProbes' = probes'
    BY <1>1, <2>2, BesideDoes DEF View, ViewProbes
  <2>4. SUFFICES ASSUME Started, scan'.undisturbed, NEW f \in FilesOf(job.library)
                 PROVE  QuietOf(f)'
    BY <2>1 DEF Quiet, Started, vars, FilesOf
  <2>5. opening.version = Seen(opening.file)
    BY <1>1, <2>4, ScanType DEF Store, Started, DataInv, ScanTypeOK
  <2>6. QuietOf(f) /\ f \in Files /\ Seen(f)' = Seen(f)
    BY <1>1, <2>2, <2>4, BesideDoes DEF Quiet, FilesOf, Seen, worldVars
  <2>7. CASE f = opening.file
    BY <2>1, <2>2, <2>3, <2>5, <2>6, <2>7 DEF QuietOf, Alike
  <2>8. CASE f # opening.file
    BY <2>1, <2>2, <2>3, <2>6, <2>8 DEF QuietOf
  <2>9. QED
    BY <2>7, <2>8
<1>2. ASSUME NEW l \in Rooted, Disturbs(l),
             \A f \in Files : LibraryOf[f] # l => Seen(f)' = Seen(f)
      PROVE  Quiet'
  <2>1. /\ scan'.phase = scan.phase /\ scan'.walked = scan.walked
        /\ scan'.existing = scan.existing /\ UNCHANGED vars
        /\ View' = View /\ ViewProbes' = ViewProbes /\ rows' = rows
    BY <1>2, BesideDoes DEF Disturbs, dataVars, View, ViewProbes
  <2>2. SUFFICES ASSUME Started, scan'.undisturbed, NEW f \in FilesOf(job.library)
                 PROVE  QuietOf(f)'
    BY <2>1 DEF Quiet, Started, vars, FilesOf
  <2>3. scan.undisturbed /\ job.library # l
    BY <1>2, <2>2, ScanType DEF Disturbs, Started, DataInv, ScanTypeOK
  <2>4. QuietOf(f) /\ Seen(f)' = Seen(f)
    BY <1>2, <2>2, <2>3 DEF Quiet, FilesOf
  <2>5. QED
    BY <2>1, <2>4 DEF QuietOf
<1>3. ASSUME NEW f \in Files, NEW version \in Versions, FileChanges(f, version)
      PROVE  Quiet'
  <2>1. LibraryOf[f] \in Rooted /\ Disturbs(LibraryOf[f])
    BY <1>3, FilesAssumption DEF FileChanges
  <2>2. \A g \in Files : LibraryOf[g] # LibraryOf[f] => Seen(g)' = Seen(g)
    BY <1>3 DEF FileChanges, Seen, DataInv, ScanTypeOK
  <2>3. QED
    BY <1>2, <2>1, <2>2
<1>4. ASSUME NEW l \in Rooted, NEW shows \in {"mounted", "empty", "away"},
             ShareChanges(l, shows)
      PROVE  Quiet'
  <2>1. \A g \in Files : LibraryOf[g] # l => Seen(g)' = Seen(g)
    BY <1>4, FilesAssumption DEF ShareChanges, Seen, DataInv, ScanTypeOK
  <2>2. QED
    BY <1>2, <1>4, <2>1 DEF ShareChanges
<1>5. QED
  BY <1>1, <1>3, <1>4

LEMMA StepKeepsQuiet ==
  ASSUME Inv, DataInv, Marked, Quiet, [ScanNext]_allVars
  PROVE  Quiet'
<1>1. CASE Walk \/ Resolve \/ Check \/ \E moved \in SUBSET Files : Settle(moved)
  BY <1>1, ReadingKeepsQuiet
<1>2. CASE Write
  BY <1>2, WriteKeepsQuiet
<1>3. CASE \E fs \in SUBSET Files : Inspect(fs) \/ Refresh(fs)
  BY <1>3, InspectKeepsQuiet, RefreshKeepsQuiet
<1>4. CASE scan' = NoScan
  BY <1>4 DEF Quiet, Started, NoScan
<1>5. CASE UNCHANGED <<worldVars, dataVars, scan>> /\ (Started => UNCHANGED <<worker, job>>)
  BY <1>5 DEF Quiet, Started, QuietOf, FilesOf, Seen, View, ViewProbes, worldVars, dataVars
<1>6. CASE \/ Store
           \/ \E f \in Files, version \in Versions : FileChanges(f, version)
           \/ \E l \in Rooted, shows \in {"mounted", "empty", "away"} :
                ShareChanges(l, shows)
  BY <1>6, BesideKeepsQuiet
<1>7. QED
  BY <1>1, <1>2, <1>3, <1>4, <1>5, <1>6, BackIsBack, ScannerGoesAround
  DEF ScanNext, ScanStep, RolledBack, Commit

LEMMA QuietHolds == ScanSpec => [](Inv /\ DataInv /\ Marked /\ Quiet)
<1>1. ScanInit => Marked /\ Quiet
  BY DEF ScanInit, Marked, NobodyIsForgotten, NoRows, NoScan, Quiet, Started
<1>2. Inv /\ DataInv /\ Marked /\ Quiet /\ [ScanNext]_allVars => Marked' /\ Quiet'
  BY StepKeepsMarked, StepKeepsQuiet
<1>3. QED
  BY <1>1, <1>2, DataInvHolds, PTL DEF ScanSpec

\* A scan that nothing disturbs leaves its library saying what is on the disk, whatever
\* earlier scans, refused, stopped, half blind or rolled back, have left behind, and
\* whatever negotiations have stored meanwhile: for any files, libraries and versions
\* (`_reconcile`, `_inspect_media`, `refresh_items`).
THEOREM QuietScansDescribeTheDisk == ScanSpec => AQuietScanDescribesTheDisk
<1>1. ASSUME Inv, DataInv, Marked, Quiet, [ScanNext]_allVars,
             Committed, scan.undisturbed, NEW f \in FilesOf(job.library)
      PROVE  Describes(f)'
  <2>1. Commit
    <3>1. ~ScanFails /\ ~Dies
      BY <1>1, NumbersAssumption, BoundsAssumption
      DEF ScanFails, Faulty, Dies, Restart, Committed, Inv, TypeOK, DataInv, ScanTypeOK
    <3>2. ~ScanStopped
      BY <1>1 DEF ScanStopped, Committed
    <3>3. \/ scan.phase # "committing" \/ scan'.phase = scan.phase \/ Commit
      BY <1>1, <3>1, <3>2, BesideDoes, FilesAssumption
      DEF ScanNext, ScanStep, allVars, Undisturbing, Walk, RootUnreadable, Resolve, Refused,
          Settle, Inspect, Write, Refresh, Check, At, Open, StoreFails, FileChanges,
          ShareChanges
    <3>4. QED
      BY <1>1, <3>3 DEF Committed
  <2>2. /\ rows' = View /\ probes' = ViewProbes /\ UNCHANGED worldVars
        /\ scan.phase = "committing"
    BY <2>1 DEF Commit, At
  <2>3. QuietOf(f) /\ f \in Files
    BY <1>1, <2>2 DEF Quiet, Started, FilesOf
  <2>4. Seen(f)' = Seen(f)
    BY <2>2 DEF Seen, worldVars
  <2>5. QED
    BY <2>2, <2>3, <2>4 DEF QuietOf, Planned, Describes, Live
<1>2. Inv /\ DataInv /\ Marked /\ Quiet /\ [ScanNext]_allVars =>
        [Committed /\ scan.undisturbed =>
           \A f \in FilesOf(job.library) : Describes(f)']_allVars
  BY <1>1
<1>3. QED
  BY <1>2, QuietHolds, PTL DEF ScanSpec, AQuietScanDescribesTheDisk

=============================================================================
