----------------------- MODULE PlaybackReports_proofs -----------------------
(***************************************************************************)
(* What the stored rows and the reaper keep, for any number of sessions,   *)
(* items and requests, and any runtimes and thresholds.                    *)
(*                                                                         *)
(* Neither the row a transition starts from nor the row `put` compares     *)
(* with need be the row that is there now, so every argument goes through  *)
(* Put: a column of the result is the one that was there or the one that   *)
(* was written, and what is written may be a position read earlier.        *)
(***************************************************************************)
EXTENDS PlaybackReports, FiniteSetTheorems, TLAPS

\* The reaper has a stop in hand wherever it uses one.
StopInHand ==
  sweep.pc \in {"popping", "putting", "writing"} => sweep.cur \in Stop

\* What can be resumed, as StoredPositionIsResumable says it of a row.
Resumable(p, runtime) ==
  p # 0 => /\ p * 100 >= runtime * MIN_RESUME_PCT
           /\ p * 100 <= runtime * MAX_RESUME_PCT
           /\ runtime - p > TICKS_PER_SECOND
           /\ runtime >= MIN_RESUME_DURATION_SECONDS * TICKS_PER_SECOND

\* A handler may write back the position it has read, long after the row has
\* changed: that one can be resumed too.
ReadIsResumable ==
  loop # None => Resumable(loop.read.position, Runtime[loop.q.item])

IInv ==
  TypeOK /\ StopInHand /\ ReadIsResumable /\ StoredPositionIsResumable

----------------------------------------------------------------------------
(***************************************************************************)
(* The transitions of a row.                                               *)
(***************************************************************************)

\* A write keeps or replaces each column, and stores the row.
LEMMA PutColumns ==
  ASSUME NEW now \in Row, NEW base \in Row, NEW new \in Row
  PROVE  /\ Put(now, base, new) \in Row
         /\ Put(now, base, new).is_favorite =
              IF new.is_favorite = base.is_favorite
                THEN now.is_favorite ELSE new.is_favorite
         /\ Put(now, base, new).played =
              IF new.played = base.played THEN now.played ELSE new.played
         /\ Put(now, base, new).play_count =
              IF new.play_count = base.play_count
                THEN now.play_count ELSE new.play_count
         /\ Put(now, base, new).position =
              IF new.position = base.position
                THEN now.position ELSE new.position
<1>1. DOMAIN now = {"stored", "is_favorite", "played", "play_count",
                    "position"}
  BY DEF Row
<1> QED
  BY <1>1 DEF Row, Put

\* What setting Played, the count and the position does to a row.
LEMMA Marked ==
  ASSUME NEW row \in Row, NEW count \in Nat
  PROVE  \A b \in BOOLEAN :
           /\ [row EXCEPT !.played = b, !.play_count = count] \in Row
           /\ [row EXCEPT !.played = b, !.play_count = count].position =
                row.position
           /\ [row EXCEPT !.played = b, !.play_count = count,
                          !.position = 0] \in Row
           /\ [row EXCEPT !.played = b, !.play_count = count,
                          !.position = 0].position = 0
           /\ [row EXCEPT !.played = b, !.play_count = count,
                          !.position = 0].is_favorite = row.is_favorite
           /\ [row EXCEPT !.played = b, !.play_count = count,
                          !.position = 0].played = b
<1> TAKE b \in BOOLEAN
<1>1. DOMAIN row = {"stored", "is_favorite", "played", "play_count",
                    "position"}
  BY DEF Row
<1>2. /\ [row EXCEPT !.played = b, !.play_count = count] \in Row
      /\ [row EXCEPT !.played = b, !.play_count = count].position =
           row.position
  BY <1>1 DEF Row
<1> DEFINE new == [row EXCEPT !.played = b, !.play_count = count,
                              !.position = 0]
<1>3. new \in Row
  <2>1. \A q \in Int : [row EXCEPT !.played = b, !.play_count = count,
                                   !.position = q] \in Row
    BY <1>1 DEF Row
  <2>2. 0 \in Int
    OBVIOUS
  <2> QED
    BY <2>1, <2>2, Zenon
<1>4. /\ new.is_favorite = row.is_favorite /\ new.position = 0
      /\ new.played = b
  BY <1>1
<1> QED
  BY <1>2, <1>3, <1>4

\* resolve keeps a position only where a client may resume.
LEMMA ResolveKeepsResumable ==
  ASSUME NEW p \in Int \union {None}, NEW runtime \in Nat,
         Resolve(p, runtime) = "resumable"
  PROVE  p \in Int /\ Resumable(p, runtime)
<1>1. p \in Int /\ runtime # 0
  BY DEF Resolve
<1> DEFINE a == p * 100
           b == runtime * MIN_RESUME_PCT
           c == runtime * MAX_RESUME_PCT
           d == MIN_RESUME_DURATION_SECONDS * TICKS_PER_SECOND
<1>2. a \in Int /\ b \in Int /\ c \in Int /\ d \in Int
      /\ TICKS_PER_SECOND \in Int
  BY <1>1, NumbersAssumption
<1>3. ~(a < b) /\ ~(a > c) /\ ~(runtime - p <= TICKS_PER_SECOND)
      /\ ~(runtime < d)
  BY DEF Resolve
<1> HIDE DEF a, b, c, d
<1>4. a >= b /\ a <= c /\ runtime - p > TICKS_PER_SECOND /\ runtime >= d
  BY <1>1, <1>2, <1>3
<1> QED
  BY <1>1, <1>4 DEF Resumable, a, b, c, d

\* A position-bearing report never touches the count or the favourite, never
\* clears Played, and leaves no position a client may not resume from.
LEMMA ReportEffect ==
  ASSUME NEW row \in Row, NEW p \in Int \union {None}, NEW runtime \in Nat
  PROVE  LET new == OnReport(row, p, runtime) IN
         /\ new \in Row
         /\ new.is_favorite = row.is_favorite
         /\ new.play_count = row.play_count
         /\ row.played => new.played
         /\ Resumable(new.position, runtime)
<1> DEFINE new == OnReport(row, p, runtime)
           outcome == Resolve(p, runtime)
<1>1. /\ new = [row EXCEPT !.played = row.played \/ outcome = "completed",
                           !.position = IF outcome = "resumable" THEN p ELSE 0]
      /\ DOMAIN row = {"stored", "is_favorite", "played", "play_count",
                       "position"}
  BY DEF OnReport, Row
<1>2. /\ new.is_favorite = row.is_favorite
      /\ new.play_count = row.play_count
      /\ new.position = IF outcome = "resumable" THEN p ELSE 0
  BY <1>1
<1>3. row.played => new.played
  BY <1>1, Zenon
<1>4. Resumable(new.position, runtime) /\ new.position \in Int
  <2>1. CASE outcome = "resumable"
    BY <2>1, <1>2, ResolveKeepsResumable
  <2>2. CASE outcome # "resumable"
    BY <2>2, <1>2 DEF Resumable
  <2> QED
    BY <2>1, <2>2
<1>5. new \in Row
  BY <1>1, <1>4, <1>2 DEF Row
<1> QED
  BY <1>2, <1>3, <1>4, <1>5

\* A stop is such a report, unless it carries no position.
LEMMA StopEffect ==
  ASSUME NEW row \in Row, NEW p \in Int \union {None}, NEW runtime \in Nat
  PROVE  LET new == OnStop(row, p, runtime) IN
         /\ new \in Row
         /\ new.is_favorite = row.is_favorite
         /\ p \in Int => new.play_count = row.play_count
         /\ row.played => new.played
         /\ Resumable(new.position, runtime)
<1>1. CASE p = None
  <2> DEFINE new == [row EXCEPT !.played = TRUE,
                                !.play_count = row.play_count + 1,
                                !.position = 0]
  <2>1. p \notin Int /\ OnStop(row, p, runtime) = new
    BY <1>1, RequestsAssumption DEF OnStop, OnStopWithoutPosition
  <2>2. row.play_count + 1 \in Nat /\ TRUE \in BOOLEAN
    BY DEF Row
  <2>3. /\ new \in Row /\ new.is_favorite = row.is_favorite
        /\ new.position = 0 /\ new.played = TRUE
    BY <2>2, Marked, Zenon
  <2>4. Resumable(new.position, runtime)
    BY <2>3 DEF Resumable
  <2> HIDE DEF new
  <2> QED
    BY <2>1, <2>3, <2>4
<1>2. CASE p # None
  BY <1>2, ReportEffect DEF OnStop
<1> QED
  BY <1>1, <1>2

----------------------------------------------------------------------------
(***************************************************************************)
(* The steps, each with what it does to the rows.                          *)
(***************************************************************************)

\* What may be written to the row of an item.
Written(new, i) == new \in Row /\ Resumable(new.position, Runtime[i])

\* From a row that may be resumed every transition makes another.
LEMMA HandlerWrites ==
  ASSUME NEW read \in Row, NEW i \in Items, NEW on \in BOOLEAN,
         NEW p \in Int \union {None},
         Resumable(read.position, Runtime[i])
  PROVE  /\ Written(OnStart(read), i)
         /\ Written(OnStop(read, p, Runtime[i]), i)
         /\ Written(OnReport(read, p, Runtime[i]), i)
         /\ Written(OnMarkPlayed(read, on), i)
         /\ Written(OnMarkUnplayed(read), i)
         /\ Written([read EXCEPT !.is_favorite = on], i)
<1>1. Runtime[i] \in Nat
  BY NumbersAssumption
<1>2. Written(OnStart(read), i)
  <2>1. read.play_count + 1 \in Nat /\ FALSE \in BOOLEAN
    BY DEF Row
  <2> QED
    BY <2>1, Marked, Zenon DEF Written, OnStart
<1>3. Written(OnStop(read, p, Runtime[i]), i)
  BY <1>1, StopEffect DEF Written
<1>4. Written(OnReport(read, p, Runtime[i]), i)
  BY <1>1, ReportEffect DEF Written
<1>5. Written(OnMarkPlayed(read, on), i)
  <2> DEFINE count == IF on \/ read.play_count = 0
                        THEN read.play_count + 1 ELSE read.play_count
  <2>1. count \in Nat /\ TRUE \in BOOLEAN
    BY DEF Row
  <2>2. OnMarkPlayed(read, on) \in Row /\ OnMarkPlayed(read, on).position = 0
    <3> DEFINE new == [read EXCEPT !.played = TRUE, !.play_count = count,
                                   !.position = 0]
    <3>1. OnMarkPlayed(read, on) = new
      BY Zenon DEF OnMarkPlayed
    <3> HIDE DEF count
    <3>2. new \in Row /\ new.position = 0
      BY <2>1, Marked, Zenon
    <3> HIDE DEF new
    <3> QED
      BY <3>1, <3>2
  <2> QED
    BY <2>2 DEF Written, Resumable
<1>6. Written(OnMarkUnplayed(read), i)
  <2>1. 0 \in Nat /\ FALSE \in BOOLEAN
    OBVIOUS
  <2>2. OnMarkUnplayed(read) \in Row /\ OnMarkUnplayed(read).position = 0
    BY <2>1, Marked, Zenon DEF OnMarkUnplayed
  <2> QED
    BY <2>2 DEF Written, Resumable
<1>7. Written([read EXCEPT !.is_favorite = on], i)
  BY DEF Written, Row
<1> QED
  BY <1>2, <1>3, <1>4, <1>5, <1>6, <1>7

\* Only rows of their types are put, and each new position may be resumed.
RowsStep ==
  /\ rows' \in [Items -> Row]
  /\ \A i \in Items :
       \/ rows'[i].position = rows[i].position
       \/ Resumable(rows'[i].position, Runtime[i])

\* Putting such a row over the one that is there now is such a step.
LEMMA PutStep ==
  ASSUME TypeOK, NEW i \in Items, NEW base \in Row, NEW new,
         Written(new, i),
         rows' = [rows EXCEPT ![i] = Put(@, base, new)]
  PROVE  RowsStep
<1>1. rows \in [Items -> Row] /\ rows[i] \in Row /\ new \in Row
  BY DEF TypeOK, Written
<1>2. /\ Put(rows[i], base, new) \in Row
      /\ Put(rows[i], base, new).position =
           IF new.position = base.position
             THEN rows[i].position ELSE new.position
  BY <1>1, PutColumns
<1>3. rows' \in [Items -> Row] /\ rows'[i] = Put(rows[i], base, new)
      /\ \A j \in Items \ {i} : rows'[j] = rows[j]
  BY <1>1, <1>2
<1> QED
  BY <1>2, <1>3 DEF RowsStep, Written

\* The same for what a handler writes.
LEMMA WritesStep ==
  ASSUME TypeOK, loop # None, NEW new, Writes(new),
         Written(new, loop.q.item)
  PROVE  RowsStep
<1>1. loop.q \in Requests /\ loop.base \in Row
  BY DEF TypeOK, Handling, Writes
<1>2. loop.q.item \in Items
  BY <1>1, RequestsAssumption DEF Reports, Marks
<1> QED
  BY <1>1, <1>2, PutStep DEF Writes

\* The fields of the request being handled.
LEMMA RequestFields ==
  ASSUME TypeOK, loop # None
  PROVE  /\ loop.read \in Row /\ loop.q.item \in Items
         /\ loop.base # None => loop.base \in Row
         /\ loop.q.s \in Sessions
         /\ loop.q.kind \in {"start", "progress"} =>
              loop.q.position \in Int \union {None} /\ loop.q.paused \in BOOLEAN
         /\ loop.q.kind = "stopped" => loop.q.position \in Int \union {None}
         /\ loop.q.kind = "played" => loop.q.dated \in BOOLEAN
         /\ loop.q.kind = "favorite" => loop.q.on \in BOOLEAN
<1>1. /\ loop.q \in Requests /\ loop.read \in Row
      /\ loop.base # None => loop.base \in Row
  BY DEF TypeOK, Handling
<1>2. loop.q \in Reports \/ loop.q \in Marks
  BY <1>1, RequestsAssumption
<1>3. CASE loop.q \in Reports
  BY <1>1, <1>3 DEF Reports
<1>4. CASE loop.q \in Marks
  BY <1>1, <1>4 DEF Marks
<1> QED
  BY <1>2, <1>3, <1>4

\* Whatever a handler does to the rows is such a step, or none.
LEMMA HandlerStep ==
  ASSUME IInv, Handler
  PROVE  RowsStep \/ UNCHANGED rows
<1>1. /\ loop # None /\ TypeOK
      /\ Resumable(loop.read.position, Runtime[loop.q.item])
  BY DEF Handler, Load, Start, Progress, Stopped, MarkPlayed, MarkUnplayed,
         SetFavourite, Refused, Answering, IInv, ReadIsResumable
<1> USE <1>1, RequestFields
<1>2. CASE Start
  BY <1>2, HandlerWrites, WritesStep DEF Start
<1>3. CASE Progress
  <2>1. loop.q.kind = "progress"
    BY <1>3 DEF Progress, Answering
  <2> QED
    BY <1>3, <2>1, HandlerWrites, WritesStep DEF Progress
<1>4. CASE Stopped
  <2>1. loop.q.kind = "stopped"
    BY <1>4 DEF Stopped, Answering
  <2> QED
    BY <1>4, <2>1, HandlerWrites, WritesStep DEF Stopped
<1>5. CASE MarkPlayed
  <2>1. loop.q.kind = "played"
    BY <1>5 DEF MarkPlayed, Answering
  <2> QED
    BY <1>5, <2>1, HandlerWrites, WritesStep DEF MarkPlayed
<1>6. CASE MarkUnplayed
  BY <1>6, HandlerWrites, WritesStep DEF MarkUnplayed
<1>7. CASE SetFavourite
  <2>1. loop.q.kind = "favorite"
    BY <1>7 DEF SetFavourite, Answering
  <2> QED
    BY <1>7, <2>1, HandlerWrites, WritesStep DEF SetFavourite
<1>8. CASE Refused \/ Load
  BY <1>8 DEF Refused, Load
<1> QED
  BY <1>2, <1>3, <1>4, <1>5, <1>6, <1>7, <1>8 DEF Handler

\* What the reaper writes is such a step too.
LEMMA RecordStopStep ==
  ASSUME IInv, RecordStop
  PROVE  RowsStep
<1>1. sweep.cur \in Stop /\ sweep.read \in Row /\ sweep.base \in Row
  BY DEF IInv, StopInHand, TypeOK, Reaper, RecordStop
<1> DEFINE i == sweep.cur.item
           new == OnStop(sweep.read, sweep.cur.position, Runtime[i])
<1>2. i \in Items /\ sweep.cur.position \in Int /\ Runtime[i] \in Nat
  BY <1>1, NumbersAssumption DEF Stop
<1>3. Written(new, i)
  BY <1>1, <1>2, StopEffect DEF Written
<1>4. rows' = [rows EXCEPT ![i] = Put(@, sweep.base, new)]
  BY DEF RecordStop
<1> HIDE DEF i, new
<1> QED
  BY <1>1, <1>2, <1>3, <1>4, PutStep DEF IInv

----------------------------------------------------------------------------
(***************************************************************************)
(* The invariant.                                                          *)
(***************************************************************************)

\* The reaper at rest, and on its way to its next step.
LEMMA Advanced ==
  ASSUME NEW w \in Reaper
  PROVE  /\ Resting \in Reaper
         /\ Advance(w) \in Reaper
         /\ Resting.pc \notin {"popping", "putting", "writing"}
         /\ Advance(w).pc \notin {"popping", "putting", "writing"}
<1>1. NoRow \in Row
  BY DEF NoRow, Row
<1>2. Resting \in Reaper /\ Resting.pc = "idle"
  BY <1>1 DEF Resting, Reaper
<1>3. CASE w.stale # {}
  BY <1>2, <1>3 DEF Advance, Reaper
<1>4. CASE w.stale = {} /\ w.reaped # {}
  BY <1>2, <1>4 DEF Advance, Reaper
<1>5. CASE w.stale = {} /\ w.reaped = {}
  BY <1>2, <1>5 DEF Advance
<1> QED
  BY <1>2, <1>3, <1>4, <1>5

\* How many sessions are playing is a number.
LEMMA LiveCount == Cardinality(Live) \in Nat
<1>1. Live \subseteq Sessions
  BY DEF Live
<1> QED
  BY <1>1, RequestsAssumption, FS_Subset, FS_CardinalityType

\* The report a session last sent, as the registry keeps it.
LEMMA UpdateTyped ==
  ASSUME TypeOK, loop # None, Update(loop.q),
         loop.q.kind \in {"start", "progress"}
  PROVE  playing' \in [Sessions -> Playing \union {None}]
<1> DEFINE kept == IF loop.q.position = None THEN 0 ELSE loop.q.position
           held == [item |-> loop.q.item, paused |-> loop.q.paused,
                    at |-> clock, position |-> kept]
<1>1. /\ loop.q.item \in Items /\ loop.q.paused \in BOOLEAN
      /\ loop.q.position \in Int \union {None}
  BY RequestFields
<1>2. kept \in Int /\ clock \in Nat
  BY <1>1 DEF TypeOK
<1> HIDE DEF kept
<1>3. held \in Playing
  BY <1>1, <1>2 DEF Playing
<1>4. playing' = [playing EXCEPT ![loop.q.s] = held]
  BY DEF Update, kept
<1> HIDE DEF held
<1> QED
  BY <1>3, <1>4 DEF TypeOK

\* The position the reaper commits is a number.
LEMMA ExtrapolatedTyped ==
  ASSUME TypeOK, NEW held \in Playing
  PROVE  Extrapolated(held) \in Int
<1>1. /\ held.item \in Items /\ held.position \in Int /\ held.at \in Nat
      /\ clock \in Nat
  BY DEF Playing, TypeOK
<1>2. Runtime[held.item] \in Nat /\ TICKS_PER_SECOND \in Nat
  BY <1>1, NumbersAssumption
<1> DEFINE run == (clock - held.at) * TICKS_PER_SECOND
<1>3. run \in Int
  BY <1>1, <1>2
<1> HIDE DEF run
<1>4. held.position + (IF held.paused THEN 0 ELSE run) \in Int
  BY <1>1, <1>3
<1> QED
  BY <1>2, <1>4 DEF Extrapolated, run

LEMMA InitInv == Init => IInv
<1> SUFFICES ASSUME Init PROVE IInv
  OBVIOUS
<1>1. NoRow \in Row
  BY DEF NoRow, Row
<1>2. Resting \in Reaper /\ Resting.pc = "idle"
  BY <1>1 DEF Resting, Reaper
<1> QED
  BY <1>1, <1>2 DEF Init, IInv, TypeOK, StopInHand, ReadIsResumable,
                    StoredPositionIsResumable, NoRow

\* Every step keeps the types, and the stop the reaper has in hand.
LEMMA StepTyped ==
  ASSUME IInv, [Next]_vars
  PROVE  TypeOK' /\ StopInHand'
<1> USE DEF IInv
<1> rows \in [Items -> Row] /\ playing \in [Sessions -> Playing \union {None}]
    /\ known \subseteq Sessions /\ loop \in Handling \union {None}
    /\ sweep \in Reaper /\ clock \in Nat
  BY DEF TypeOK
<1>1. ASSUME NEW q \in Requests, Receive(q)
      PROVE  TypeOK' /\ StopInHand'
  <2>1. q.item \in Items
    BY RequestsAssumption DEF Reports, Marks
  <2>2. loop' \in Handling
    BY <1>1, <2>1 DEF Receive, Handling
  <2> QED
    BY <1>1, <2>2 DEF Receive, TypeOK, StopInHand
<1>2. CASE Handler
  <2>1. rows' \in [Items -> Row]
    BY <1>2, HandlerStep DEF RowsStep
  <2>2. UNCHANGED <<known, sweep, clock>> /\ loop # None
    BY <1>2 DEF Handler, Load, Start, Progress, Stopped, MarkPlayed,
         MarkUnplayed, SetFavourite, Refused, Answering
  <2>3. playing' \in [Sessions -> Playing \union {None}]
    <3>1. CASE Start
      BY <2>2, <3>1, UpdateTyped DEF Start, Answering
    <3>2. CASE Progress
      BY <2>2, <3>2, UpdateTyped DEF Progress, Answering
    <3>3. CASE Stopped
      BY <3>3 DEF Stopped
    <3>4. CASE Load \/ MarkPlayed \/ MarkUnplayed \/ SetFavourite \/ Refused
      BY <3>4 DEF Load, MarkPlayed, MarkUnplayed, SetFavourite, Refused
    <3> QED
      BY <1>2, <3>1, <3>2, <3>3, <3>4 DEF Handler
  <2>4. loop' \in Handling \union {None}
    <3>1. CASE Load
      <4>1. rows[loop.q.item] \in Row /\ loop \in Handling
        BY <2>2, RequestFields
      <4> QED
        BY <3>1, <4>1 DEF Load, Handling
    <3>2. CASE ~Load
      BY <1>2, <3>2 DEF Handler, Start, Progress, Stopped, MarkPlayed,
           MarkUnplayed, SetFavourite, Refused, Answering
    <3> QED
      BY <3>1, <3>2
  <2> QED
    BY <2>1, <2>2, <2>3, <2>4 DEF TypeOK, StopInHand
<1>3. ASSUME NEW s \in known, Evict(s)
      PROVE  TypeOK' /\ StopInHand'
  BY <1>3 DEF Evict, TypeOK, StopInHand
<1>4. CASE BeginReap
  <2>1. clock - Silence \in Int
    BY NumbersAssumption
  <2>2. sweep' \in Reaper /\ sweep'.pc = "listing"
    BY <1>4, <2>1, LiveCount, Advanced DEF BeginReap, Reaper
  <2> QED
    BY <1>4, <2>2 DEF BeginReap, TypeOK, StopInHand
<1>5. CASE List
  <2> DEFINE w == [Resting EXCEPT
                     !.stale = {s \in Live : playing[s].at <= sweep.cutoff}]
  <2>1. {s \in Live : playing[s].at <= sweep.cutoff} \subseteq Sessions
    BY DEF Live
  <2>2. w \in Reaper
    BY <2>1, Advanced DEF Reaper
  <2> QED
    BY <1>5, <2>2, Advanced DEF List, TypeOK, StopInHand
<1>6. CASE ListingFails
  BY <1>6, Advanced DEF ListingFails, TypeOK, StopInHand
<1>7. ASSUME NEW s \in sweep.stale, Snapshot(s)
      PROVE  TypeOK' /\ StopInHand'
  <2>1. s \in Sessions
    BY DEF Reaper
  <2>2. CASE playing[s] = None
    <3>1. [sweep EXCEPT !.stale = @ \ {s}] \in Reaper
      BY DEF Reaper
    <3> QED
      BY <1>7, <2>2, <3>1, Advanced DEF Snapshot, TypeOK, StopInHand
  <2>3. CASE playing[s] # None
    <3> DEFINE stop == [s |-> s, item |-> playing[s].item,
                        position |-> Extrapolated(playing[s])]
    <3>1. playing[s] \in Playing
      BY <2>1, <2>3
    <3>2. playing[s].item \in Items
      BY <3>1 DEF Playing
    <3>3. stop \in Stop
      BY <2>1, <3>1, <3>2, ExtrapolatedTyped DEF Stop
    <3>4. sweep' = [sweep EXCEPT !.pc = "popping", !.cur = stop]
      BY <1>7, <2>3 DEF Snapshot
    <3> HIDE DEF stop
    <3>5. sweep' \in Reaper /\ sweep'.cur \in Stop
      BY <3>3, <3>4 DEF Reaper
    <3> QED
      BY <1>7, <3>5 DEF Snapshot, TypeOK, StopInHand
  <2> QED
    BY <2>2, <2>3
<1>8. CASE Pop
  <2>1. sweep.cur \in Stop
    BY <1>8 DEF Pop, StopInHand
  <2>2. [sweep EXCEPT !.stale = @ \ {sweep.cur.s},
                      !.reaped = @ \union {sweep.cur}] \in Reaper
    BY <2>1 DEF Reaper
  <2>3. playing' \in [Sessions -> Playing \union {None}]
    BY <1>8 DEF Pop
  <2> QED
    BY <1>8, <2>2, <2>3, Advanced DEF Pop, TypeOK, StopInHand
<1>9. ASSUME NEW r \in sweep.reaped, Read(r)
      PROVE  TypeOK' /\ StopInHand'
  <2>1. r \in Stop
    BY DEF Reaper
  <2>2. CASE r.s \notin known
    <3>1. [sweep EXCEPT !.reaped = @ \ {r}] \in Reaper
      BY DEF Reaper
    <3> QED
      BY <1>9, <2>2, <3>1, Advanced DEF Read, TypeOK, StopInHand
  <2>3. CASE r.s \in known
    <3>1. rows[r.item] \in Row
      BY <2>1 DEF Stop
    <3>2. sweep' = [sweep EXCEPT !.pc = "putting", !.cur = r,
                                 !.read = rows[r.item]]
      BY <1>9, <2>3 DEF Read
    <3>3. sweep' \in Reaper /\ sweep'.cur \in Stop
      BY <2>1, <3>1, <3>2 DEF Reaper
    <3> QED
      BY <1>9, <3>3 DEF Read, TypeOK, StopInHand
  <2> QED
    BY <2>2, <2>3
<1>10. CASE RecordStop
  <2>1. rows' \in [Items -> Row]
    BY <1>10, RecordStopStep DEF RowsStep
  <2>2. NoRow \in Row
    BY DEF NoRow, Row
  <2>3. [sweep EXCEPT !.reaped = @ \ {sweep.cur}, !.read = NoRow,
                      !.base = NoRow] \in Reaper
    BY <2>2 DEF Reaper
  <2> QED
    BY <1>10, <2>1, <2>3, Advanced DEF RecordStop, TypeOK, StopInHand
<1>11. CASE CommitFails
  BY <1>11, Advanced DEF CommitFails, TypeOK, StopInHand
<1>12. CASE Tick
  BY <1>12 DEF Tick, TypeOK, StopInHand
<1>13. CASE UNCHANGED vars
  BY <1>13 DEF vars, TypeOK, StopInHand
<1>14. CASE LoadStop
  <2>1. sweep.cur \in Stop
    BY <1>14 DEF LoadStop, StopInHand
  <2>2. rows[sweep.cur.item] \in Row
    BY <2>1 DEF Stop
  <2>3. sweep' \in Reaper /\ sweep'.cur \in Stop
    BY <1>14, <2>1, <2>2 DEF LoadStop, Reaper
  <2> QED
    BY <1>14, <2>3 DEF LoadStop, TypeOK, StopInHand
<1> QED
  BY <1>1, <1>2, <1>3, <1>4, <1>5, <1>6, <1>7, <1>8, <1>9, <1>10, <1>11,
     <1>12, <1>13, <1>14 DEF Next, Sweep

\* Only a handler and the reaper's commit touch the rows.
LEMMA RowsChange ==
  ASSUME IInv, [Next]_vars
  PROVE  \/ UNCHANGED rows
         \/ Handler /\ RowsStep /\ UNCHANGED sweep
         \/ RecordStop /\ RowsStep /\ UNCHANGED loop
<1>1. CASE Handler
  <2>1. UNCHANGED sweep
    BY <1>1 DEF Handler, Load, Start, Progress, Stopped, MarkPlayed,
         MarkUnplayed, SetFavourite, Refused, Answering
  <2> QED
    BY <1>1, <2>1, HandlerStep
<1>2. CASE RecordStop
  BY <1>2, RecordStopStep DEF RecordStop
<1>3. CASE UNCHANGED vars
  BY <1>3 DEF vars
<1>4. CASE Next /\ ~Handler /\ ~RecordStop
  BY <1>4 DEF Next, Sweep, Receive, Evict, BeginReap, List, ListingFails,
       Snapshot, Pop, Read, LoadStop, CommitFails, Tick
<1> QED
  BY <1>1, <1>2, <1>3, <1>4

\* What StoredPositionIsResumable says of the rows, in terms of Resumable.
LEMMA StoredIsResumable ==
  StoredPositionIsResumable
    <=> \A i \in Items : Resumable(rows[i].position, Runtime[i])
BY DEF StoredPositionIsResumable, Resumable

\* Every position put may be resumed, whatever was there.
LEMMA StepStored ==
  ASSUME IInv, [Next]_vars
  PROVE  StoredPositionIsResumable'
<1> SUFFICES ASSUME NEW i \in Items
             PROVE  Resumable(rows'[i].position, Runtime[i])
  BY DEF StoredPositionIsResumable, Resumable
<1>1. UNCHANGED rows \/ RowsStep
  BY RowsChange
<1>2. Resumable(rows[i].position, Runtime[i])
  BY StoredIsResumable DEF IInv
<1> QED
  BY <1>1, <1>2 DEF RowsStep

\* A handler reads a position that may be resumed, and keeps what it has read.
LEMMA StepRead ==
  ASSUME IInv, [Next]_vars
  PROVE  ReadIsResumable'
<1>1. ASSUME NEW q \in Requests, Receive(q)
      PROVE  ReadIsResumable'
  <2>1. q.item \in Items
    BY RequestsAssumption DEF Reports, Marks
  <2>2. Resumable(rows[q.item].position, Runtime[q.item])
    BY <2>1, StoredIsResumable DEF IInv
  <2> QED
    BY <1>1, <2>2 DEF Receive, ReadIsResumable, Resumable
<1>2. CASE Load
  <2>1. /\ loop \in Handling /\ loop # None
        /\ loop'.read = loop.read /\ loop'.q = loop.q
    BY <1>2 DEF Load, Handling, IInv, TypeOK
  <2> QED
    BY <2>1 DEF ReadIsResumable, Resumable, IInv
<1>3. CASE Handler /\ ~Load
  BY <1>3 DEF ReadIsResumable, Handler, Start, Progress, Stopped, MarkPlayed,
       MarkUnplayed, SetFavourite, Refused, Answering
<1>4. CASE UNCHANGED loop
  BY <1>4 DEF ReadIsResumable, Resumable, IInv
<1> QED
  BY <1>1, <1>2, <1>3, <1>4
  DEF Next, vars, Sweep, Evict, BeginReap, List, ListingFails, Snapshot,
      Pop, Read, LoadStop, RecordStop, CommitFails, Tick

LEMMA StepInv == IInv /\ [Next]_vars => IInv'
BY StepTyped, StepStored, StepRead DEF IInv

\* The invariant holds of every behaviour.
THEOREM Invariance == Spec => []IInv
<1> QED
  BY InitInv, StepInv, PTL DEF Spec

\* Type correctness of the rows, the registry, the handler and the reaper.
THEOREM TypeCorrectness == Spec => []TypeOK
<1>1. IInv => TypeOK
  BY DEF IInv
<1> QED
  BY <1>1, Invariance, PTL

----------------------------------------------------------------------------
(***************************************************************************)
(* What the rows keep.                                                     *)
(***************************************************************************)

\* Whoever wrote it and from whatever was read, a stored position can be
\* resumed from (resolve and every writer of a row).
THEOREM StoredPositions == Spec => []StoredPositionIsResumable
<1>1. IInv => StoredPositionIsResumable
  BY DEF IInv
<1> QED
  BY <1>1, Invariance, PTL

\* If the row did not change between its two reads, the reaper's commit
\* changes nothing of it but its position, and may only add that the item was
\* played.
LEMMA RecordStopKeeps ==
  ASSUME IInv, RecordStop, sweep.read = sweep.base, NEW i \in Items
  PROVE  /\ rows'[i].is_favorite = rows[i].is_favorite
         /\ rows'[i].play_count = rows[i].play_count
         /\ rows[i].played => rows'[i].played
<1> DEFINE j == sweep.cur.item
           p == sweep.cur.position
           new == OnStop(sweep.read, p, Runtime[j])
<1>1. sweep.cur \in Stop /\ sweep.read \in Row
  BY DEF IInv, StopInHand, TypeOK, Reaper, RecordStop
<1>2. j \in Items /\ p \in Int /\ Runtime[j] \in Nat
  BY <1>1, NumbersAssumption DEF Stop
<1>3. /\ new \in Row /\ new.is_favorite = sweep.read.is_favorite
      /\ new.play_count = sweep.read.play_count
      /\ sweep.read.played => new.played
  BY <1>1, <1>2, StopEffect
<1>4. rows[j] \in Row /\ rows \in [Items -> Row]
  BY <1>2 DEF IInv, TypeOK
<1>5. rows' = [rows EXCEPT ![j] = Put(rows[j], sweep.read, new)]
  BY DEF RecordStop
<1> HIDE DEF j, new
<1>6. CASE i = j
  <2>1. rows'[i] = Put(rows[j], sweep.read, new)
    BY <1>2, <1>4, <1>5, <1>6
  <2>2. /\ rows'[i].is_favorite = rows[i].is_favorite
        /\ rows'[i].play_count = rows[i].play_count
        /\ rows'[i].played = IF new.played = sweep.read.played
                               THEN rows[i].played ELSE new.played
    BY <1>1, <1>3, <1>4, <1>6, <2>1, PutColumns
  <2>3. new.played \in BOOLEAN /\ sweep.read.played \in BOOLEAN
    BY <1>1, <1>3 DEF Row
  <2>4. rows[i].played => rows'[i].played
    BY <1>3, <2>2, <2>3
  <2> QED
    BY <2>2, <2>4
<1>7. CASE i # j
  BY <1>4, <1>5, <1>7
<1> QED
  BY <1>6, <1>7

\* The reaper undoes nothing but what a handler wrote between its two reads
\* of the row (record_stop through a mapper that writes the changed columns).
THEOREM ReaperKeepsTheRest == Spec => SweepKeepsTheRest
<1> DEFINE A == sweep' # sweep =>
       \A i \in Items :
         \/ /\ rows'[i].is_favorite = rows[i].is_favorite
            /\ rows'[i].play_count = rows[i].play_count
            /\ rows[i].played => rows'[i].played
         \/ sweep.read # sweep.base
<1>1. IInv /\ [Next]_vars => [A]_vars
  <2> SUFFICES ASSUME IInv, [Next]_vars
               PROVE  A
    OBVIOUS
  <2> QED
    BY RowsChange, RecordStopKeeps
<1> QED
  BY <1>1, Invariance, PTL DEF Spec, SweepKeepsTheRest

----------------------------------------------------------------------------
(***************************************************************************)
(* Played.                                                                 *)
(***************************************************************************)

\* Putting a row over the one that is there clears Played only where the row
\* it is compared with had it set and the new one has it cleared.
LEMMA PutOver ==
  ASSUME NEW now \in Row, NEW base \in Row, NEW new \in Row
  PROVE  now.played /\ ~Put(now, base, new).played
           => base.played /\ ~new.played
<1> DEFINE then == Put(now, base, new)
<1>1. then.played = IF new.played = base.played
                      THEN now.played ELSE new.played
  BY PutColumns
<1>2. {now.played, base.played, new.played} \subseteq BOOLEAN
  BY DEF Row
<1> HIDE DEF then
<1>3. CASE new.played = base.played
  <2>1. then.played = now.played
    BY <1>1, <1>3
  <2> QED
    BY <2>1, Zenon DEF then
<1>4. CASE new.played # base.played
  <2>1. then.played = new.played
    BY <1>1, <1>4
  <2>2. ~new.played => base.played
    BY <1>2, <1>4
  <2> QED
    BY <2>1, <2>2, Zenon DEF then
<1> QED
  BY <1>3, <1>4

\* A handler other than a start and an unmark clears Played only if the row it
\* started from is not the one it compared with.
LEMMA HandlerClears ==
  ASSUME IInv, Handler, NEW i \in Items, rows[i].played, ~rows'[i].played
  PROVE  \/ loop.q.kind \in {"start", "unplayed"}
         \/ loop.read # loop.base
<1> DEFINE j == loop.q.item
           read == loop.read
           base == loop.base
<1>1. loop # None /\ TypeOK
  BY DEF IInv, Handler, Load, Start, Progress, Stopped, MarkPlayed,
         MarkUnplayed, SetFavourite, Refused, Answering
<1>2. /\ read \in Row /\ j \in Items /\ rows[j] \in Row
      /\ Runtime[j] \in Nat /\ rows \in [Items -> Row]
      /\ Resumable(read.position, Runtime[j])
  BY <1>1, RequestFields, NumbersAssumption
  DEF TypeOK, IInv, ReadIsResumable
<1>3. ASSUME NEW new \in Row, Writes(new), read.played => new.played
      PROVE  read # base
  <2>1. rows' = [rows EXCEPT ![j] = Put(rows[j], base, new)] /\ base \in Row
    BY <1>1, <1>3, RequestFields DEF Writes
  <2>2. i = j
    BY <1>2, <2>1
  <2>3. rows[j].played /\ ~Put(rows[j], base, new).played
    <3>1. rows'[i] = Put(rows[j], base, new)
      BY <1>2, <2>1, <2>2
    <3> QED
      BY <2>2, <3>1, Zenon
  <2>4. base.played /\ ~new.played
    BY <1>2, <1>3, <2>1, <2>3, PutOver, Zenon
  <2> QED
    BY <1>3, <2>4, Zenon
<1>4. CASE Start \/ MarkUnplayed
  BY <1>4 DEF Start, MarkUnplayed, Answering
<1>5. CASE Progress
  <2>1. loop.q.kind = "progress"
    BY <1>5 DEF Progress, Answering
  <2>2. loop.q.position \in Int \union {None}
    BY <1>1, <2>1, RequestFields
  <2> DEFINE new == OnReport(read, loop.q.position, Runtime[j])
  <2>3. new \in Row /\ (read.played => new.played)
    BY <1>2, <2>2, ReportEffect
  <2> HIDE DEF new
  <2>4. Writes(new) \/ UNCHANGED rows
    BY <1>5 DEF Progress, new
  <2> QED
    BY <1>3, <2>3, <2>4
<1>6. CASE Stopped
  <2>1. loop.q.kind = "stopped"
    BY <1>6 DEF Stopped, Answering
  <2>2. loop.q.position \in Int \union {None}
    BY <1>1, <2>1, RequestFields
  <2> DEFINE new == OnStop(read, loop.q.position, Runtime[j])
  <2>3. new \in Row /\ (read.played => new.played)
    BY <1>2, <2>2, StopEffect
  <2> HIDE DEF new
  <2>4. Writes(new) \/ UNCHANGED rows
    BY <1>6 DEF Stopped, new
  <2> QED
    BY <1>3, <2>3, <2>4
<1>7. CASE MarkPlayed
  <2>1. loop.q.dated \in BOOLEAN
    BY <1>1, <1>7, RequestFields DEF MarkPlayed, Answering
  <2> DEFINE new == OnMarkPlayed(read, loop.q.dated)
  <2>2. new \in Row
    BY <1>2, <2>1, HandlerWrites DEF Written
  <2>3. DOMAIN read = {"stored", "is_favorite", "played", "play_count",
                       "position"}
    BY <1>2 DEF Row
  <2>4. new.played
    BY <2>3 DEF OnMarkPlayed
  <2> HIDE DEF new
  <2>5. Writes(new)
    BY <1>7 DEF MarkPlayed, new
  <2> QED
    BY <1>3, <2>2, <2>4, <2>5
<1>8. CASE SetFavourite
  <2>1. loop.q.on \in BOOLEAN
    BY <1>1, <1>8, RequestFields DEF SetFavourite, Answering
  <2> DEFINE new == [read EXCEPT !.is_favorite = loop.q.on]
  <2>2. new \in Row
    BY <1>2, <2>1, HandlerWrites DEF Written
  <2>3. new.played = read.played
    BY <1>2 DEF Row
  <2>4. Writes(new)
    BY <1>8 DEF SetFavourite
  <2> HIDE DEF new
  <2> QED
    BY <1>3, <2>2, <2>3, <2>4
<1>9. CASE Refused \/ Load
  BY <1>9 DEF Refused, Load
<1> QED
  BY <1>4, <1>5, <1>6, <1>7, <1>8, <1>9 DEF Handler

\* An item that was played stays so until it is started again or unmarked, or
\* a writer saw its row change (on_report only ever sets Played; on_start and
\* on_mark_unplayed clear it).
THEOREM PlayedStays == Spec => PlayedUntilStartedOrUnmarked
<1> DEFINE A == \A i \in Items :
       rows[i].played /\ ~rows'[i].played =>
         IF loop' # loop
           THEN \/ loop.q.kind \in {"start", "unplayed"}
                \/ loop.read # loop.base
           ELSE sweep.read # sweep.base
<1>1. IInv /\ [Next]_vars => [A]_vars
  <2> SUFFICES ASSUME IInv, [Next]_vars, NEW i \in Items,
                      rows[i].played, ~rows'[i].played
               PROVE  IF loop' # loop
                        THEN \/ loop.q.kind \in {"start", "unplayed"}
                             \/ loop.read # loop.base
                        ELSE sweep.read # sweep.base
    OBVIOUS
  <2>1. CASE Handler
    <3>1. UNCHANGED rows \/ loop' # loop
      BY <2>1 DEF Handler, Load, Start, Progress, Stopped, MarkPlayed,
           MarkUnplayed, SetFavourite, Refused, Answering
    <3> QED
      BY <2>1, <3>1, HandlerClears
  <2>2. CASE RecordStop
    <3>1. UNCHANGED loop
      BY <2>2 DEF RecordStop
    <3> QED
      BY <2>2, <3>1, RecordStopKeeps
  <2> QED
    BY <2>1, <2>2, RowsChange
<1> QED
  BY <1>1, Invariance, PTL DEF Spec, PlayedUntilStartedOrUnmarked

============================================================================
