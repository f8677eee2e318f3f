-------------------------- MODULE PlaybackReports --------------------------
(***************************************************************************)
(* One user's playback: the three playback reports and the marks           *)
(* (src/atrium/api/playstate.py, user_library.py), the registry of what    *)
(* each session is playing (src/atrium/users/playing.py), the stored row   *)
(* of each item, and the reaper that stops the sessions that went silent.  *)
(*                                                                         *)
(* The request handlers run one at a time on the event loop.  The reaper   *)
(* runs in a thread of its own, so its steps fall anywhere between theirs: *)
(* also inside a handler.  A row is read twice by whoever writes it: `get` *)
(* reads what the transition starts from, and `put` reads again what the   *)
(* mapper compares the new values with, because nothing keeps the first    *)
(* row alive.  A write and its commit are one step, because the database   *)
(* lets one writer in.                                                     *)
(*                                                                         *)
(* Time is counted in seconds and a film's position in ticks.              *)
(***************************************************************************)
EXTENDS Integers, FiniteSets

CONSTANTS
  Sessions,        \* the sessions of the user's devices
  Items,
  Runtime,         \* the runtime of an item in ticks, 0 when it is not known
  Requests,        \* the requests the clients may send
  TICKS_PER_SECOND,
  MIN_RESUME_PCT, MAX_RESUME_PCT, MIN_RESUME_DURATION_SECONDS,
  Silence,         \* how many seconds without a report make a session silent
  MayFail,         \* whether a commit of the reaper may fail
  MaxTime, MaxCount, \* bounds: the clock, and the plays of an item
  None

\* The bodies of the reports, and the calls that mark an item.
Reports ==
  [kind: {"start", "progress"}, s: Sessions, item: Items,
   position: Int \union {None}, paused: BOOLEAN]
  \union [kind: {"stopped"}, s: Sessions, item: Items,
          position: Nat \union {None}, failed: BOOLEAN]

Marks ==
  [kind: {"played"}, s: Sessions, item: Items, dated: BOOLEAN]
  \union [kind: {"unplayed"}, s: Sessions, item: Items]
  \union [kind: {"favorite"}, s: Sessions, item: Items, on: BOOLEAN]

ASSUME RequestsAssumption ==
  /\ Requests \subseteq Reports \union Marks
  /\ None \notin Int
  /\ IsFiniteSet(Sessions)

ASSUME NumbersAssumption ==
  /\ Runtime \in [Items -> Nat]
  /\ {TICKS_PER_SECOND, Silence, MaxTime, MaxCount} \subseteq Nat
  /\ {MIN_RESUME_PCT, MAX_RESUME_PCT, MIN_RESUME_DURATION_SECONDS}
       \subseteq Nat
  /\ MayFail \in BOOLEAN

VARIABLES
  rows,     \* the user's row of each item
  playing,  \* NowPlayingRegistry._playing: the last report of each session
  known,    \* the sessions that have a row: the others were evicted
  loop,     \* the request being handled, and the rows it has read
  sweep,    \* the reaper
  clock

vars == <<rows, playing, known, loop, sweep, clock>>

----------------------------------------------------------------------------
Row == [stored: BOOLEAN, is_favorite: BOOLEAN, played: BOOLEAN,
        play_count: Nat, position: Int]

Playing == [item: Items, position: Int, paused: BOOLEAN, at: Nat]

Stop == [s: Sessions, item: Items, position: Int]

Handling == [q: Requests, read: Row, base: Row \union {None}]

Reaper == [pc: {"idle", "listing", "clearing", "popping", "committing",
                "putting", "writing"},
           size: Nat, cutoff: Int, stale: SUBSET Sessions,
           reaped: SUBSET Stop, cur: Stop \union {None},
           read: Row, base: Row]

\* A user who has never touched an item has no row and reads as the defaults.
NoRow == [stored |-> FALSE, is_favorite |-> FALSE, played |-> FALSE,
          play_count |-> 0, position |-> 0]

Resting == [pc |-> "idle", size |-> 0, cutoff |-> 0, stale |-> {},
            reaped |-> {}, cur |-> None, read |-> NoRow, base |-> NoRow]

----------------------------------------------------------------------------
(***************************************************************************)
(* The transitions of a row.                                               *)
(***************************************************************************)
\* Two answers instead of three: what is too short to resume is kept.
ResolveTwoWays(p, runtime) ==
  IF \/ p = None \/ runtime = 0
     \/ p * 100 > runtime * MAX_RESUME_PCT
     \/ runtime - p <= TICKS_PER_SECOND
     \/ runtime < MIN_RESUME_DURATION_SECONDS * TICKS_PER_SECOND
    THEN "completed"
  ELSE "resumable"

Resolve(p, runtime) ==
  IF p = None \/ runtime = 0 THEN "completed"
  ELSE IF p * 100 < runtime * MIN_RESUME_PCT THEN "discarded"
  ELSE IF \/ p * 100 > runtime * MAX_RESUME_PCT
          \/ runtime - p <= TICKS_PER_SECOND
          \/ runtime < MIN_RESUME_DURATION_SECONDS * TICKS_PER_SECOND
    THEN "completed"
  ELSE "resumable"

OnStart(row) == [row EXCEPT !.played = FALSE, !.play_count = @ + 1]

\* A report that decides Played either way.
OnReportDecisive(row, p, runtime) ==
  LET outcome == Resolve(p, runtime) IN
    [row EXCEPT !.played = outcome = "completed",
                !.position = IF outcome = "resumable" THEN p ELSE 0]

OnReport(row, p, runtime) ==
  LET outcome == Resolve(p, runtime) IN
    [row EXCEPT !.played = @ \/ outcome = "completed",
                !.position = IF outcome = "resumable" THEN p ELSE 0]

OnStopWithoutPosition(row) ==
  [row EXCEPT !.played = TRUE, !.play_count = @ + 1, !.position = 0]

OnStop(row, p, runtime) ==
  IF p = None THEN OnStopWithoutPosition(row) ELSE OnReport(row, p, runtime)

OnMarkPlayed(row, dated) ==
  [row EXCEPT !.played = TRUE,
              !.play_count = IF dated \/ @ = 0 THEN @ + 1 ELSE @,
              !.position = 0]

OnMarkUnplayed(row) ==
  [row EXCEPT !.played = FALSE, !.play_count = 0, !.position = 0]

\* A write of every column.
PutWhole(now, base, new) == [new EXCEPT !.stored = TRUE]

\* The mapper writes the columns that differ from the row `put` has loaded.
Put(now, base, new) ==
  [c \in DOMAIN now |-> IF c = "stored" THEN TRUE
                        ELSE IF new[c] = base[c] THEN now[c] ELSE new[c]]

\* Two inserts of one row: the second breaks the primary key.
Conflict(now, base) == now.stored /\ ~base.stored

----------------------------------------------------------------------------
(***************************************************************************)
(* The registry.                                                           *)
(***************************************************************************)
Live == {s \in Sessions : playing[s] # None}

Extrapolated(held) ==
  LET moved == held.position + (IF held.paused THEN 0
                       ELSE (clock - held.at) * TICKS_PER_SECOND)
      runtime == Runtime[held.item]
  IN  IF runtime # 0 /\ runtime < moved THEN runtime ELSE moved

\* A report without a position that is kept without one.
UpdateRaw(q) ==
  playing' = [playing EXCEPT ![q.s] =
    [item |-> q.item, paused |-> q.paused, at |-> clock,
     position |-> q.position]]

\* A report replaces the record of its session whole.
Update(q) ==
  playing' = [playing EXCEPT ![q.s] =
    [item |-> q.item, paused |-> q.paused, at |-> clock,
     position |-> IF q.position = None THEN 0 ELSE q.position]]

----------------------------------------------------------------------------
Init ==
  /\ rows = [i \in Items |-> NoRow]
  /\ playing = [s \in Sessions |-> None]
  /\ known = Sessions
  /\ loop = None
  /\ sweep = Resting
  /\ clock = 0

(***************************************************************************)
(* The handlers.  A request is received and its row read; `put` reads it   *)
(* again; then the write is committed and the registry told.               *)
(***************************************************************************)
Receive(q) ==
  /\ loop = None
  /\ q.s \in known
  /\ \/ rows[q.item].play_count < MaxCount
     \/ q.kind \in {"progress", "unplayed", "favorite"}
  /\ loop' = [q |-> q, read |-> rows[q.item], base |-> None]
  /\ UNCHANGED <<rows, playing, known, sweep, clock>>

\* A progress without a position and a stop that failed write nothing.
WritesNothing(q) ==
  \/ q.kind = "progress" /\ q.position = None
  \/ q.kind = "stopped" /\ q.failed

Load ==
  /\ loop # None
  /\ loop.base = None
  /\ ~WritesNothing(loop.q)
  /\ loop' = [loop EXCEPT !.base = rows[loop.q.item]]
  /\ UNCHANGED <<rows, playing, known, sweep, clock>>

Answering(kind) ==
  /\ loop # None
  /\ loop.q.kind = kind
  /\ loop' = None
  /\ UNCHANGED <<known, sweep, clock>>

Writes(new) ==
  /\ loop.base # None
  /\ ~Conflict(rows[loop.q.item], loop.base)
  /\ rows' = [rows EXCEPT ![loop.q.item] = Put(@, loop.base, new)]

Start ==
  /\ Answering("start")
  /\ Writes(OnStart(loop.read))
  /\ Update(loop.q)

\* Without a position the stored one is left alone.
Progress ==
  /\ Answering("progress")
  /\ \/ WritesNothing(loop.q) /\ UNCHANGED rows
     \/ /\ ~WritesNothing(loop.q)
        /\ Writes(OnReport(loop.read, loop.q.position, Runtime[loop.q.item]))
  /\ Update(loop.q)

\* A stop that failed, or of an item the user cannot see, writes nothing.
Stopped ==
  /\ Answering("stopped")
  /\ \/ WritesNothing(loop.q) /\ UNCHANGED rows
     \/ /\ ~WritesNothing(loop.q)
        /\ Writes(OnStop(loop.read, loop.q.position, Runtime[loop.q.item]))
  /\ playing' = [playing EXCEPT ![loop.q.s] = None]

MarkPlayed ==
  /\ Answering("played")
  /\ Writes(OnMarkPlayed(loop.read, loop.q.dated))
  /\ UNCHANGED playing

MarkUnplayed ==
  /\ Answering("unplayed")
  /\ Writes(OnMarkUnplayed(loop.read))
  /\ UNCHANGED playing

SetFavourite ==
  /\ Answering("favorite")
  /\ Writes([loop.read EXCEPT !.is_favorite = loop.q.on])
  /\ UNCHANGED playing

\* The write was refused: the handler answers 500 before it has touched the
\* registry.
Refused ==
  /\ loop # None
  /\ loop.base # None
  /\ Conflict(rows[loop.q.item], loop.base)
  /\ loop' = None
  /\ UNCHANGED <<rows, playing, known, sweep, clock>>

\* A login on another device takes the session over the user's cap.
Evict(s) ==
  /\ loop = None
  /\ known' = known \ {s}
  /\ UNCHANGED <<rows, playing, loop, sweep, clock>>

----------------------------------------------------------------------------
(***************************************************************************)
(* The reaper: it lists the sessions that are silent, takes each out of    *)
(* the registry, and then commits their stops one by one.                  *)
(***************************************************************************)
Advance(w) ==
  IF w.stale # {} THEN [w EXCEPT !.pc = "clearing"]
  ELSE IF w.reaped # {} THEN [w EXCEPT !.pc = "committing", !.cur = None]
  ELSE Resting

BeginReap ==
  /\ sweep.pc = "idle"
  /\ sweep' = [Resting EXCEPT !.pc = "listing", !.size = Cardinality(Live),
                              !.cutoff = clock - Silence]
  /\ UNCHANGED <<rows, playing, known, loop, clock>>

\* A pass that leaves the paused sessions alone.
ListUnpaused ==
  /\ sweep.pc = "listing"
  /\ Cardinality(Live) = sweep.size
  /\ sweep' = Advance([Resting EXCEPT
       !.stale = {s \in Live : playing[s].at <= sweep.cutoff
                               /\ ~playing[s].paused}])
  /\ UNCHANGED <<rows, playing, known, loop, clock>>

List ==
  /\ sweep.pc = "listing"
  /\ Cardinality(Live) = sweep.size
  /\ sweep' = Advance([Resting EXCEPT
       !.stale = {s \in Live : playing[s].at <= sweep.cutoff}])
  /\ UNCHANGED <<rows, playing, known, loop, clock>>

\* "dictionary changed size during iteration": logged, and tried again at the
\* next interval.
ListingFails ==
  /\ sweep.pc = "listing"
  /\ Cardinality(Live) # sweep.size
  /\ sweep' = Resting
  /\ UNCHANGED <<rows, playing, known, loop, clock>>

\* A session that stopped by itself since it was listed leaves no snapshot.
Snapshot(s) ==
  /\ sweep.pc = "clearing"
  /\ s \in sweep.stale
  /\ sweep' =
       IF playing[s] = None
         THEN Advance([sweep EXCEPT !.stale = @ \ {s}])
         ELSE [sweep EXCEPT !.pc = "popping",
                 !.cur = [s |-> s, item |-> playing[s].item,
                          position |-> Extrapolated(playing[s])]]
  /\ UNCHANGED <<rows, playing, known, loop, clock>>

Pop ==
  /\ sweep.pc = "popping"
  /\ playing' = [playing EXCEPT ![sweep.cur.s] = None]
  /\ sweep' = Advance([sweep EXCEPT !.stale = @ \ {sweep.cur.s},
                                    !.reaped = @ \union {sweep.cur}])
  /\ UNCHANGED <<rows, known, loop, clock>>

\* commit_reaped drops the stop of a session whose row is gone.
Read(r) ==
  /\ sweep.pc = "committing"
  /\ r \in sweep.reaped
  /\ sweep' =
       IF r.s \notin known
         THEN Advance([sweep EXCEPT !.reaped = @ \ {r}])
         ELSE [sweep EXCEPT !.pc = "putting", !.cur = r,
                            !.read = rows[r.item]]
  /\ UNCHANGED <<rows, playing, known, loop, clock>>

LoadStop ==
  /\ sweep.pc = "putting"
  /\ sweep' = [sweep EXCEPT !.pc = "writing", !.base = rows[sweep.cur.item]]
  /\ UNCHANGED <<rows, playing, known, loop, clock>>

RecordStop ==
  LET i == sweep.cur.item IN
  /\ sweep.pc = "writing"
  /\ ~Conflict(rows[i], sweep.base)
  /\ rows' = [rows EXCEPT ![i] =
       Put(@, sweep.base, OnStop(sweep.read, sweep.cur.position, Runtime[i]))]
  /\ sweep' = Advance([sweep EXCEPT !.reaped = @ \ {sweep.cur},
                                    !.read = NoRow, !.base = NoRow])
  /\ UNCHANGED <<playing, known, loop, clock>>

\* An error of the database ends the pass.
CommitFails ==
  /\ sweep.pc = "writing"
  /\ MayFail \/ Conflict(rows[sweep.cur.item], sweep.base)
  /\ sweep' = Resting
  /\ UNCHANGED <<rows, playing, known, loop, clock>>

Tick ==
  /\ clock < MaxTime
  /\ clock' = clock + 1
  /\ UNCHANGED <<rows, playing, known, loop, sweep>>

----------------------------------------------------------------------------
Handler ==
  \/ Load \/ Start \/ Progress \/ Stopped
  \/ MarkPlayed \/ MarkUnplayed \/ SetFavourite \/ Refused

Sweep ==
  \/ BeginReap \/ List \/ ListingFails \/ Pop
  \/ LoadStop \/ RecordStop \/ CommitFails
  \/ \E s \in sweep.stale : Snapshot(s)
  \/ \E r \in sweep.reaped : Read(r)

Next ==
  \/ \E q \in Requests : Receive(q)
  \/ Handler
  \/ \E s \in known : Evict(s)
  \/ Sweep
  \/ Tick

Spec == Init /\ [][Next]_vars

\* The event loop finishes the handler it is in, the reaper's thread runs,
\* and time passes.  A pass lists in microseconds every five minutes, so not
\* every pass can meet a dictionary that is changing.
Fairness ==
  WF_vars(Handler) /\ WF_vars(Sweep) /\ SF_vars(List) /\ WF_vars(Tick)

FairSpec == Spec /\ Fairness

----------------------------------------------------------------------------
(***************************************************************************)
(* Properties.                                                             *)
(***************************************************************************)

\* Every variable holds what its record type says.
TypeOK ==
  /\ rows \in [Items -> Row]
  /\ playing \in [Sessions -> Playing \union {None}]
  /\ known \subseteq Sessions
  /\ loop \in Handling \union {None}
  /\ sweep \in Reaper
  /\ clock \in Nat

\* Whoever wrote it last, and from whatever it had read, a row holds a
\* position only where a client may resume: between the two percentages,
\* more than a second from the end, in an item long enough.
StoredPositionIsResumable ==
  \A i \in Items :
    LET p == rows[i].position
        runtime == Runtime[i]
    IN  p # 0 =>
          /\ p * 100 >= runtime * MIN_RESUME_PCT
          /\ p * 100 <= runtime * MAX_RESUME_PCT
          /\ runtime - p > TICKS_PER_SECOND
          /\ runtime >= MIN_RESUME_DURATION_SECONDS * TICKS_PER_SECOND

\* The reaper's stop leaves the favourite and the count as they are, and an
\* item played stays so.  What it can undo is only what a handler wrote
\* between its two reads of the row: what comes later stays.
SweepKeepsTheRest ==
  [][sweep' # sweep =>
       \A i \in Items :
         \/ /\ rows'[i].is_favorite = rows[i].is_favorite
            /\ rows'[i].play_count = rows[i].play_count
            /\ rows[i].played => rows'[i].played
         \/ sweep.read # sweep.base]_vars

\* An item that was played stays so until playback of it starts or it is
\* marked unplayed, unless whoever writes the row saw it change between the
\* read that decided and the read that is compared.
PlayedUntilStartedOrUnmarked ==
  [][\A i \in Items :
       rows[i].played /\ ~rows'[i].played =>
         IF loop' # loop
           THEN \/ loop.q.kind \in {"start", "unplayed"}
                \/ loop.read # loop.base
           ELSE sweep.read # sweep.base]_vars

\* A session that stays silent past the threshold stops being shown as
\* playing, whatever happens to the passes of the reaper.
SilentSessionsEnd ==
  \A s \in Sessions, t \in 0 .. MaxTime - Silence :
    (playing[s] # None /\ playing[s].at = t)
      ~> (playing[s] = None \/ playing[s].at # t)

\* "`played` is only ever set, never cleared" by a report with a position and
\* by a stop, whoever makes it.
ReportsOnlySetPlayed ==
  [][\A i \in Items :
       rows[i].played /\ ~rows'[i].played =>
         loop' # loop /\ loop.q.kind \in {"start", "unplayed"}]_vars

============================================================================
