------------------------- MODULE TranscodeSessions -------------------------
(***************************************************************************)
(* The transcode manager (src/atrium/media/sessions.py), the production    *)
(* ledger under it (src/atrium/media/ffmpeg.py), the encoders they start,  *)
(* and the part of the server's lifespan that ends them.                   *)
(*                                                                         *)
(* Everything in the server runs on one event loop, so an action is what   *)
(* one coroutine does between two awaits; where the code reaches no await  *)
(* because there is nothing to wait for, the model may still let others    *)
(* run, which only adds behaviours.  An encoder is a process of its own    *)
(* and takes its steps at any time.                                        *)
(*                                                                         *)
(* A session is named by the request that created it and an encoder by the *)
(* request that started it: a request creates at most one session object   *)
(* and starts at most one encoder.  Positions in the film are counted in   *)
(* segments: index n starts at n and ends at n + 1.                        *)
(***************************************************************************)
EXTENDS Integers, FiniteSets

CONSTANTS
  Requests,        \* segment requests: GET .../hls1/{playlist}/{segment}
  Stops,           \* stop requests: DELETE /Videos/ActiveEncodings
  Sweeper,         \* the manager's own task, TranscodeManager.run
  Keys,            \* session keys; each has one scratch directory
  Plays,           \* play session ids
  PlayOf,          \* the play session a key belongs to
  LastIndex,       \* the last segment of the film
  Fmp4,            \* whether an initialisation segment (-1) is produced
  Allowed,         \* segments of read-ahead an encoder is left alone for
  Throttling, Gap,       \* throttling on, and the lead at which it pauses
  SegmentDeletion, Keep, \* deletion on, and the window it keeps
  MayCrash,        \* whether an encoder may die on its own
  None

First == IF Fmp4 THEN -1 ELSE 0
Index == First .. LastIndex
NoIndex == -2

ASSUME NamesAssumption ==
  /\ None \notin Requests
  /\ Sweeper \notin Stops
  /\ PlayOf \in [Keys -> Plays]

ASSUME NumbersAssumption ==
  /\ LastIndex \in Nat
  /\ Allowed \in Nat \ {0}
  /\ Gap \in Nat \ {0}
  /\ Keep \in Nat \ {0}
  /\ {Fmp4, Throttling, SegmentDeletion, MayCrash} \subseteq BOOLEAN

VARIABLES
  sessions,  \* TranscodeManager._sessions: the session object of each key
  ses,       \* the session objects, reachable from the dictionary or not
  req,       \* the segment requests
  enc,       \* the encoder processes
  ledger,    \* ProductionLedger.live
  disk,      \* the scratch directory of each key
  killer,    \* the stop requests and the sweeper
  stage      \* the lifespan: serving, then its shutdown

vars == <<sessions, ses, req, enc, ledger, disk, killer, stage>>

----------------------------------------------------------------------------
(***************************************************************************)
(* Records.                                                                *)
(***************************************************************************)
Killers == Stops \union {Sweeper}

Outcomes == {"whole", "partial", "missing", "failed"}
InBegin == {"halting", "starting"}
Waiting == {"locking", "settling", "reaping"} \union InBegin

Request == [pc: {"new"} \union Waiting \union Outcomes,
            s: Requests \union {None}, \* the session obtained
            n: Index,                  \* the segment asked for
            e: Requests \union {None}, \* the encoder whose end is awaited
            saw: BOOLEAN]              \* what was read before that await

Session == [key: Keys \union {None}, run: Requests \union {None},
            lock: Requests \union {None}, fresh: BOOLEAN,
            down: 0 .. LastIndex + 1, from: 0 .. LastIndex]

\* "gone" is a process that has ended and whose end the event loop has not
\* seen: Process.returncode is still None.
Encoder == [st: {"none", "live", "paused", "gone", "reaped"},
            at: Index, open: BOOLEAN]

File == [n: Index, by: Requests, whole: BOOLEAN]

\* newer orders the files by modification time: the second of a pair is the
\* more recent.
Directory == [made: BOOLEAN, files: SUBSET File,
              newer: SUBSET (Index \X Index)]

Killer == [pc: {"idle", "discarding", "done"}, todo: SUBSET Requests,
           cur: Requests \union {None}, e: Requests \union {None}]

NoDirectory == [made |-> FALSE, files |-> {}, newer |-> {}]

Running == {"live", "paused"}

----------------------------------------------------------------------------
(***************************************************************************)
(* What the manager reads off a scratch directory.                         *)
(***************************************************************************)
Exists(d, n) == \E f \in d.files : f.n = n

Outcome(d, n) ==
  IF ~Exists(d, n) THEN "missing"
  ELSE IF \E f \in d.files : f.n = n /\ f.whole THEN "whole" ELSE "partial"

Newest(d) ==
  IF d.files = {} THEN NoIndex
  ELSE (CHOOSE f \in d.files :
          \A g \in d.files \ {f} : <<g.n, f.n>> \in d.newer).n

Unlink(d, R) ==
  [d EXCEPT !.files = {f \in @ : f.n \notin R},
            !.newer = {p \in @ : p[1] \notin R /\ p[2] \notin R}]

\* A write to segment n makes it the newest.
Touch(d, n) ==
  [d EXCEPT !.newer = {p \in @ : p[1] # n} \union
                      {<<f.n, n>> : f \in {g \in d.files : g.n # n}}]

Open(d, n, e) ==
  Touch([d EXCEPT !.files = {f \in @ : f.n # n} \union
                            {[n |-> n, by |-> e, whole |-> FALSE]}], n)

Close(d, n, e) ==
  [d EXCEPT !.files =
     {IF f.n = n /\ f.by = e THEN [f EXCEPT !.whole = TRUE] ELSE f : f \in @}]

Dir(s) == disk[ses[s].key]

\* Mistake: an encoder that has ended still counts as producing.
ProducingUntilHalted(s) == ses[s].run # None

Producing(s) == ses[s].run # None /\ enc[ses[s].run].st # "reaped"

ProducingIndex(s) == IF Producing(s) THEN Newest(Dir(s)) ELSE NoIndex

\* Mistake: one segment too many.
ProducedAhead(s) ==
  IF ProducingIndex(s) = NoIndex THEN ses[s].from ELSE ProducingIndex(s) + 2

\* How far into the film the session's encoder has come.
Produced(s) ==
  IF ProducingIndex(s) = NoIndex THEN ses[s].from ELSE ProducingIndex(s) + 1

\* Mistake: the positions of all requests are added up.
FurthestSummed(s, n) == ses[s].down + n + 1

\* Mistake: only the first request moves it.
FurthestFirst(s, n) == IF ses[s].down > 0 THEN ses[s].down ELSE n + 1

\* The end of the furthest segment the client has asked for.
Furthest(s, n) == IF n + 1 > ses[s].down THEN n + 1 ELSE ses[s].down

\* Mistake: the file being written counts as past.
PastOrWriting(d, n) == Exists(d, n + 1) \/ n <= Newest(d)

\* What tells a finished file from one still being written: the next file
\* exists, or the encoder is on a later one.
Past(d, n) == Exists(d, n + 1) \/ n < Newest(d)

Restarts(n, current) ==
  \/ n = -1 \/ current = NoIndex
  \/ n < current
  \/ n - current > Allowed

----------------------------------------------------------------------------
(***************************************************************************)
(* What it does to processes.  Signals reach only a process that runs.     *)
(***************************************************************************)

\* Production.stop, up to its wait for the end: SIGKILL, paused or not.
Kill(E, e) ==
  IF e # None /\ E[e].st \in Running THEN [E EXCEPT ![e].st = "gone"] ELSE E

\* _throttle on the sessions SS, once S holds their download positions.
Throttle(S, SS) ==
  [e \in Requests |->
     IF enc[e].st \in Running /\ req[e].s \in SS /\ S[req[e].s].run = e
     THEN [enc[e] EXCEPT
             !.st = IF Throttling /\
                       Produced(req[e].s) - S[req[e].s].down >= Gap
                    THEN "paused" ELSE "live"]
     ELSE enc[e]]

\* _delete_behind on one session's directory; the initialisation segment is
\* not a position in the film and stays.
DeleteBehind(d, down) ==
  IF SegmentDeletion /\ down > Keep THEN Unlink(d, 0 .. down - Keep) ELSE d

----------------------------------------------------------------------------
Init ==
  /\ sessions = [k \in Keys |-> None]
  /\ ses = [s \in Requests |-> [key |-> None, run |-> None, lock |-> None,
                                fresh |-> FALSE, down |-> 0, from |-> 0]]
  /\ req = [r \in Requests |-> [pc |-> "new", s |-> None, n |-> 0,
                                e |-> None, saw |-> FALSE]]
  /\ enc = [e \in Requests |-> [st |-> "none", at |-> 0, open |-> FALSE]]
  /\ ledger = {}
  /\ disk = [k \in Keys |-> NoDirectory]
  /\ killer = [c \in Killers |-> [pc |-> "idle", todo |-> {},
                                  cur |-> None, e |-> None]]
  /\ stage = "serving"

----------------------------------------------------------------------------
(***************************************************************************)
(* A segment request.                                                      *)
(***************************************************************************)

\* _begin once no encoder is in its way, up to the await of the new one: make
\* the directory d and launch this request's own encoder, which runs before it
\* is recorded anywhere.  Where there is none to launch (no ffmpeg, no memory)
\* the error leaves the lock and answers 500.  S and E are the sessions and
\* the encoders as the step has changed them so far.
Launch(r, s, n, S, E, d) ==
  LET from == IF n < 0 THEN 0 ELSE n
  IN  /\ disk' = [disk EXCEPT ![S[s].key] = [d EXCEPT !.made = TRUE]]
      /\ \/ /\ ses' = [S EXCEPT ![s].from = from, ![s].lock = r]
            /\ enc' = [E EXCEPT ![r] = [st |-> "live", open |-> FALSE,
                                        at |-> IF Fmp4 THEN -1 ELSE from]]
            /\ req' = [req EXCEPT ![r] = [pc |-> "starting", s |-> s, n |-> n,
                                          e |-> None, saw |-> FALSE]]
         \/ /\ MayCrash
            /\ ses' = [S EXCEPT ![s].from = from, ![s].lock = None]
            /\ enc' = E
            /\ req' = [req EXCEPT ![r] = [pc |-> "failed", s |-> s, n |-> n,
                                          e |-> None, saw |-> FALSE]]

\* Mistake: an encoder that has written no file yet is not halted.
HaltedIfWriting(s) ==
  IF ProducingIndex(s) = NoIndex THEN None ELSE ses[s].run

\* The encoder _begin halts before it launches its own.
Halted(s) == ses[s].run

Unlocked(s) == ses[s].lock = None

\* _begin from its start: nothing to do if the encoder is on its way here,
\* else halt it, which is awaited, or launch at once if there is none.
Begin(r, s, n, S, E) ==
  LET current == ProducingIndex(s)
      old == Halted(s)
  IN  IF ~Restarts(n, current)
      THEN /\ ses' = S /\ enc' = E
           /\ req' = [req EXCEPT ![r] = [pc |-> "settling", s |-> s, n |-> n,
                                         e |-> None, saw |-> FALSE]]
           /\ UNCHANGED <<ledger, disk>>
      ELSE IF old = None
      THEN /\ Launch(r, s, n, S, E, disk[S[s].key])
           /\ UNCHANGED ledger
      ELSE /\ ses' = [S EXCEPT ![s].lock = r, ![s].run = None]
           /\ enc' = Kill(E, old)
           /\ ledger' = ledger \ {old}
           /\ req' = [req EXCEPT ![r] = [pc |-> "halting", s |-> s, n |-> n,
                                         e |-> old, saw |-> current # NoIndex]]
           /\ UNCHANGED disk

\* obtain, then segment up to its first await: the ping, the download
\* position, the throttle, the look at the file, and _begin if it is not
\* there and nobody has the lock or waits for it.
Segment(r) ==
  /\ stage = "serving" /\ req[r].pc = "new"
  /\ \E k \in Keys, n \in Index :
       LET s == IF sessions[k] = None THEN r ELSE sessions[k]
           S == [ses EXCEPT ![s].key = k, ![s].fresh = TRUE,
                            ![s].down = Furthest(s, n)]
           E == Throttle(S, {s})
           free == /\ Unlocked(s)
                   /\ \A q \in Requests :
                        req[q].pc = "locking" => req[q].s # s
       IN  /\ sessions' = [sessions EXCEPT ![k] = s]
           /\ IF Exists(disk[k], n) \/ ~free
              THEN /\ ses' = S /\ enc' = E
                   /\ req' = [req EXCEPT ![r] =
                        [pc |-> IF Exists(disk[k], n) THEN "settling"
                                                      ELSE "locking",
                         s |-> s, n |-> n, e |-> None, saw |-> FALSE]]
                   /\ UNCHANGED <<ledger, disk>>
              ELSE Begin(r, s, n, S, E)
  /\ UNCHANGED <<killer, stage>>

\* The lock is free: look again, and begin.
Enter(r) ==
  LET s == req[r].s
  IN  /\ req[r].pc = "locking" /\ Unlocked(s)
      /\ IF Exists(Dir(s), req[r].n)
         THEN /\ req' = [req EXCEPT ![r].pc = "settling"]
              /\ UNCHANGED <<ses, enc, ledger, disk>>
         ELSE Begin(r, s, req[r].n, ses, enc)
      /\ UNCHANGED <<sessions, killer, stage>>

Finished(e) == e # None => enc[e].st = "reaped"

\* The old encoder is gone: drop the newest file, taken for the one it was
\* writing, and launch.
Spawn(r) ==
  LET d == Dir(req[r].s)
  IN  /\ req[r].pc = "halting" /\ Finished(req[r].e)
      /\ Launch(r, req[r].s, req[r].n, ses, enc,
                IF req[r].saw THEN Unlink(d, {Newest(d)}) ELSE d)
      /\ UNCHANGED <<sessions, ledger, killer, stage>>

\* ProductionLedger.start returns: the encoder is listed and is the session's.
Started(r) ==
  /\ req[r].pc = "starting"
  /\ ledger' = ledger \union {r}
  /\ ses' = [ses EXCEPT ![req[r].s].run = r, ![req[r].s].lock = None]
  /\ req' = [req EXCEPT ![r].pc = "settling"]
  /\ UNCHANGED <<sessions, enc, disk, killer, stage>>

\* One turn of _settled's loop.  While production goes on, a segment is
\* finished when the next file exists or the encoder is past it.
SettledWhileProducing(r) ==
  LET s == req[r].s
      n == req[r].n
      d == Dir(s)
  IN  /\ req[r].pc = "settling" /\ Producing(s)
      /\ Exists(d, n) /\ Past(d, n)
      /\ req' = [req EXCEPT ![r].pc = Outcome(d, n)]
      /\ UNCHANGED <<sessions, ses, enc, ledger, disk, killer, stage>>

\* Production has stopped: the ended encoder, if the session still has it, is
\* taken off the ledger first, and that is awaited.
SettledAfterProduction(r) ==
  LET s == req[r].s
  IN  /\ req[r].pc = "settling" /\ ~Producing(s)
      /\ IF ses[s].run = None
         THEN /\ req' = [req EXCEPT ![r].pc =
                           IF Exists(Dir(s), req[r].n)
                           THEN Outcome(Dir(s), req[r].n) ELSE "failed"]
              /\ UNCHANGED <<ses, ledger>>
         ELSE /\ req' = [req EXCEPT ![r].pc = "reaping", ![r].e = ses[s].run,
                                    ![r].saw = Exists(Dir(s), req[r].n)]
              /\ ses' = [ses EXCEPT ![s].run = None]
              /\ ledger' = ledger \ {ses[s].run}
      /\ UNCHANGED <<sessions, enc, disk, killer, stage>>

\* Back from that await: a file seen before it is handed out without another
\* look, and a file that was not there is looked for once more.
Reaped(r) ==
  LET d == Dir(req[r].s)
      n == req[r].n
  IN  /\ req[r].pc = "reaping" /\ Finished(req[r].e)
      /\ req' = [req EXCEPT
                   ![r].pc = IF req[r].saw \/ Exists(d, n)
                             THEN Outcome(d, n) ELSE "failed",
                   ![r].e = None, ![r].saw = FALSE]
      /\ UNCHANGED <<sessions, ses, enc, ledger, disk, killer, stage>>

----------------------------------------------------------------------------
(***************************************************************************)
(* The kill paths.                                                         *)
(***************************************************************************)
InUse == {sessions[k] : k \in Keys} \ {None}

\* The sessions in todo are discarded one after the other.  Those in gone have
\* no encoder left: whatever session their key has now leaves the dictionary,
\* with whatever is in its directory.  So do those that never had one (idle);
\* the next that has one is halted, and its end awaited.  When none is left a
\* stop answers, and a sweep applies the policy to the sessions that remain.
DiscardNext(c, todo, gone) ==
  \E s \in todo, idle \in SUBSET {x \in todo : ses[x].run = None} :
    LET keys == {ses[x].key : x \in gone \union idle}
    IN  /\ ses[s].run # None
        /\ killer' = [killer EXCEPT ![c] =
             [pc |-> "discarding", todo |-> todo \ (idle \union {s}),
              cur |-> s, e |-> ses[s].run]]
        /\ ses' = [ses EXCEPT ![s].run = None]
        /\ ledger' = ledger \ {ses[s].run}
        /\ enc' = Kill(enc, ses[s].run)
        /\ sessions' = [k \in Keys |-> IF k \in keys THEN None ELSE sessions[k]]
        /\ disk' = [k \in Keys |-> IF k \in keys THEN NoDirectory ELSE disk[k]]

\* None of them has an encoder any more: the sweeper goes on to those that are left.
DiscardRest(c, todo, gone) ==
  LET keys == {ses[x].key : x \in gone \union todo}
      left == [k \in Keys |-> IF k \in keys THEN None ELSE sessions[k]]
      kept == {left[k] : k \in Keys} \ {None}
  IN  /\ \A x \in todo : ses[x].run = None
      /\ killer' = [killer EXCEPT ![c] =
           [pc |-> IF c = Sweeper THEN "idle" ELSE "done",
            todo |-> {}, cur |-> None, e |-> None]]
      /\ sessions' = left
      /\ enc' = IF c = Sweeper THEN Throttle(ses, kept) ELSE enc
      /\ disk' = [k \in Keys |->
           IF k \in keys THEN NoDirectory
           ELSE IF c = Sweeper /\ left[k] # None
           THEN DeleteBehind(disk[k], ses[left[k]].down)
           ELSE disk[k]]
      /\ UNCHANGED <<ses, ledger>>

Discard(c, todo, gone) == DiscardNext(c, todo, gone) \/ DiscardRest(c, todo, gone)

\* stop: the sessions of the play session named, listed before any await.
Stop(c) ==
  /\ stage = "serving" /\ killer[c].pc = "idle"
  /\ \E p \in Plays :
       Discard(c, {s \in InUse : PlayOf[ses[s].key] = p}, {})
  /\ UNCHANGED <<req, stage>>

\* Mistake: a session whose encoder has ended is left alone.
StaleAndProducing == {s \in InUse : ~ses[s].fresh /\ Producing(s)}

Stale == {s \in InUse : ~ses[s].fresh}

\* sweep: the sessions nobody has pinged for a timeout, listed likewise.
Sweep ==
  /\ killer[Sweeper].pc = "idle"
  /\ Discard(Sweeper, Stale, {})
  /\ UNCHANGED <<req, stage>>

\* The encoder whose end one of them awaited has been reaped.
Discarded(c) ==
  /\ killer[c].pc = "discarding" /\ Finished(killer[c].e)
  /\ Discard(c, killer[c].todo, {killer[c].cur})
  /\ UNCHANGED <<req, stage>>

\* The ping timeout passes for a session nobody asks about.
Ages(s) ==
  /\ s \in InUse /\ ses[s].fresh
  /\ ses' = [ses EXCEPT ![s].fresh = FALSE]
  /\ UNCHANGED <<sessions, req, enc, ledger, disk, killer, stage>>

----------------------------------------------------------------------------
(***************************************************************************)
(* The lifespan's shutdown, which the web server enters once every request *)
(* in flight has been answered.                                            *)
(***************************************************************************)
BeginStop ==
  /\ stage = "serving"
  /\ \A r \in Requests : req[r].pc \notin Waiting
  /\ \A c \in Stops : killer[c].pc # "discarding"
  /\ stage' = "cancelling"
  /\ UNCHANGED <<sessions, ses, req, enc, ledger, disk, killer>>

\* The sweeper is cancelled and awaited.  A cancellation that finds it asleep
\* ends it; one that lands inside a discard is swallowed by the awaits of
\* Production.stop and ProductionLedger.finish, and the sweep goes on.
Cancel ==
  /\ stage = "cancelling"
  /\ IF killer[Sweeper].pc = "idle"
     THEN /\ stage' = "halting"
          /\ killer' = [killer EXCEPT ![Sweeper].pc = "done"]
     ELSE stage' = "awaiting" /\ UNCHANGED killer
  /\ UNCHANGED <<sessions, ses, req, enc, ledger, disk>>

\* TranscodeManager.shutdown.  One encoder at a time in the code; nothing
\* else but the encoders runs any more, so they are halted together here.
HaltAll ==
  LET halted == {ses[s].run : s \in InUse} \ {None}
  IN  /\ stage = "halting"
      /\ ses' = [s \in Requests |->
                   IF s \in InUse THEN [ses[s] EXCEPT !.run = None] ELSE ses[s]]
      /\ ledger' = ledger \ halted
      /\ enc' = [e \in Requests |->
                   IF e \in halted THEN Kill(enc, e)[e] ELSE enc[e]]
      /\ stage' = "clearing"
      /\ UNCHANGED <<sessions, req, disk, killer>>

\* Mistake: the ledger is not shut down after the manager.
NothingLeft == {}

Leftover == ledger

\* Its end, and ProductionLedger.shutdown for whatever no session had.
ClearAll ==
  /\ stage = "clearing"
  /\ \A e \in Requests \ ledger : enc[e].st \in {"none", "reaped"}
  /\ sessions' = [k \in Keys |-> None]
  /\ disk' = [k \in Keys |-> NoDirectory]
  /\ enc' = [e \in Requests |-> IF e \in Leftover THEN Kill(enc, e)[e] ELSE enc[e]]
  /\ ledger' = {}
  /\ stage' = "stopped"
  /\ UNCHANGED <<ses, req, killer>>

----------------------------------------------------------------------------
(***************************************************************************)
(* An encoder, as the manager's command line makes ffmpeg's hls muxer run: *)
(* one segment file after another from where it was started to the end of  *)
(* the film, into a directory it does not create.                          *)
(***************************************************************************)
EncDir(e) == disk[ses[req[e].s].key]

Following(e) == IF enc[e].at = -1 THEN ses[req[e].s].from ELSE enc[e].at + 1

Opens(e) ==
  /\ enc[e].st = "live" /\ ~enc[e].open
  /\ IF EncDir(e).made
     THEN /\ enc' = [enc EXCEPT ![e].open = TRUE]
          /\ disk' = [disk EXCEPT ![ses[req[e].s].key] =
                        Open(@, enc[e].at, e)]
     ELSE enc' = [enc EXCEPT ![e].st = "gone"] /\ UNCHANGED disk
  /\ UNCHANGED <<sessions, ses, req, ledger, killer, stage>>

\* It closes one file and opens the next, or ends with the film.
Advances(e) ==
  LET k == ses[req[e].s].key
      closed == Close(disk[k], enc[e].at, e)
      n == Following(e)
  IN  /\ enc[e].st = "live" /\ enc[e].open
      /\ IF enc[e].at < LastIndex /\ disk[k].made
         THEN /\ enc' = [enc EXCEPT ![e].at = n]
              /\ disk' = [disk EXCEPT ![k] = Open(closed, n, e)]
         ELSE /\ enc' = [enc EXCEPT ![e].st = "gone", ![e].open = FALSE]
              /\ disk' = [disk EXCEPT ![k] = closed]
      /\ UNCHANGED <<sessions, ses, req, ledger, killer, stage>>

\* Its writes move the file's modification time, which shows only when two
\* encoders share a directory.
Writes(e) ==
  LET k == ses[req[e].s].key
  IN  /\ enc[e].st = "live" /\ enc[e].open
      /\ \E f \in disk[k].files : f.n = enc[e].at /\ f.by = e
      /\ Newest(disk[k]) # enc[e].at
      /\ disk' = [disk EXCEPT ![k] = Touch(@, enc[e].at)]
      /\ UNCHANGED <<sessions, ses, req, enc, ledger, killer, stage>>

Crashes(e) ==
  /\ MayCrash /\ enc[e].st \in Running
  /\ enc' = [enc EXCEPT ![e].st = "gone"]
  /\ UNCHANGED <<sessions, ses, req, ledger, disk, killer, stage>>

\* The event loop sees the process end.
Reap(e) ==
  /\ enc[e].st = "gone"
  /\ enc' = [enc EXCEPT ![e].st = "reaped", ![e].at = 0, ![e].open = FALSE]
  /\ UNCHANGED <<sessions, ses, req, ledger, disk, killer, stage>>

----------------------------------------------------------------------------
RequestStep(r) ==
  \/ Enter(r) \/ Spawn(r) \/ Started(r)
  \/ SettledWhileProducing(r) \/ SettledAfterProduction(r) \/ Reaped(r)

EncoderStep(e) == Opens(e) \/ Advances(e)

Next ==
  \/ \E r \in Requests : Segment(r) \/ RequestStep(r)
  \/ \E c \in Stops : Stop(c)
  \/ \E c \in Killers : Discarded(c)
  \/ \E s \in Requests : Ages(s)
  \/ Sweep
  \/ \E e \in Requests : EncoderStep(e) \/ Writes(e) \/ Crashes(e) \/ Reap(e)
  \/ BeginStop \/ Cancel \/ HaltAll \/ ClearAll

Spec == Init /\ [][Next]_vars

\* The event loop runs every task that can run, a process that may run makes
\* progress, and time passes.
Fairness ==
  /\ \A r \in Requests : WF_vars(RequestStep(r))
  /\ \A c \in Killers : WF_vars(Discarded(c))
  /\ \A e \in Requests : WF_vars(EncoderStep(e)) /\ WF_vars(Reap(e))
  /\ \A s \in Requests : WF_vars(Ages(s))
  /\ WF_vars(Sweep) /\ WF_vars(Cancel) /\ WF_vars(HaltAll) /\ WF_vars(ClearAll)

FairSpec == Spec /\ Fairness

----------------------------------------------------------------------------
(***************************************************************************)
(* Properties.                                                             *)
(***************************************************************************)

\* Every variable holds what its record type says.
TypeOK ==
  /\ sessions \in [Keys -> Requests \union {None}]
  /\ ses \in [Requests -> Session]
  /\ req \in [Requests -> Request]
  /\ enc \in [Requests -> Encoder]
  /\ ledger \subseteq Requests
  /\ disk \in [Keys -> Directory]
  /\ killer \in [Killers -> Killer]
  /\ stage \in {"serving", "cancelling", "awaiting", "halting", "clearing",
                "stopped"}

\* No encoder runs that the ledger does not list, except for the moment
\* between its launch and its being recorded by the request that launched it.
EveryEncoderIsListed ==
  \A e \in Requests :
    enc[e].st \in Running => e \in ledger \/ req[e].pc = "starting"

\* A running encoder is the one its session points at, or is being started by
\* the request that holds the session's lock.  So a session object never has
\* two encoders running and never loses sight of one.
EncoderHasItsSession ==
  \A e \in Requests :
    enc[e].st \in Running =>
      \/ ses[req[e].s].run = e
      \/ req[e].pc = "starting" /\ ses[req[e].s].lock = e

\* Every encoder that runs is known twice over: to its session, which is how a restart
\* finds it, and to the ledger, which is how the server's stop does (`_begin`, `start`).
EncodersAreOwned == EncoderHasItsSession /\ EveryEncoderIsListed

\* The lock of a session is held by a request exactly while that request is
\* between halting the session's encoder and recording its own.
LockIsHeldInBegin ==
  \A r, s \in Requests :
    ses[s].lock = r <=> req[r].s = s /\ req[r].pc \in InBegin

\* No other encoder has been started in this one's directory, whose files the
\* throttle would mistake for this one's position.
FirstEncoder(e) ==
  \A x \in Requests \ {e} :
    enc[x].st # "none" => ses[req[x].s].key # ses[req[e].s].key

\* A paused encoder is one that really leads the furthest segment the client
\* has asked for by the gap, and stays so until it is let go.
PausedOnlyWhenAhead ==
  \A e \in Requests :
    enc[e].st = "paused" /\ FirstEncoder(e)
      => enc[e].at + 1 - ses[req[e].s].down >= Gap

\* A paused encoder never holds up a request that it would have answered had it gone on:
\* what the request waits for lies behind it, and is there unless the deletion has taken it,
\* the encoder began beyond it, or the session's directory has gone with a kill.
PausedOwesNothing ==
  \A r \in Requests :
    LET s == req[r].s
        e == ses[s].run
        n == req[r].n
    IN  (/\ req[r].pc = "settling" /\ e # None
         /\ enc[e].st = "paused" /\ FirstEncoder(e))
          => /\ n < enc[e].at
             /\ sessions[ses[s].key] = s /\ n \notin 0 .. ses[s].from - 1
                  => \/ Exists(Dir(s), n)
                     \/ SegmentDeletion /\ n \in 0 .. ses[s].down - Keep

\* The throttle starves nobody: what it has paused leads by the gap, and no request waits
\* for what it would have written (`_throttle`, `_settled`).
PausesStarveNobody == PausedOnlyWhenAhead /\ PausedOwesNothing

\* The encoder a session points at is still writing the segment handed to r.
HandedUnfinished(r) ==
  LET e == ses[req[r].s].run
  IN  /\ req[r].pc \notin Outcomes /\ req'[r].pc = "partial"
      /\ e # None
      /\ enc[e].st \in Running
      /\ [n |-> req[r].n, by |-> e, whole |-> FALSE] \in Dir(req[r].s).files

\* A request is handed a file that its session's encoder is still writing in
\* two ways only: another encoder left a later file in the directory, or the
\* request had seen production stop and was reaping the encoder that stopped
\* while the next one was started.
OwnFileIsFinished ==
  [][\A r \in Requests : HandedUnfinished(r) =>
       \/ req[r].pc = "reaping"
       \/ \E g \in Dir(req[r].s).files :
            g.n > req[r].n /\ g.by # ses[req[r].s].run]_vars

\* Once the server has stopped no encoder runs, none is listed, and the
\* scratch root is empty.
StoppedServerLeavesNothing ==
  stage = "stopped" =>
    /\ \A e \in Requests : enc[e].st \notin Running
    /\ ledger = {}
    /\ \A k \in Keys : disk[k] = NoDirectory

\* Every segment request is answered: with the segment, or with the 500 of a
\* production that stopped without writing it.
EveryRequestIsAnswered ==
  \A r \in Requests : req[r].pc \in Waiting ~> req[r].pc \in Outcomes

\* A session whose clients have gone is swept.
AbandonedSessionsEnd ==
  (\A r \in Requests : req[r].pc \in Outcomes)
    ~> (\A k \in Keys : sessions[k] = None)

\* "Every ffmpeg the server can start is owned by a session in the
\* TranscodeManager, [...] and scratch space survives none of them": where no
\* session has a key, and nothing is under way for it, no encoder runs for it
\* and its directory is gone.
NothingOutlivesItsSession ==
  \A k \in Keys :
    (/\ sessions[k] = None
     /\ \A r \in Requests : req[r].pc \in Waiting => ses[req[r].s].key # k
     /\ \A c \in Killers : killer[c].pc # "discarding")
      => /\ ~disk[k].made
         /\ \A e \in Requests :
              enc[e].st \in Running => ses[req[e].s].key # k

\* "A segment is finished when the next one exists" and "serving a segment
\* that is still being written is the one way to break AC-23": no request is
\* handed a file its session's encoder is still writing, at least while no
\* kill path is at work and no other session object has had an encoder.
NeverServedUnfinished ==
  [][\A r \in Requests :
       HandedUnfinished(r) =>
         \/ \E c \in Killers : killer[c].pc = "discarding"
         \/ \E e \in Requests : enc[e].st # "none" /\ req[e].s # req[r].s]_vars

\* "Sweep on the interval until cancelled": a server told to stop stops.
StopCompletes == stage = "cancelling" ~> stage = "stopped"

============================================================================
