-------------------------- MODULE SessionActivity --------------------------
(***************************************************************************)
(* One user's devices: the login that replaces a device's token and evicts *)
(* sessions over the cap (src/atrium/users/service.py, users/sessions.py), *)
(* the activity and the playback check-ins that accumulate in memory, the  *)
(* flush that writes them every thirty seconds from a thread, and the last *)
(* flush of a clean stop.                                                  *)
(*                                                                         *)
(* Handlers block the event loop on the database, so they run one at a     *)
(* time.  A flush runs in a thread, or on the loop when the server stops,  *)
(* and its steps fall anywhere between theirs: also inside one.  A         *)
(* statement that touches one of the two dictionaries is one step.  Reads  *)
(* see what is committed; the first write of a transaction takes the       *)
(* database's only write lock, which is held until it ends.                *)
(***************************************************************************)
EXTENDS Integers, FiniteSets

CONSTANTS
  Devices,
  max_active_sessions,  \* the user's cap, 0 when there is none
  lockout_attempts,     \* wrong passwords that lock the account, 0 for never
  MaxLogins, MaxTime, MaxFailures, \* bounds: logins, clock, failing units of work
  None

ASSUME NumbersAssumption ==
  {max_active_sessions, lockout_attempts, MaxLogins, MaxTime, MaxFailures}
    \subseteq Nat

ASSUME DevicesAssumption == IsFiniteSet(Devices)

ASSUME NoneAssumption == None \notin Int /\ None \notin Devices

VARIABLES
  sessions,   \* the session row of each device
  tokens,     \* the rows of the tokens that work
  invalid_login_attempt_count,
  pending,    \* SessionRegistry._pending
  checked_in, \* SessionRegistry._checked_in
  loop,       \* the handler in progress
  flushing,   \* the flush of the thread and the one of the stop
  writer,     \* who holds the write lock
  stage, clock, logins, failures

rowVars == <<sessions, tokens, invalid_login_attempt_count>>
boundVars == <<clock, logins, failures>>
vars == <<rowVars, pending, checked_in, loop, flushing, writer, stage, boundVars>>

----------------------------------------------------------------------------
\* The login that creates a session names it, as it names the token.
Ids == 1..MaxLogins

Session == [id: Ids, last_activity_date: Nat,
            last_playback_check_in: Nat \union {None}]

ASSUME NoSessionAssumption == None \notin Session

Token == [id: Ids, device: Devices, created: Nat]

Dates == [Ids -> Nat \union {None}]

Empty == [i \in Ids |-> None]

Flushers == {"thread", "stop"}

\* What a flush has read and is about to write of one session.
Touched == [id: Ids, when: Nat, playback: Nat \union {None},
            row: Session \union {None}]

ASSUME NoTouchedAssumption == None \notin Touched

Flush == [pc: {"idle", "taking", "reading", "writing"},
          writing: Dates, checked_in: Dates, cur: Touched \union {None},
          written: SUBSET Touched, failed: BOOLEAN]

Resting == [pc |-> "idle", writing |-> Empty, checked_in |-> Empty,
            cur |-> None, written |-> {}, failed |-> FALSE]

Handler == [pc: {"idle", "authenticated", "checked", "held", "login"},
            device: Devices \union {None}, id: Ids \union {None},
            when: Nat]

Idle == [pc |-> "idle", device |-> None, id |-> None, when |-> 0]

Entries(dates) == {i \in Ids : dates[i] # None}

DeviceOf(i) == {d \in Devices : sessions[d] # None /\ sessions[d].id = i}

RowOf(i) == IF DeviceOf(i) = {} THEN None
            ELSE sessions[CHOOSE d \in DeviceOf(i) : TRUE]

TypeOK ==
  /\ sessions \in [Devices -> Session \union {None}]
  /\ tokens \subseteq Token
  /\ invalid_login_attempt_count \in Nat
  /\ pending \in Dates
  /\ checked_in \in Dates
  /\ loop \in Handler
  /\ flushing \in [Flushers -> Flush]
  /\ writer \in Flushers \union {"loop", None}
  /\ stage \in {"up", "stopping", "stopped"}
  /\ clock \in 0..MaxTime
  /\ logins \in 0..MaxLogins
  /\ failures \in 0..MaxFailures

Init ==
  /\ sessions = [d \in Devices |-> None]
  /\ tokens = {}
  /\ invalid_login_attempt_count = 0
  /\ pending = Empty
  /\ checked_in = Empty
  /\ loop = Idle
  /\ flushing = [f \in Flushers |-> Resting]
  /\ writer = None
  /\ stage = "up"
  /\ clock = 0
  /\ logins = 0
  /\ failures = 0

----------------------------------------------------------------------------
(* Requests.                                                               *)

\* `require_user` and `touch`: an authenticated request of any route.  One that
\* reports playback goes on to check in.
Request(t, reports) ==
  /\ stage = "up" /\ loop.pc = "idle"
  /\ t \in tokens
  /\ LET row == sessions[t.device] IN
     /\ pending' = IF row = None THEN pending
                   ELSE [pending EXCEPT ![row.id] = clock]
     /\ loop' = IF row = None \/ ~reports THEN Idle
                ELSE [pc |-> "authenticated", device |-> None, id |-> row.id,
                      when |-> clock]
  /\ UNCHANGED <<rowVars, checked_in, flushing, writer, stage, boundVars>>

\* `touch_playback`, and `touch_session` in the two statements it is.
CheckIn ==
  /\ loop.pc = "authenticated"
  /\ checked_in' = [checked_in EXCEPT ![loop.id] = loop.when]
  /\ loop' = [loop EXCEPT !.pc = "checked"]
  /\ UNCHANGED <<rowVars, pending, flushing, writer, stage, boundVars>>

LookUpHeld ==
  /\ loop.pc = "checked"
  /\ loop' = IF pending[loop.id] = None THEN Idle ELSE [loop EXCEPT !.pc = "held"]
  /\ UNCHANGED <<rowVars, pending, checked_in, flushing, writer, stage, boundVars>>

TouchSession ==
  /\ loop.pc = "held"
  /\ pending' = [pending EXCEPT ![loop.id] = loop.when]
  /\ loop' = Idle
  /\ UNCHANGED <<rowVars, checked_in, flushing, writer, stage, boundVars>>

----------------------------------------------------------------------------
(* Logins.                                                                 *)

LockedOut ==
  lockout_attempts > 0 /\ invalid_login_attempt_count >= lockout_attempts

WrongPassword ==
  /\ stage = "up" /\ loop.pc = "idle" /\ writer = None
  /\ lockout_attempts > 0 /\ ~LockedOut
  /\ invalid_login_attempt_count' = invalid_login_attempt_count + 1
  /\ UNCHANGED <<sessions, tokens, pending, checked_in, loop, flushing, writer,
                 stage, boundVars>>

\* `_evict`: the other sessions by their stored date, the latest first, beyond the
\* place the new one takes.  Equal dates fall in any order.
Surplus(d, out) ==
  LET others == {o \in Devices \ {d} : sessions[o] # None}
      room == IF max_active_sessions >= 1 THEN max_active_sessions - 1 ELSE 0
      kept == others \ out
  IN /\ out \subseteq others
     /\ IF max_active_sessions = 0 THEN out = {}
        ELSE Cardinality(kept) = IF Cardinality(others) <= room
                                 THEN Cardinality(others) ELSE room
     /\ \A o \in out, k \in kept :
          sessions[o].last_activity_date <= sessions[k].last_activity_date

\* The first write of `establish_in`, which waits for the lock.  From here to the
\* commit nothing else writes rows, so what it reads is what it will find.
Authenticate(d) ==
  /\ stage = "up" /\ loop.pc = "idle" /\ writer = None
  /\ logins < MaxLogins /\ ~LockedOut
  /\ logins' = logins + 1
  /\ writer' = "loop"
  /\ loop' = [pc |-> "login", device |-> d, id |-> logins + 1, when |-> clock]
  /\ UNCHANGED <<rowVars, pending, checked_in, flushing, stage, clock, failures>>

SessionAfter(d) ==
  [id |-> IF sessions[d] = None THEN loop.id ELSE sessions[d].id,
   last_activity_date |-> loop.when, last_playback_check_in |-> None]

ForgetPending(ids) == [i \in Ids |-> IF i \in ids THEN None ELSE pending[i]]

\* Mistake: an evicted session leaves its token behind.
EstablishKeepsTokens(d, out) ==
  /\ loop.pc = "login" /\ d = loop.device
  /\ Surplus(d, out)
  /\ sessions' = [o \in Devices |-> IF o \in out THEN None
                                    ELSE IF o = d THEN SessionAfter(d)
                                    ELSE sessions[o]]
  /\ tokens' = {t \in tokens : t.device # d}
                 \union {[id |-> loop.id, device |-> d, created |-> loop.when]}
  /\ invalid_login_attempt_count' = 0
  /\ loop' = Idle /\ writer' = None
  /\ UNCHANGED <<pending, checked_in, flushing, stage, boundVars>>

\* The rest of it: the token and the session of the device replaced, the surplus
\* removed, their pending activity dropped.
Establish(d, out) ==
  /\ loop.pc = "login" /\ d = loop.device
  /\ Surplus(d, out)
  /\ LET gone == {sessions[o].id : o \in out} \union {SessionAfter(d).id} IN
       pending' = ForgetPending(gone)
  /\ \/ /\ sessions' = [o \in Devices |-> IF o \in out THEN None
                                          ELSE IF o = d THEN SessionAfter(d)
                                          ELSE sessions[o]]
        /\ tokens' = {t \in tokens : t.device \notin out \union {d}}
                       \union {[id |-> loop.id, device |-> d, created |-> loop.when]}
        /\ invalid_login_attempt_count' = 0
        /\ UNCHANGED failures
     \/ \* the unit of work fails after that, and is rolled back
        /\ failures < MaxFailures /\ failures' = failures + 1
        /\ UNCHANGED rowVars
  /\ loop' = Idle /\ writer' = None
  /\ UNCHANGED <<checked_in, flushing, stage, clock, logins>>

----------------------------------------------------------------------------
(* A flush, of the thread or of the stop.                                  *)

\* The thread flushes on its interval; the lifespan once, after it has given up
\* waiting for the thread.
Due(f) ==
  /\ flushing[f].pc = "idle"
  /\ IF f = "thread" THEN stage = "up" ELSE stage = "stopping"

TakePending(f) ==
  /\ Due(f)
  /\ Entries(pending) \union Entries(checked_in) # {}
  /\ flushing' = [flushing EXCEPT ![f] =
                    [Resting EXCEPT !.pc = "taking", !.writing = pending]]
  /\ pending' = Empty
  /\ UNCHANGED <<rowVars, checked_in, loop, writer, stage, boundVars>>

\* Mistake: a copy is taken, and what it holds stays in memory.
TakeCheckInsCopy(f) ==
  /\ flushing[f].pc = "taking"
  /\ flushing' = [flushing EXCEPT ![f].pc = "reading", ![f].checked_in = checked_in]
  /\ UNCHANGED <<rowVars, pending, checked_in, loop, writer, stage, boundVars>>

TakeCheckIns(f) ==
  /\ flushing[f].pc = "taking"
  /\ flushing' = [flushing EXCEPT ![f].pc = "reading", ![f].checked_in = checked_in]
  /\ checked_in' = Empty
  /\ UNCHANGED <<rowVars, pending, loop, writer, stage, boundVars>>

\* The sessions a flush has not come to yet: those with activity first.
Done(f) == {w.id : w \in flushing[f].written}

Todo(f) ==
  LET active == Entries(flushing[f].writing) \ Done(f) IN
  IF active # {} THEN active ELSE Entries(flushing[f].checked_in) \ Done(f)

\* Mistake: a session that only checked in is given the activity it does not have.
ReadActivityOnly(f, i) ==
  /\ flushing[f].pc = "reading" /\ i \in Todo(f)
  /\ flushing' = [flushing EXCEPT
       ![f].pc = "writing",
       ![f].checked_in = [@ EXCEPT ![i] = None],
       ![f].cur = [id |-> i, row |-> RowOf(i), playback |-> flushing[f].checked_in[i],
                   when |-> flushing[f].writing[i]]]
  /\ UNCHANGED <<rowVars, pending, checked_in, loop, writer, stage, boundVars>>

\* The check-in is popped for the call, and the call reads the row.
Read(f, i) ==
  /\ flushing[f].pc = "reading" /\ i \in Todo(f)
  /\ LET checked == flushing[f].checked_in[i]
         active == i \in Entries(flushing[f].writing)
     IN flushing' = [flushing EXCEPT
          ![f].pc = "writing",
          ![f].checked_in = IF active THEN [@ EXCEPT ![i] = None] ELSE @,
          ![f].cur = [id |-> i, row |-> RowOf(i), playback |-> checked,
                      when |-> IF active THEN flushing[f].writing[i] ELSE checked]]
  /\ UNCHANGED <<rowVars, pending, checked_in, loop, writer, stage, boundVars>>

\* The mapper writes the columns that differ from what was read.
Changes(w) ==
  /\ w.row # None
  /\ \/ w.row.last_activity_date # w.when
     \/ w.playback # None /\ w.row.last_playback_check_in # w.playback

\* The row is still there, or nothing has to be written.
Write(f) ==
  /\ flushing[f].pc = "writing"
  /\ LET w == flushing[f].cur IN
     /\ Changes(w) => writer \in {None, f} /\ RowOf(w.id) # None
     /\ writer' = IF Changes(w) THEN f ELSE writer
     /\ flushing' = [flushing EXCEPT ![f].pc = "reading", ![f].cur = None,
                                     ![f].written = @ \union {w}]
  /\ UNCHANGED <<rowVars, pending, checked_in, loop, stage, boundVars>>

Assigned(row, w) ==
  [row EXCEPT
     !.last_activity_date = IF w.row.last_activity_date # w.when THEN w.when ELSE @,
     !.last_playback_check_in =
        IF w.playback # None /\ w.row.last_playback_check_in # w.playback
        THEN w.playback ELSE @]

\* The lifespan goes on when the flush it called returns.
StageAfter(f) == IF f = "stop" THEN "stopped" ELSE stage

Commit(f) ==
  /\ flushing[f].pc = "reading" /\ Todo(f) = {}
  /\ sessions' =
       [d \in Devices |->
          LET mine == {w \in flushing[f].written :
                         Changes(w) /\ sessions[d] # None /\ w.id = sessions[d].id}
          IN IF mine = {} THEN sessions[d]
             ELSE Assigned(sessions[d], CHOOSE w \in mine : TRUE)]
  /\ flushing' = [flushing EXCEPT ![f] = Resting]
  /\ writer' = IF writer = f THEN None ELSE writer
  /\ stage' = StageAfter(f)
  /\ UNCHANGED <<tokens, invalid_login_attempt_count, pending, checked_in, loop,
                 boundVars>>

\* Mistake: what was taken wins over what arrived since.
PutBackOver(held, taken) ==
  [i \in Ids |-> IF taken[i] = None THEN held[i] ELSE taken[i]]

\* `setdefault` of everything the flush still has in its hands.
PutBack(held, taken) ==
  [i \in Ids |-> IF held[i] = None THEN taken[i] ELSE held[i]]

RollBack(f) ==
  /\ pending' = PutBack(pending, flushing[f].writing)
  /\ checked_in' = PutBack(checked_in, flushing[f].checked_in)
  /\ flushing' = [flushing EXCEPT ![f] = [Resting EXCEPT !.failed = TRUE]]
  /\ writer' = IF writer = f THEN None ELSE writer
  /\ stage' = StageAfter(f)
  /\ UNCHANGED <<rowVars, loop, clock, logins>>

\* The database refuses a statement or the commit.
Fail(f) ==
  /\ flushing[f].pc \in {"reading", "writing"}
  /\ failures < MaxFailures /\ failures' = failures + 1
  /\ RollBack(f)

\* The row was deleted between the read and the write: the update matches no row.
Stale(f) ==
  /\ flushing[f].pc = "writing"
  /\ Changes(flushing[f].cur) /\ RowOf(flushing[f].cur.id) = None
  /\ writer \in {None, f}
  /\ RollBack(f)
  /\ UNCHANGED failures

----------------------------------------------------------------------------
(* The clock and the stop of the server.                                   *)

Tick ==
  /\ clock < MaxTime
  /\ clock' = clock + 1
  /\ UNCHANGED <<rowVars, pending, checked_in, loop, flushing, writer, stage,
                 logins, failures>>

\* Mistake: the server stops without a last flush.
BeginStopUnflushed ==
  /\ stage = "up" /\ loop.pc = "idle"
  /\ stage' = "stopped"
  /\ UNCHANGED <<rowVars, pending, checked_in, loop, flushing, writer, boundVars>>

\* Requests are over.  Cancelling the flush task does not stop its thread.
BeginStop ==
  /\ stage = "up" /\ loop.pc = "idle"
  /\ stage' = "stopping"
  /\ UNCHANGED <<rowVars, pending, checked_in, loop, flushing, writer, boundVars>>

\* The last flush has nothing to write.
EndStop ==
  /\ stage = "stopping" /\ flushing["stop"].pc = "idle"
  /\ Entries(pending) \union Entries(checked_in) = {}
  /\ stage' = "stopped"
  /\ UNCHANGED <<rowVars, pending, checked_in, loop, flushing, writer, boundVars>>

FlushStep(f) ==
  \/ TakePending(f) \/ TakeCheckIns(f) \/ Write(f) \/ Commit(f)
  \/ Stale(f) \/ Fail(f)
  \/ \E i \in Ids : Read(f, i)

HandlerStep ==
  \/ CheckIn \/ LookUpHeld \/ TouchSession
  \/ \E d \in Devices : \E out \in SUBSET Devices : Establish(d, out)

Next ==
  \/ \E t \in tokens : \E reports \in BOOLEAN : Request(t, reports)
  \/ \E d \in Devices : Authenticate(d)
  \/ WrongPassword
  \/ HandlerStep
  \/ \E f \in Flushers : FlushStep(f)
  \/ Tick \/ BeginStop \/ EndStop

Spec == Init /\ [][Next]_vars

----------------------------------------------------------------------------
(* What has to hold.                                                       *)

\* A token works exactly as long as its device has a session, there is one of them,
\* and the sessions never exceed the cap: `establish_in` replaces and `_evict`
\* removes both in one transaction.
CredentialsMatchSessions ==
  /\ \A t \in tokens : sessions[t.device] # None
  /\ \A d \in Devices : sessions[d] # None =>
       Cardinality({t \in tokens : t.device = d}) = 1
  /\ max_active_sessions > 0 =>
       Cardinality({d \in Devices : sessions[d] # None}) <= max_active_sessions

SameSession(d) ==
  /\ sessions[d] # None /\ sessions'[d] # None
  /\ sessions'[d].id = sessions[d].id

\* While the server is up a stored activity date goes back only to a moment before
\* the last login of its device: what a flush had taken, or a check-in the login did
\* not drop, is written over the login's own date, and nothing else is.
ActivityGoesBackOnlyBehindALogin ==
  [][\A d \in Devices :
       /\ stage = "up" /\ SameSession(d)
       /\ sessions'[d].last_activity_date < sessions[d].last_activity_date
       => \E t \in tokens : t.device = d
            /\ sessions'[d].last_activity_date <= t.created]_vars

\* The check-ins known of a session: stored, in memory, or in the hands of a flush.
CheckIns(i) ==
  ({checked_in[i]} \union
   {flushing[f].checked_in[i] : f \in Flushers} \union
   {w.playback : w \in {v \in UNION {flushing[f].written \union {flushing[f].cur} :
                                        f \in Flushers} : v # None /\ v.id = i}} \union
   {IF RowOf(i) = None THEN None ELSE RowOf(i).last_playback_check_in}) \ {None}

\* The session was read by the flush, which popped its check-in.
Popped(f, i) == \E w \in flushing[f].written \union {flushing[f].cur} :
                  w # None /\ w.id = i

\* A check-in later than the device's last login, which clears what came before, is
\* never forgotten for an older one, except by a flush that fails after it has popped
\* it: every other failure puts it back.
CheckInsAreKept ==
  [][\A d \in Devices :
       stage = "up" /\ SameSession(d) =>
         LET i == sessions[d].id IN
         \/ \A c \in CheckIns(i) :
              \/ \E t \in tokens' : t.device = d /\ c <= t.created
              \/ \E k \in CheckIns(i)' : k >= c
         \/ \E f \in Flushers : Popped(f, i) /\ flushing'[f].failed]_vars

\* When the process ends, nothing is left in memory unless a flush failed: what
\* arrives while a flush runs is not dropped with what it took.
CleanStopLeavesNothing ==
  stage = "stopped" /\ (\A f \in Flushers : flushing[f].pc = "idle"
                                             /\ ~flushing[f].failed) =>
    Entries(pending) \union Entries(checked_in) = {}
=============================================================================
