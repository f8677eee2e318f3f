----------------------- MODULE SessionActivity_proofs -----------------------
(***************************************************************************)
(* Proofs about the activity of the sessions: for any number of devices    *)
(* and any cap, credentials and sessions go together, a clean stop leaves  *)
(* nothing in memory, an activity date goes back only behind a login, and  *)
(* a check-in is lost only to a flush that fails.                          *)
(*                                                                         *)
(* The two about dates rest on `Dated`: no date lies in the future of the  *)
(* handler that brings one, what arrived after a flush took is newer than  *)
(* what it took, and what is held of a session is no older than its row or *)
(* else older than the device's last login.                                *)
(***************************************************************************)
EXTENDS SessionActivity, FiniteSetTheorems, TLAPS

\* What a handler or a flush has in its hands while it is at work.
Working ==
  /\ loop.pc # "idle" => loop.id \in Ids
  /\ loop.pc = "login" => loop.device \in Devices
  /\ \A f \in Flushers : flushing[f].pc = "writing" => flushing[f].cur \in Touched

Shape == TypeOK /\ Working

USE DEF Flushers

----------------------------------------------------------------------------
\* The bounds and the dates are numbers, and `None` is none of them.
LEMMA Numbers ==
  /\ max_active_sessions \in Nat /\ lockout_attempts \in Nat
  /\ MaxLogins \in Nat /\ MaxTime \in Nat /\ MaxFailures \in Nat
  /\ Ids \subseteq Nat /\ None \notin Nat /\ None \notin Ids /\ None \notin Devices
BY NumbersAssumption, NoneAssumption DEF Ids

\* The row of a session, if it has one.
LEMMA RowOfType ==
  ASSUME TypeOK, NEW i
  PROVE  RowOf(i) \in Session \union {None}
<1>1. CASE DeviceOf(i) = {}
  BY <1>1 DEF RowOf
<1>2. CASE DeviceOf(i) # {}
  <2>1. (CHOOSE d \in DeviceOf(i) : TRUE) \in DeviceOf(i)
    BY <1>2
  <2>2. QED
    BY <1>2, <2>1 DEF RowOf, DeviceOf, TypeOK
<1>3. QED
  BY <1>1, <1>2

\* A flush in one of its steps is a flush again.
LEMMA FlushTypes ==
  /\ Empty \in Dates
  /\ Resting \in Flush /\ Resting.pc = "idle"
  /\ \A b \in BOOLEAN : [Resting EXCEPT !.failed = b] \in Flush
  /\ \A w \in Dates : [Resting EXCEPT !.pc = "taking", !.writing = w] \in Flush
  /\ \A x \in Flush, w \in Dates :
       [x EXCEPT !.pc = "reading", !.checked_in = w] \in Flush
  /\ \A x \in Flush, w \in Dates, t \in Touched :
       [x EXCEPT !.pc = "writing", !.checked_in = w, !.cur = t] \in Flush
  /\ \A x \in Flush, ts \in SUBSET Touched :
       [x EXCEPT !.pc = "reading", !.cur = None, !.written = ts] \in Flush
<1>1. Empty \in Dates
  BY DEF Empty, Dates
<1>2. Resting \in Flush /\ Resting.pc = "idle"
  BY <1>1 DEF Resting, Flush
<1>3. \A b \in BOOLEAN : [Resting EXCEPT !.failed = b] \in Flush
  BY <1>1 DEF Resting, Flush
<1>4. \A w \in Dates : [Resting EXCEPT !.pc = "taking", !.writing = w] \in Flush
  BY <1>1 DEF Resting, Flush
<1>5. \A x \in Flush, w \in Dates :
        [x EXCEPT !.pc = "reading", !.checked_in = w] \in Flush
  BY DEF Flush
<1>6. \A x \in Flush, w \in Dates, t \in Touched :
        [x EXCEPT !.pc = "writing", !.checked_in = w, !.cur = t] \in Flush
  BY DEF Flush
<1>7. \A x \in Flush, ts \in SUBSET Touched :
        [x EXCEPT !.pc = "reading", !.cur = None, !.written = ts] \in Flush
  BY DEF Flush
<1>8. QED
  BY <1>1, <1>2, <1>3, <1>4, <1>5, <1>6, <1>7

\* A row that a flush writes is a row of the same session.
LEMMA AssignedType ==
  ASSUME NEW row \in Session, NEW w \in Touched, w.row # None
  PROVE  Assigned(row, w) \in Session /\ Assigned(row, w).id = row.id
BY Numbers DEF Assigned, Session, Touched

\* The dates a flush has put back are dates.
LEMMA PutBackType ==
  ASSUME NEW held \in Dates, NEW taken \in Dates
  PROVE  PutBack(held, taken) \in Dates
BY DEF PutBack, Dates

----------------------------------------------------------------------------
LEMMA RequestKeepsShape ==
  ASSUME Shape, NEW t \in tokens, NEW reports \in BOOLEAN, Request(t, reports)
  PROVE  Shape'
<1> USE DEF Shape
<1>1. /\ t.device \in Devices
      /\ sessions[t.device] # None =>
           sessions[t.device] \in Session /\ sessions[t.device].id \in Ids
  BY DEF TypeOK, Token, Session
<1>2. clock \in Nat
  BY Numbers DEF TypeOK
<1>3. pending' \in Dates
  BY <1>1, <1>2 DEF Request, TypeOK, Dates
<1>4. loop' \in Handler /\ (loop'.pc # "idle" => loop'.id \in Ids) /\ loop'.pc # "login"
  BY <1>1, <1>2 DEF Request, Handler, Idle
<1>5. QED
  BY <1>3, <1>4 DEF Request, TypeOK, Working, rowVars, boundVars

LEMMA HandlerKeepsShape ==
  ASSUME Shape, CheckIn \/ LookUpHeld \/ TouchSession
  PROVE  Shape'
<1> USE DEF Shape
<1>1. loop.id \in Ids /\ loop.when \in Nat
  BY DEF CheckIn, LookUpHeld, TouchSession, Working, TypeOK, Handler
<1>2. pending' \in Dates /\ checked_in' \in Dates
  BY <1>1 DEF CheckIn, LookUpHeld, TouchSession, TypeOK, Dates
<1>3. loop' \in Handler /\ (loop'.pc # "idle" => loop'.id \in Ids) /\ loop'.pc # "login"
  BY <1>1 DEF CheckIn, LookUpHeld, TouchSession, TypeOK, Handler, Idle
<1>4. QED
  BY <1>2, <1>3 DEF CheckIn, LookUpHeld, TouchSession, TypeOK, Working, rowVars, boundVars

LEMMA LoginKeepsShape ==
  ASSUME Shape, WrongPassword \/ \E d \in Devices : Authenticate(d)
  PROVE  Shape'
<1> USE DEF Shape
<1>1. CASE WrongPassword
  BY <1>1 DEF WrongPassword, TypeOK, Working, boundVars
<1>2. ASSUME NEW d \in Devices, Authenticate(d)
      PROVE  Shape'
  <2>1. logins' \in 0..MaxLogins /\ logins + 1 \in Ids /\ clock \in Nat
    BY <1>2, Numbers DEF Authenticate, TypeOK, Ids
  <2>2. loop' \in Handler /\ loop'.id \in Ids /\ loop'.device \in Devices
    BY <1>2, <2>1 DEF Authenticate, Handler
  <2>3. QED
    BY <1>2, <2>1, <2>2 DEF Authenticate, TypeOK, Working, rowVars
<1>3. QED
  BY <1>1, <1>2

\* What a login leaves in the rows, when it commits.
LEMMA EstablishedRows ==
  ASSUME Shape, NEW d \in Devices, loop.pc = "login", d = loop.device
  PROVE  /\ SessionAfter(d) \in Session
         /\ [id |-> loop.id, device |-> d, created |-> loop.when] \in Token
<1>1. loop.id \in Ids /\ loop.when \in Nat
  BY DEF Shape, Working, TypeOK, Handler
<1>2. sessions[d] # None => sessions[d].id \in Ids
  BY DEF Shape, TypeOK, Session
<1>3. QED
  BY <1>1, <1>2 DEF SessionAfter, Session, Token

LEMMA EstablishKeepsShape ==
  ASSUME Shape, NEW d \in Devices, NEW out \in SUBSET Devices, Establish(d, out)
  PROVE  Shape'
<1> USE DEF Shape
<1>1. loop' = Idle /\ writer' = None
      /\ UNCHANGED <<checked_in, flushing, stage, clock, logins>>
  BY DEF Establish
<1>2. pending' \in Dates
  BY DEF Establish, ForgetPending, TypeOK, Dates
<1>3. /\ sessions' \in [Devices -> Session \union {None}]
      /\ tokens' \subseteq Token
      /\ invalid_login_attempt_count' \in Nat
  <2>1. SessionAfter(d) \in Session
        /\ [id |-> loop.id, device |-> d, created |-> loop.when] \in Token
    BY EstablishedRows DEF Establish
  <2>2. CASE UNCHANGED rowVars
    BY <2>2 DEF rowVars, TypeOK
  <2>3. CASE ~UNCHANGED rowVars
    <3>1. /\ sessions' = [o \in Devices |-> IF o \in out THEN None
                                            ELSE IF o = d THEN SessionAfter(d)
                                            ELSE sessions[o]]
          /\ tokens' = {t \in tokens : t.device \notin out \union {d}}
                     \union {[id |-> loop.id, device |-> d, created |-> loop.when]}
          /\ invalid_login_attempt_count' = 0
      BY <2>3 DEF Establish
    <3>2. QED
      BY <2>1, <3>1 DEF TypeOK
  <2>4. QED
    BY <2>2, <2>3
<1>4. failures' \in 0..MaxFailures
  BY Numbers DEF Establish, TypeOK
<1>5. Idle \in Handler /\ Idle.pc = "idle"
  BY DEF Idle, Handler
<1>6. QED
  BY <1>1, <1>2, <1>3, <1>4, <1>5 DEF TypeOK, Working

LEMMA TakingKeepsShape ==
  ASSUME Shape, NEW f \in Flushers, TakePending(f) \/ TakeCheckIns(f)
  PROVE  Shape'
<1> USE DEF Shape
<1>1. PICK x \in Flush : flushing' = [flushing EXCEPT ![f] = x] /\ x.pc # "writing"
  <2>1. CASE TakePending(f)
    <3>1. [Resting EXCEPT !.pc = "taking", !.writing = pending] \in Flush
      BY FlushTypes DEF TypeOK
    <3>2. [Resting EXCEPT !.pc = "taking", !.writing = pending].pc = "taking"
      BY DEF Resting
    <3>3. QED
      BY <2>1, <3>1, <3>2 DEF TakePending
  <2>2. CASE TakeCheckIns(f)
    <3> DEFINE x == [flushing[f] EXCEPT !.pc = "reading", !.checked_in = checked_in]
    <3>1. x \in Flush
      BY FlushTypes DEF TypeOK
    <3>2. x.pc = "reading"
      BY DEF TypeOK, Flush
    <3>3. flushing' = [flushing EXCEPT ![f] = x]
      BY <2>2 DEF TakeCheckIns
    <3>4. QED
      BY <3>1, <3>2, <3>3
  <2>3. QED
    BY <2>1, <2>2
<1>2. pending' \in Dates /\ checked_in' \in Dates
  BY FlushTypes DEF TakePending, TakeCheckIns, TypeOK
<1>3. UNCHANGED <<rowVars, loop, writer, stage, boundVars>>
  BY DEF TakePending, TakeCheckIns
<1>4. QED
  BY <1>1, <1>2, <1>3 DEF TypeOK, Working, rowVars, boundVars

LEMMA ReadKeepsShape ==
  ASSUME Shape, NEW f \in Flushers, NEW i \in Ids, Read(f, i)
  PROVE  Shape'
<1> USE DEF Shape
<1> DEFINE old == flushing[f]
           active == i \in Entries(old.writing)
           rest == IF active THEN [old.checked_in EXCEPT ![i] = None] ELSE old.checked_in
           cur == [id |-> i, row |-> RowOf(i), playback |-> old.checked_in[i],
                   when |-> IF active THEN old.writing[i] ELSE old.checked_in[i]]
           new == [old EXCEPT !.pc = "writing", !.checked_in = rest, !.cur = cur]
<1>1. old \in Flush /\ old.writing \in Dates /\ old.checked_in \in Dates
  BY DEF TypeOK, Flush
<1>2. i \in Entries(old.writing) \union Entries(old.checked_in)
  BY DEF Read, Todo
<1>3. rest \in Dates
  BY <1>1 DEF Dates
<1>4. cur \in Touched
  BY <1>1, <1>2, RowOfType DEF Touched, Dates, Entries
<1>5. new \in Flush
  BY <1>1, <1>3, <1>4, FlushTypes
<1>6. new.cur = cur
  BY <1>1 DEF Flush
<1>7. flushing' = [flushing EXCEPT ![f] = new]
  BY DEF Read
<1>8. UNCHANGED <<rowVars, pending, checked_in, loop, writer, stage, boundVars>>
  BY DEF Read
<1> HIDE DEF new, cur, rest
<1>9. QED
  BY <1>4, <1>5, <1>6, <1>7, <1>8 DEF TypeOK, Working, rowVars, boundVars

LEMMA WriteKeepsShape ==
  ASSUME Shape, NEW f \in Flushers, Write(f)
  PROVE  Shape'
<1> USE DEF Shape
<1> DEFINE old == flushing[f]
           all == old.written \union {old.cur}
           new == [old EXCEPT !.pc = "reading", !.cur = None, !.written = all]
<1>1. old \in Flush /\ old.cur \in Touched
  BY DEF Write, TypeOK, Working
<1>2. all \in SUBSET Touched
  BY <1>1 DEF Flush
<1>3. new \in Flush
  BY <1>1, <1>2, FlushTypes
<1>4. new.pc = "reading"
  BY <1>1 DEF Flush
<1>5. flushing' = [flushing EXCEPT ![f] = new]
  BY DEF Write
<1>6. writer' \in {writer, f}
  BY DEF Write
<1>7. UNCHANGED <<rowVars, pending, checked_in, loop, stage, boundVars>>
  BY DEF Write
<1> HIDE DEF new
<1>8. QED
  BY <1>3, <1>4, <1>5, <1>6, <1>7 DEF TypeOK, Working, rowVars, boundVars

\* A flush that commits writes rows of the sessions that are there, and makes none.
LEMMA CommittedRows ==
  ASSUME Shape, NEW f \in Flushers, Commit(f)
  PROVE  /\ sessions' \in [Devices -> Session \union {None}]
         /\ \A d \in Devices : (sessions'[d] = None) <=> (sessions[d] = None)
<1> USE DEF Shape
<1> DEFINE mine(d) == {w \in flushing[f].written :
                         Changes(w) /\ sessions[d] # None /\ w.id = sessions[d].id}
           row(d) == IF mine(d) = {} THEN sessions[d]
                     ELSE Assigned(sessions[d], CHOOSE w \in mine(d) : TRUE)
<1>1. sessions' = [d \in Devices |-> row(d)]
  BY DEF Commit
<1>2. ASSUME NEW d \in Devices
      PROVE  row(d) \in Session \union {None} /\ (row(d) = None <=> sessions[d] = None)
  <2>1. CASE mine(d) = {}
    BY <2>1 DEF TypeOK
  <2>2. CASE mine(d) # {}
    <3>1. PICK w \in mine(d) : w = CHOOSE v \in mine(d) : TRUE
      BY <2>2
    <3>2. w \in Touched /\ w.row # None /\ sessions[d] # None
      BY <3>1 DEF TypeOK, Flush, Changes
    <3>3. sessions[d] \in Session
      BY <3>2 DEF TypeOK
    <3>4. row(d) = Assigned(sessions[d], w)
      BY <2>2, <3>1
    <3>5. row(d) \in Session
      BY <3>2, <3>3, <3>4, AssignedType
    <3>6. QED
      BY <3>2, <3>5, NoSessionAssumption
  <2>3. QED
    BY <2>1, <2>2
<1> HIDE DEF row
<1>3. QED
  BY <1>1, <1>2

LEMMA CommitKeepsShape ==
  ASSUME Shape, NEW f \in Flushers, Commit(f)
  PROVE  Shape'
<1> USE DEF Shape
<1>1. sessions' \in [Devices -> Session \union {None}]
  BY CommittedRows
<1>2. stage' \in {"up", "stopping", "stopped"} /\ writer' \in {writer, None}
  BY DEF Commit, StageAfter, TypeOK
<1>3. flushing' = [flushing EXCEPT ![f] = Resting]
      /\ UNCHANGED <<tokens, invalid_login_attempt_count, pending, checked_in, loop,
                     boundVars>>
  BY DEF Commit
<1>4. QED
  BY <1>1, <1>2, <1>3, FlushTypes DEF TypeOK, Working, boundVars

LEMMA FailureKeepsShape ==
  ASSUME Shape, NEW f \in Flushers, Fail(f) \/ Stale(f)
  PROVE  Shape'
<1> USE DEF Shape
<1>1. RollBack(f) /\ failures' \in 0..MaxFailures
  BY Numbers DEF Fail, Stale, TypeOK
<1>2. flushing[f].writing \in Dates /\ flushing[f].checked_in \in Dates
  BY DEF TypeOK, Flush
<1>3. pending' \in Dates /\ checked_in' \in Dates
  BY <1>1, <1>2, PutBackType DEF RollBack, TypeOK
<1>4. stage' \in {"up", "stopping", "stopped"} /\ writer' \in {writer, None}
  BY <1>1 DEF RollBack, StageAfter, TypeOK
<1> DEFINE x == [Resting EXCEPT !.failed = TRUE]
<1>5. x \in Flush
  BY FlushTypes, Zenon
<1>6. x.pc = "idle"
  BY DEF Resting
<1>7. flushing' = [flushing EXCEPT ![f] = x] /\ UNCHANGED <<rowVars, loop, clock, logins>>
  BY <1>1 DEF RollBack
<1> HIDE DEF x
<1>8. QED
  BY <1>1, <1>3, <1>4, <1>5, <1>6, <1>7 DEF TypeOK, Working, rowVars

LEMMA ClockAndStopKeepShape ==
  ASSUME Shape, Tick \/ BeginStop \/ EndStop
  PROVE  Shape'
<1> USE DEF Shape
<1>1. clock' \in 0..MaxTime
  BY Numbers DEF Tick, BeginStop, EndStop, TypeOK, boundVars
<1>2. stage' \in {"up", "stopping", "stopped"}
  BY DEF Tick, BeginStop, EndStop, TypeOK
<1>3. UNCHANGED <<rowVars, pending, checked_in, loop, flushing, writer, logins, failures>>
  BY DEF Tick, BeginStop, EndStop, boundVars
<1>4. QED
  BY <1>1, <1>2, <1>3 DEF TypeOK, Working, rowVars

LEMMA StepKeepsShape ==
  ASSUME Shape, [Next]_vars
  PROVE  Shape'
<1>1. CASE UNCHANGED vars
  BY <1>1 DEF Shape, TypeOK, Working, vars, rowVars, boundVars
<1>2. CASE Next
  BY <1>2, RequestKeepsShape, HandlerKeepsShape, LoginKeepsShape, EstablishKeepsShape,
     TakingKeepsShape, ReadKeepsShape, WriteKeepsShape, CommitKeepsShape,
     FailureKeepsShape, ClockAndStopKeepShape
     DEF Next, HandlerStep, FlushStep
<1>3. QED
  BY <1>1, <1>2

LEMMA StartHasShape == ASSUME Init PROVE Shape
<1>1. Empty \in Dates /\ Resting \in Flush /\ Resting.pc = "idle"
  BY FlushTypes
<1>2. Idle \in Handler /\ Idle.pc = "idle"
  BY DEF Idle, Handler
<1>3. QED
  BY <1>1, <1>2, Numbers DEF Init, Shape, TypeOK, Working

LEMMA ShapeHolds == Spec => []Shape
<1>1. Init => Shape
  BY StartHasShape
<1>2. Shape /\ [Next]_vars => Shape'
  BY StepKeepsShape
<1>3. QED
  BY <1>1, <1>2, PTL DEF Spec

\* Every variable keeps its type: a handler and a flush always have in their hands what
\* their next statement needs.
THEOREM TypesHold == Spec => []TypeOK
<1>1. Shape => TypeOK
  BY DEF Shape
<1>2. QED
  BY <1>1, ShapeHolds, PTL

----------------------------------------------------------------------------
(* Credentials and sessions.                                               *)

Holders == {d \in Devices : sessions[d] # None}

TokensOf(d) == {t \in tokens : t.device = d}

\* Evicting the surplus leaves room for the session that the login creates.
LEMMA EvictionMakesRoom ==
  ASSUME NEW d \in Devices, NEW out \in SUBSET Devices, Surplus(d, out),
         max_active_sessions > 0
  PROVE  Cardinality((Holders \ out) \union {d}) <= max_active_sessions
<1> DEFINE others == {o \in Devices \ {d} : sessions[o] # None}
           room == IF max_active_sessions >= 1 THEN max_active_sessions - 1 ELSE 0
           kept == others \ out
<1>1. IsFiniteSet(others) /\ IsFiniteSet(kept)
  BY DevicesAssumption, FS_Subset
<1>2. Cardinality(others) \in Nat /\ Cardinality(kept) \in Nat
  BY <1>1, FS_CardinalityType
<1>3. Cardinality(kept) = IF Cardinality(others) <= room THEN Cardinality(others) ELSE room
  BY Numbers DEF Surplus
<1>4. room = max_active_sessions - 1
  BY Numbers
<1>5. Cardinality(kept) <= max_active_sessions - 1
  BY <1>2, <1>3, <1>4, Numbers
<1>6. (Holders \ out) \union {d} = kept \union {d} /\ d \notin kept
  BY DEF Holders
<1>7. Cardinality(kept \union {d}) = Cardinality(kept) + 1
  BY <1>1, <1>6, FS_AddElement
<1>8. QED
  BY <1>2, <1>5, <1>6, <1>7, Numbers

\* A login replaces the credentials of its device and removes those of the surplus.
LEMMA LoginMatches ==
  ASSUME Shape, CredentialsMatchSessions,
         NEW d \in Devices, NEW out \in SUBSET Devices, Establish(d, out),
         ~UNCHANGED rowVars
  PROVE  CredentialsMatchSessions'
<1> DEFINE token == [id |-> loop.id, device |-> d, created |-> loop.when]
<1>1. /\ loop.pc = "login" /\ d = loop.device
      /\ Surplus(d, out)
      /\ sessions' = [o \in Devices |-> IF o \in out THEN None
                                        ELSE IF o = d THEN SessionAfter(d)
                                        ELSE sessions[o]]
      /\ tokens' = {t \in tokens : t.device \notin out \union {d}} \union {token}
  BY DEF Establish
<1>2. d \notin out /\ token.device = d
  BY <1>1 DEF Surplus
<1>3. SessionAfter(d) # None
  BY <1>1, EstablishedRows, NoSessionAssumption
<1>4. \A t \in tokens' : sessions'[t.device] # None
  BY <1>1, <1>2, <1>3 DEF CredentialsMatchSessions, Shape, TypeOK, Token
<1>5. ASSUME NEW o \in Devices, sessions'[o] # None
      PROVE  Cardinality(TokensOf(o)') = 1
  <2>1. CASE o = d
    <3>1. TokensOf(o)' = {token}
      BY <1>1, <1>2, <2>1 DEF TokensOf
    <3>2. QED
      BY <3>1, FS_Singleton
  <2>2. CASE o # d
    <3>1. o \notin out /\ sessions[o] # None
      BY <1>1, <1>5, <2>2
    <3>2. TokensOf(o)' = TokensOf(o)
      BY <1>1, <1>2, <2>2, <3>1 DEF TokensOf
    <3>3. QED
      BY <3>1, <3>2 DEF CredentialsMatchSessions, TokensOf
  <2>3. QED
    BY <2>1, <2>2
<1>6. max_active_sessions > 0 => Cardinality(Holders') <= max_active_sessions
  <2>1. Holders' = (Holders \ out) \union {d}
    BY <1>1, <1>2, <1>3 DEF Holders
  <2>2. QED
    BY <1>1, <2>1, EvictionMakesRoom
<1>7. QED
  BY <1>4, <1>5, <1>6 DEF CredentialsMatchSessions, TokensOf, Holders

\* Where no row of a session comes or goes, credentials match as before.
LEMMA StillMatching ==
  ASSUME CredentialsMatchSessions, tokens' = tokens, tokens \subseteq Token,
         \A d \in Devices : (sessions'[d] = None) <=> (sessions[d] = None)
  PROVE  CredentialsMatchSessions'
<1>1. Holders' = Holders /\ \A d : TokensOf(d)' = TokensOf(d)
  BY DEF Holders, TokensOf
<1>2. \A t \in tokens' : sessions'[t.device] # None
  BY DEF CredentialsMatchSessions, Token
<1>3. \A d \in Devices : sessions'[d] # None => Cardinality(TokensOf(d)') = 1
  BY <1>1 DEF CredentialsMatchSessions, TokensOf
<1>4. max_active_sessions > 0 => Cardinality(Holders') <= max_active_sessions
  BY <1>1 DEF CredentialsMatchSessions, Holders
<1>5. QED
  BY <1>2, <1>3, <1>4 DEF CredentialsMatchSessions, TokensOf, Holders

LEMMA StepKeepsMatching ==
  ASSUME Shape, CredentialsMatchSessions, [Next]_vars
  PROVE  CredentialsMatchSessions'
<1>1. tokens \subseteq Token
  BY DEF Shape, TypeOK
<1>2. CASE \E d \in Devices : \E out \in SUBSET Devices :
             Establish(d, out) /\ ~UNCHANGED rowVars
  BY <1>2, LoginMatches
<1>3. CASE \E f \in Flushers : Commit(f)
  <2>1. tokens' = tokens
    BY <1>3 DEF Commit
  <2>2. \A d \in Devices : (sessions'[d] = None) <=> (sessions[d] = None)
    BY <1>3, CommittedRows
  <2>3. QED
    BY <1>1, <2>1, <2>2, StillMatching
<1>4. CASE UNCHANGED <<sessions, tokens>>
  BY <1>1, <1>4, StillMatching
<1>5. \/ \E d \in Devices : \E out \in SUBSET Devices :
             Establish(d, out) /\ ~UNCHANGED rowVars
      \/ \E f \in Flushers : Commit(f)
      \/ UNCHANGED <<sessions, tokens>>
  BY DEF Next, HandlerStep, FlushStep, vars, rowVars, Request, CheckIn, LookUpHeld,
         TouchSession, WrongPassword, Authenticate, TakePending, TakeCheckIns, Read,
         Write, Stale, Fail, RollBack, Tick, BeginStop, EndStop
<1>6. QED
  BY <1>2, <1>3, <1>4, <1>5

\* A device has one token exactly as long as it has a session, and the sessions stay
\* within the cap, for any number of devices and logins (`establish_in`, `_evict`).
THEOREM CredentialsMatch == Spec => []CredentialsMatchSessions
<1>1. Init => CredentialsMatchSessions
  <2>1. SUFFICES ASSUME Init PROVE CredentialsMatchSessions
    OBVIOUS
  <2>2. Holders = {} /\ tokens = {} /\ \A d \in Devices : sessions[d] = None
    BY <2>1 DEF Init, Holders
  <2>3. Cardinality(Holders) = 0
    BY <2>2, FS_EmptySet
  <2>4. QED
    BY <2>2, <2>3, Numbers DEF CredentialsMatchSessions, Holders
<1>2. Shape /\ CredentialsMatchSessions /\ [Next]_vars => CredentialsMatchSessions'
  BY StepKeepsMatching
<1>3. QED
  BY <1>1, <1>2, ShapeHolds, PTL DEF Spec

----------------------------------------------------------------------------
(* The clean stop.                                                         *)

\* The last flush is asked for when the server no longer serves, and what it has taken
\* stays taken unless the flush of the thread fails and puts its own back.
Stopping ==
  /\ stage = "up" => flushing["stop"] = Resting
  /\ stage # "up" => loop.pc = "idle"
  /\ flushing["thread"].failed => flushing["thread"].pc = "idle"
  /\ flushing["stop"].failed => flushing["stop"].pc = "idle"
  /\ stage = "stopped" => flushing["stop"].pc = "idle"
  /\ stage # "up" /\ ~flushing["thread"].failed /\ ~flushing["stop"].failed =>
       /\ flushing["stop"].pc # "idle" \/ stage = "stopped" => pending = Empty
       /\ flushing["stop"].pc \in {"reading", "writing"} \/ stage = "stopped" =>
            checked_in = Empty

LEMMA NoEntries ==
  ASSUME NEW dates \in Dates
  PROVE  Entries(dates) = {} <=> dates = Empty
BY DEF Dates, Entries, Empty

LEMMA FlushKeepsStopping ==
  ASSUME Shape, Stopping, NEW f \in Flushers, FlushStep(f)
  PROVE  Stopping'
<1> USE DEF Shape
<1>1. flushing \in [Flushers -> Flush] /\ loop' = loop
  BY DEF TypeOK, FlushStep, TakePending, TakeCheckIns, Read, Write, Commit, Stale, Fail,
         RollBack
<1>2. CASE TakePending(f)
  <2> DEFINE x == [Resting EXCEPT !.pc = "taking", !.writing = pending]
  <2>1. x.pc = "taking" /\ x.failed = FALSE
    BY DEF Resting
  <2>2. /\ flushing' = [flushing EXCEPT ![f] = x] /\ pending' = Empty
        /\ stage' = stage /\ checked_in' = checked_in
        /\ IF f = "thread" THEN stage = "up" ELSE stage = "stopping"
    BY <1>2 DEF TakePending, Due
  <2> HIDE DEF x
  <2>3. QED
    BY <1>1, <2>1, <2>2 DEF Stopping
<1>3. CASE TakeCheckIns(f)
  <2> DEFINE x == [flushing[f] EXCEPT !.pc = "reading", !.checked_in = checked_in]
  <2>1. x.pc = "reading" /\ x.failed = flushing[f].failed
    BY <1>1 DEF Flush
  <2>2. /\ flushing' = [flushing EXCEPT ![f] = x] /\ checked_in' = Empty
        /\ stage' = stage /\ pending' = pending /\ flushing[f].pc = "taking"
    BY <1>3 DEF TakeCheckIns
  <2> HIDE DEF x
  <2>3. Resting.pc = "idle"
    BY DEF Resting
  <2>4. QED
    BY <1>1, <2>1, <2>2, <2>3 DEF Stopping
<1>4. CASE Write(f) \/ \E i \in Ids : Read(f, i)
  <2>1. PICK x : /\ flushing' = [flushing EXCEPT ![f] = x]
                 /\ x.pc \in {"reading", "writing"} /\ x.failed = flushing[f].failed
    <3>1. CASE Write(f)
      <4> DEFINE x == [flushing[f] EXCEPT !.pc = "reading", !.cur = None,
                                          !.written = @ \union {flushing[f].cur}]
      <4>1. x.pc = "reading" /\ x.failed = flushing[f].failed
        BY <1>1 DEF Flush
      <4>2. flushing' = [flushing EXCEPT ![f] = x]
        BY <3>1 DEF Write
      <4> HIDE DEF x
      <4>3. QED
        BY <4>1, <4>2
    <3>2. ASSUME NEW i \in Ids, Read(f, i)
          PROVE  \E x : /\ flushing' = [flushing EXCEPT ![f] = x]
                        /\ x.pc \in {"reading", "writing"}
                        /\ x.failed = flushing[f].failed
      <4>1. PICK rest, cur :
              flushing' = [flushing EXCEPT ![f] =
                [flushing[f] EXCEPT !.pc = "writing", !.checked_in = rest, !.cur = cur]]
        BY <3>2 DEF Read
      <4> DEFINE x == [flushing[f] EXCEPT !.pc = "writing", !.checked_in = rest,
                                          !.cur = cur]
      <4>2. x.pc = "writing" /\ x.failed = flushing[f].failed
        BY <1>1 DEF Flush
      <4>3. flushing' = [flushing EXCEPT ![f] = x]
        BY <4>1
      <4> HIDE DEF x
      <4>4. QED
        BY <4>2, <4>3
    <3>3. QED
      BY <1>4, <3>1, <3>2
  <2>2. flushing[f].pc \in {"reading", "writing"}
        /\ UNCHANGED <<stage, pending, checked_in>>
    BY <1>4 DEF Write, Read
  <2>3. Resting.pc = "idle"
    BY DEF Resting
  <2>4. QED
    BY <1>1, <2>1, <2>2, <2>3 DEF Stopping
<1>5. CASE Commit(f)
  <2>1. /\ flushing' = [flushing EXCEPT ![f] = Resting] /\ flushing[f].pc = "reading"
        /\ stage' = StageAfter(f) /\ UNCHANGED <<pending, checked_in>>
    BY <1>5 DEF Commit
  <2>2. Resting.pc = "idle" /\ Resting.failed = FALSE
    BY DEF Resting
  <2>3. stage \in {"up", "stopping", "stopped"} /\ (f = "stop" => stage = "stopping")
    BY <2>1, <2>2 DEF Stopping, TypeOK
  <2>4. CASE f = "stop"
    BY <1>1, <2>1, <2>2, <2>3, <2>4 DEF Stopping, StageAfter
  <2>5. CASE f = "thread"
    BY <1>1, <2>1, <2>2, <2>3, <2>5 DEF Stopping, StageAfter
  <2>6. QED
    BY <2>4, <2>5
<1>6. CASE Stale(f) \/ Fail(f)
  <2> DEFINE x == [Resting EXCEPT !.failed = TRUE]
  <2>1. x.pc = "idle" /\ x.failed = TRUE
    BY DEF Resting
  <2>2. /\ flushing' = [flushing EXCEPT ![f] = x] /\ stage' = StageAfter(f)
        /\ flushing[f].pc \in {"reading", "writing"}
    BY <1>6 DEF Stale, Fail, RollBack
  <2> HIDE DEF x
  <2>3. Resting.pc = "idle"
    BY DEF Resting
  <2>4. stage \in {"up", "stopping", "stopped"} /\ (f = "stop" => stage = "stopping")
    BY <2>2, <2>3 DEF Stopping, TypeOK
  <2>5. QED
    BY <1>1, <2>1, <2>2, <2>4 DEF Stopping, StageAfter
<1>7. QED
  BY <1>2, <1>3, <1>4, <1>5, <1>6 DEF FlushStep

LEMMA StepKeepsStopping ==
  ASSUME Shape, Stopping, [Next]_vars
  PROVE  Stopping'
<1>1. CASE UNCHANGED vars
  BY <1>1 DEF vars, Stopping
<1>2. CASE \/ \E t \in tokens : \E reports \in BOOLEAN : Request(t, reports)
           \/ \E d \in Devices : Authenticate(d)
           \/ WrongPassword \/ HandlerStep
  <2>1. (loop.pc = "idle" => stage = "up") /\ UNCHANGED <<flushing, stage>>
    BY <1>2 DEF Request, Authenticate, WrongPassword, HandlerStep, CheckIn, LookUpHeld,
                TouchSession, Establish
  <2>2. stage = "up"
    BY <2>1 DEF Stopping
  <2>3. QED
    BY <2>1, <2>2 DEF Stopping
<1>3. CASE \E f \in Flushers : FlushStep(f)
  BY <1>3, FlushKeepsStopping
<1>4. CASE Tick
  BY <1>4 DEF Tick, Stopping
<1>5. CASE BeginStop
  <2>1. Resting.pc = "idle" /\ Resting.failed = FALSE
    BY DEF Resting
  <2>2. QED
    BY <1>5, <2>1 DEF BeginStop, Stopping
<1>6. CASE EndStop
  <2>1. pending = Empty /\ checked_in = Empty
    BY <1>6, NoEntries DEF EndStop, Shape, TypeOK
  <2>2. QED
    BY <1>6, <2>1 DEF EndStop, Stopping
<1>7. QED
  BY <1>1, <1>2, <1>3, <1>4, <1>5, <1>6 DEF Next

\* When the process ends, nothing is left in memory unless a flush failed, for any number
\* of devices (the lifespan of server.py, `flush` of users/sessions.py).
THEOREM CleanStop == Spec => []CleanStopLeavesNothing
<1>1. Init => Stopping
  BY DEF Init, Stopping, Resting, Idle
<1>2. Shape /\ Stopping /\ [Next]_vars => Stopping'
  BY StepKeepsStopping
<1>3. Shape /\ Stopping => CleanStopLeavesNothing
  BY NoEntries DEF Shape, Stopping, TypeOK, CleanStopLeavesNothing
<1>4. QED
  BY <1>1, <1>2, <1>3, ShapeHolds, PTL DEF Spec

----------------------------------------------------------------------------
(* The dates a session is known by.                                        *)

Up == stage = "up"

Thread == flushing["thread"]

\* What the flush of the thread has read.
Seen == (Thread.written \union {Thread.cur}) \ {None}

\* The handler in progress goes by the moment it began.
Now == IF loop.pc = "idle" THEN clock ELSE loop.when

Past(x) == x = None \/ x <= Now

NotBefore(x, y) == x = None \/ y = None \/ x >= y

\* No date lies in the future.
Timed ==
  /\ Now <= clock
  /\ \A i \in Ids : /\ Past(pending[i]) /\ Past(checked_in[i])
                    /\ Past(Thread.writing[i]) /\ Past(Thread.checked_in[i])
  /\ \A w \in Seen : /\ Past(w.when) /\ Past(w.playback)
                     /\ w.row # None => Past(w.row.last_playback_check_in)
  /\ \A d \in Devices : sessions[d] # None =>
       /\ Past(sessions[d].last_activity_date)
       /\ Past(sessions[d].last_playback_check_in)

\* The flush takes, then reads every session once.
InOrder ==
  /\ Thread.pc \in {"idle", "taking"} => Thread.checked_in = Empty /\ Seen = {}
  /\ Thread.pc = "idle" => Thread.writing = Empty
  /\ Thread.pc = "reading" => Thread.cur = None
  /\ Thread.pc = "writing" => \A w \in Thread.written : w.id # Thread.cur.id
  /\ \A v, w \in Thread.written : v.id = w.id => v = w
  /\ \A w \in Seen : Thread.checked_in[w.id] \in {None, w.playback}

\* The logins that have named a session.
Begun(i) == i <= logins /\ ~(loop.pc = "login" /\ i = loop.id)

\* Nothing is held of a session that no login has named, and no two devices share one.
Named ==
  /\ \A i \in Ids : ~Begun(i) => /\ pending[i] = None /\ checked_in[i] = None
                                 /\ Thread.writing[i] = None /\ Thread.checked_in[i] = None
  /\ \A w \in Seen : Begun(w.id)
  /\ loop.pc \notin {"idle", "login"} => Begun(loop.id)
  /\ loop.pc = "login" => loop.id = logins
  /\ \A d \in Devices : sessions[d] # None => Begun(sessions[d].id)
  /\ \A d, e \in Devices : sessions[d] # None /\ sessions[e] # None
                             /\ sessions[d].id = sessions[e].id => d = e

Behind(d, x) == \E t \in tokens : t.device = d /\ x <= t.created

\* A date that may be written over the activity of a device.
MayFollow(d, x) == NotBefore(x, sessions[d].last_activity_date) \/ Behind(d, x)

\* What is held of the session of a device is no older than its row, or older than its
\* last login.
Owned == \A d \in Devices : sessions[d] # None =>
  /\ MayFollow(d, pending[sessions[d].id])
  /\ MayFollow(d, checked_in[sessions[d].id])
  /\ MayFollow(d, Thread.writing[sessions[d].id])
  /\ MayFollow(d, Thread.checked_in[sessions[d].id])
  /\ NotBefore(checked_in[sessions[d].id], sessions[d].last_playback_check_in)
  /\ NotBefore(Thread.checked_in[sessions[d].id], sessions[d].last_playback_check_in)
  /\ \A w \in Seen : w.id = sessions[d].id =>
       /\ MayFollow(d, w.when)
       /\ NotBefore(w.playback, sessions[d].last_playback_check_in)
       /\ w.row # None
       /\ \/ w.row.last_playback_check_in \in {None, sessions[d].last_playback_check_in}
          \/ Behind(d, w.row.last_playback_check_in)

\* A date not before what the flush is to write of a session.
Above(x, i) ==
  /\ NotBefore(x, Thread.writing[i])
  /\ Thread.writing[i] = None => NotBefore(x, Thread.checked_in[i])
  /\ \A w \in Seen : w.id = i => NotBefore(x, w.when)

\* What arrived after the flush took is newer than what it took.
Ordered ==
  /\ \A i \in Ids : pending[i] # None =>
       /\ Above(pending[i], i)
       /\ Thread.pc = "taking" /\ Thread.writing[i] = None =>
            NotBefore(pending[i], checked_in[i])
  /\ Thread.pc \in {"reading", "writing"} => \A i \in Ids : checked_in[i] # None =>
       /\ Above(checked_in[i], i)
       /\ NotBefore(checked_in[i], Thread.checked_in[i])
       /\ \A w \in Seen : w.id = i => NotBefore(checked_in[i], w.playback)
  /\ loop.pc = "authenticated" =>
       /\ pending[loop.id] \in {None, loop.when}
       /\ pending[loop.id] = None => Thread.writing[loop.id] \in {None, loop.when}

Dated == Timed /\ InOrder /\ Named /\ Owned /\ Ordered

----------------------------------------------------------------------------
\* The dates held of a session, and what comes with them.
LEMMA Values ==
  ASSUME Shape
  PROVE  /\ Thread \in Flush /\ flushing \in [Flushers -> Flush]
         /\ Seen \subseteq Touched
         /\ \A i \in Ids : /\ pending[i] \in Nat \union {None}
                           /\ checked_in[i] \in Nat \union {None}
                           /\ Thread.writing[i] \in Nat \union {None}
                           /\ Thread.checked_in[i] \in Nat \union {None}
         /\ \A w \in Seen : /\ w.id \in Ids /\ w.when \in Nat
                            /\ w.playback \in Nat \union {None}
                            /\ w.row # None =>
                                 w.row.last_playback_check_in \in Nat \union {None}
         /\ \A d \in Devices : sessions[d] # None =>
              /\ sessions[d] \in Session
              /\ sessions[d].id \in Ids /\ sessions[d].last_activity_date \in Nat
              /\ sessions[d].last_playback_check_in \in Nat \union {None}
         /\ \A t \in tokens : t.device \in Devices /\ t.created \in Nat
         /\ loop.when \in Nat /\ clock \in Nat /\ Now \in Nat /\ logins \in Nat
         /\ None \notin Nat
<1> USE DEF Shape
<1>1. flushing \in [Flushers -> Flush] /\ Thread \in Flush
  BY DEF Thread, TypeOK
<1>2. Seen \subseteq Touched
  BY <1>1 DEF Seen, Flush
<1>3. \A i \in Ids : /\ pending[i] \in Nat \union {None}
                     /\ checked_in[i] \in Nat \union {None}
                     /\ Thread.writing[i] \in Nat \union {None}
                     /\ Thread.checked_in[i] \in Nat \union {None}
  BY <1>1 DEF TypeOK, Dates, Flush
<1>4. \A w \in Seen : /\ w.id \in Ids /\ w.when \in Nat
                      /\ w.playback \in Nat \union {None}
                      /\ w.row # None =>
                           w.row.last_playback_check_in \in Nat \union {None}
  BY <1>2 DEF Touched, Session
<1>5. \A d \in Devices : sessions[d] # None =>
        /\ sessions[d] \in Session
        /\ sessions[d].id \in Ids /\ sessions[d].last_activity_date \in Nat
        /\ sessions[d].last_playback_check_in \in Nat \union {None}
  BY DEF TypeOK, Session
<1>6. \A t \in tokens : t.device \in Devices /\ t.created \in Nat
  BY DEF TypeOK, Token
<1>7. loop.when \in Nat /\ clock \in Nat /\ logins \in Nat
  BY Numbers DEF TypeOK, Handler
<1>8. Now \in Nat
  BY <1>7 DEF Now
<1>9. QED
  BY <1>1, <1>2, <1>3, <1>4, <1>5, <1>6, <1>7, <1>8, Numbers

\* While the server is up the flush of the thread is the only one.
LEMMA OnlyTheThread ==
  ASSUME Shape, Stopping, Up, NEW f \in Flushers, FlushStep(f)
  PROVE  f = "thread" /\ Up'
<1>1. flushing["stop"].pc = "idle"
  BY DEF Stopping, Up, Resting
<1>2. f # "stop"
  <2>1. SUFFICES ASSUME f = "stop" PROVE FALSE
    OBVIOUS
  <2>2. flushing[f].pc = "idle" /\ stage = "up"
    BY <1>1, <2>1 DEF Up
  <2>3. QED
    BY <2>1, <2>2 DEF FlushStep, TakePending, Due, TakeCheckIns, Read, Write, Commit,
                      Stale, Fail
<1>3. f = "thread"
  BY <1>2
<1>4. QED
  BY <1>3 DEF Up, FlushStep, TakePending, TakeCheckIns, Read, Write, Commit, Stale, Fail,
              RollBack, StageAfter

----------------------------------------------------------------------------
(* Handlers and the clock.                                                 *)

Handling ==
  \/ \E t \in tokens : \E reports \in BOOLEAN : Request(t, reports)
  \/ CheckIn \/ LookUpHeld \/ TouchSession
  \/ \E d \in Devices : Authenticate(d)
  \/ WrongPassword \/ Tick

\* The date a handler brings is the latest there is.
LEMMA HandlingBrings ==
  ASSUME Shape, Dated, Handling
  PROVE  /\ UNCHANGED <<sessions, tokens, flushing>>
         /\ Now <= Now' /\ Now' <= clock'
         /\ \A i \in Ids : /\ pending'[i] = pending[i] \/ (pending'[i] = Now /\ Begun(i))
                           /\ \/ checked_in'[i] = checked_in[i]
                              \/ /\ checked_in'[i] = Now /\ Begun(i)
                                 /\ pending'[i] \in {None, Now}
         /\ \A i \in Ids : Begun(i)' <=> Begun(i)
         /\ loop'.pc \notin {"idle", "login"} => Begun(loop'.id)
         /\ loop'.pc = "login" => loop'.id = logins'
         /\ loop'.pc = "authenticated" => pending'[loop'.id] \in {None, loop'.when} /\
              (pending'[loop'.id] = None => Thread.writing[loop'.id] \in {None, loop'.when})
<1> USE DEF Dated
<1>0. Now <= clock /\ logins \in Nat /\ clock \in Nat /\ Now \in Nat
  BY Values DEF Timed
<1>a. pending \in Dates /\ checked_in \in Dates /\ loop \in Handler
  BY DEF Shape, TypeOK
<1>1. CASE \E t \in tokens : \E reports \in BOOLEAN : Request(t, reports)
  <2>0. PICK t \in tokens, reports \in BOOLEAN : Request(t, reports)
    BY <1>1
  <2>1. loop.pc = "idle" /\ Now = clock
        /\ UNCHANGED <<sessions, tokens, flushing, checked_in, clock, logins>>
    BY <2>0 DEF Request, Now, rowVars, boundVars
  <2>2. t.device \in Devices
    BY Values
  <2>3. /\ UNCHANGED <<sessions, tokens, flushing, checked_in, clock, logins>>
        /\ loop.pc = "idle" /\ loop'.pc \in {"idle", "authenticated"}
        /\ Now' = Now
        /\ \A i \in Ids : pending'[i] = pending[i] \/ (pending'[i] = Now /\ Begun(i))
        /\ loop'.pc = "authenticated" =>
             Begun(loop'.id) /\ loop'.when = Now /\ pending'[loop'.id] = Now
    <3>1. CASE sessions[t.device] = None
      BY <2>0, <2>1, <3>1 DEF Request, Now, Idle
    <3>2. CASE sessions[t.device] # None
      <4> DEFINE id == sessions[t.device].id
      <4>1. id \in Ids /\ Begun(id)
        BY <2>2, <3>2, Values DEF Named
      <4>2. pending' = [pending EXCEPT ![id] = clock]
        BY <2>0, <3>2 DEF Request
      <4>3. loop' = Idle \/ loop' = [pc |-> "authenticated", device |-> None, id |-> id,
                                     when |-> clock]
        BY <2>0, <3>2 DEF Request
      <4>4. \A i \in Ids : pending'[i] = IF i = id THEN clock ELSE pending[i]
        BY <1>a, <4>1, <4>2 DEF Dates
      <4> HIDE DEF id
      <4>5. QED
        BY <2>1, <4>1, <4>3, <4>4 DEF Now, Idle
    <3>3. QED
      BY <3>1, <3>2
  <2>4. \A i \in Ids : Begun(i)' <=> Begun(i)
    BY <2>3 DEF Begun
  <2>5. None \notin Nat
    BY Numbers
  <2>6. QED
    BY <1>0, <2>3, <2>4, <2>5
<1>2. ASSUME CheckIn \/ LookUpHeld \/ TouchSession
      PROVE  /\ UNCHANGED <<sessions, tokens, flushing, clock, logins>>
             /\ loop.pc \notin {"idle", "login"} /\ loop'.pc \in {"idle", "checked", "held"}
             /\ loop'.pc # "idle" => loop'.id = loop.id /\ loop'.when = loop.when
             /\ \A i \in Ids : /\ pending'[i] = pending[i]
                                  \/ (pending'[i] = Now /\ Begun(i))
                               /\ \/ checked_in'[i] = checked_in[i]
                                  \/ /\ checked_in'[i] = Now /\ Begun(i)
                                     /\ pending'[i] \in {None, Now}
  <2>1. loop.pc \notin {"idle", "login"} /\ Now = loop.when /\ loop.id \in Ids
        /\ Begun(loop.id)
    BY <1>2 DEF CheckIn, LookUpHeld, TouchSession, Now, Shape, Working, Named
  <2>2. UNCHANGED <<sessions, tokens, flushing, clock, logins>>
    BY <1>2 DEF CheckIn, LookUpHeld, TouchSession, rowVars, boundVars
  <2>3. loop'.pc \in {"idle", "checked", "held"}
        /\ (loop'.pc # "idle" => loop'.id = loop.id /\ loop'.when = loop.when)
    BY <1>2, <1>a DEF CheckIn, LookUpHeld, TouchSession, Idle, Handler
  <2>4. CASE CheckIn
    <3>1. checked_in' = [checked_in EXCEPT ![loop.id] = Now] /\ pending' = pending
          /\ pending[loop.id] \in {None, Now}
      BY <2>1, <2>4 DEF CheckIn, Ordered
    <3>2. \A i \in Ids : checked_in'[i] = IF i = loop.id THEN Now ELSE checked_in[i]
      BY <1>a, <2>1, <3>1 DEF Dates
    <3>3. QED
      BY <2>1, <2>2, <2>3, <3>1, <3>2
  <2>5. CASE LookUpHeld
    BY <2>1, <2>2, <2>3, <2>5 DEF LookUpHeld
  <2>6. CASE TouchSession
    <3>1. pending' = [pending EXCEPT ![loop.id] = Now] /\ checked_in' = checked_in
      BY <2>1, <2>6 DEF TouchSession
    <3>2. \A i \in Ids : pending'[i] = IF i = loop.id THEN Now ELSE pending[i]
      BY <1>a, <2>1, <3>1 DEF Dates
    <3>3. QED
      BY <2>1, <2>2, <2>3, <3>1, <3>2
  <2>7. QED
    BY <1>2, <2>4, <2>5, <2>6
<1>4. CASE CheckIn \/ LookUpHeld \/ TouchSession
  <2>1. \A i \in Ids : Begun(i)' <=> Begun(i)
    BY <1>2, <1>4 DEF Begun
  <2>2. Begun(loop.id)
    BY <1>2, <1>4 DEF Named
  <2>3. Now <= Now' /\ Now' <= clock'
    BY <1>0, <1>2, <1>4 DEF Now
  <2>4. QED
    BY <1>2, <1>4, <2>1, <2>2, <2>3
<1>5. CASE WrongPassword \/ \E d \in Devices : Authenticate(d)
  <2>1. /\ UNCHANGED <<sessions, tokens, flushing, pending, checked_in, clock>>
        /\ Now' = Now /\ loop.pc = "idle"
        /\ \/ loop'.pc = "idle" /\ logins' = logins
           \/ loop'.pc = "login" /\ loop'.id = logins' /\ logins' = logins + 1
    BY <1>5 DEF WrongPassword, Authenticate, Now, rowVars, boundVars
  <2>2. \A i \in Ids : Begun(i)' <=> Begun(i)
    BY <1>0, <2>1, Numbers DEF Begun
  <2>3. QED
    BY <1>0, <2>1, <2>2
<1>6. CASE Tick
  <2>1. /\ UNCHANGED <<sessions, tokens, flushing, pending, checked_in, loop, logins>>
        /\ clock' = clock + 1
    BY <1>6 DEF Tick, rowVars
  <2>2. Now <= Now' /\ Now' <= clock'
    BY <1>0, <2>1 DEF Now
  <2>3. QED
    BY <2>1, <2>2 DEF Begun, Named, Ordered
<1>7. QED
  BY <1>1, <1>4, <1>5, <1>6 DEF Handling

\* What does not touch the flush keeps what it has seen.
LEMMA SameThread ==
  ASSUME UNCHANGED flushing
  PROVE  Thread' = Thread /\ Seen' = Seen
BY DEF Thread, Seen

LEMMA HandlingKeepsDates ==
  ASSUME Shape, Dated, Handling
  PROVE  Dated'
<1>0. UNCHANGED <<sessions, tokens, flushing>> /\ Thread' = Thread /\ Seen' = Seen
  BY HandlingBrings, SameThread
<1>1. Now <= Now' /\ Now' <= clock' /\ Now' \in Nat
  <2>1. Shape'
    BY StepKeepsShape DEF Handling, Next, HandlerStep
  <2>2. clock' \in Nat /\ loop'.when \in Nat
    BY <2>1, Numbers DEF Shape, TypeOK, Handler
  <2>3. QED
    BY <2>2, HandlingBrings DEF Now
<1>2. \A i \in Ids : /\ pending'[i] = pending[i] \/ (pending'[i] = Now /\ Begun(i))
                     /\ \/ checked_in'[i] = checked_in[i]
                        \/ /\ checked_in'[i] = Now /\ Begun(i)
                           /\ pending'[i] \in {None, Now}
  BY HandlingBrings
<1>3. \A i \in Ids : Begun(i)' <=> Begun(i)
  BY HandlingBrings
<1>4. Timed'
  <2>1. \A x \in Nat \union {None} : Past(x) => Past(x)'
    BY <1>1, Values DEF Past
  <2>2. Past(Now)'
    BY <1>1 DEF Past
  <2>3. \A i \in Ids : Past(pending[i])' /\ Past(checked_in[i])'
    BY <1>1, <1>2, Values DEF Dated, Timed, Past
  <2>4. \A i \in Ids : Past(Thread.writing[i])' /\ Past(Thread.checked_in[i])'
    BY <1>0, <1>1, Values DEF Dated, Timed, Past
  <2>5. \A w \in Seen : /\ Past(w.when)' /\ Past(w.playback)'
                        /\ w.row # None => Past(w.row.last_playback_check_in)'
    BY <1>1, Values DEF Dated, Timed, Past
  <2>6. \A d \in Devices : sessions[d] # None =>
          /\ Past(sessions[d].last_activity_date)'
          /\ Past(sessions[d].last_playback_check_in)'
    BY <1>0, <1>1, Values DEF Dated, Timed, Past
  <2>7. QED
    BY <1>0, <1>1, <2>3, <2>4, <2>5, <2>6 DEF Timed
<1>5. InOrder'
  BY <1>0 DEF Dated, InOrder
<1>6. Named'
  <2>1. \A i \in Ids : ~Begun(i)' =>
          /\ pending'[i] = None /\ checked_in'[i] = None
          /\ Thread'.writing[i] = None /\ Thread'.checked_in[i] = None
    BY <1>0, <1>2, <1>3 DEF Dated, Named
  <2>2. \A w \in Seen' : Begun(w.id)'
    BY <1>0, <1>3, Values DEF Dated, Named
  <2>3. \A d \in Devices : sessions'[d] # None => Begun(sessions[d].id)'
    BY <1>0, <1>3, Values DEF Dated, Named
  <2>4. /\ loop'.pc \notin {"idle", "login"} => Begun(loop.id)'
        /\ loop'.pc = "login" => loop'.id = logins'
    <3>1. loop'.pc # "idle" => loop'.id \in Ids
      BY StepKeepsShape DEF Handling, Next, HandlerStep, Shape, Working
    <3>2. /\ loop'.pc \notin {"idle", "login"} => Begun(loop'.id)
          /\ loop'.pc = "login" => loop'.id = logins'
      BY HandlingBrings
    <3>3. QED
      BY <1>3, <3>1, <3>2 DEF Begun
  <2>5. \A d, e \in Devices : sessions'[d] # None /\ sessions'[e] # None
                                /\ sessions'[d].id = sessions'[e].id => d = e
    BY <1>0 DEF Dated, Named
  <2>6. QED
    BY <2>1, <2>2, <2>3, <2>4, <2>5 DEF Named
<1>7. Owned'
  <2>1. \A d, x : Behind(d, x)' <=> Behind(d, x)
    BY <1>0 DEF Behind
  <2>2. SUFFICES ASSUME NEW d \in Devices, sessions[d] # None
                 PROVE  /\ MayFollow(d, pending[sessions[d].id])'
                        /\ MayFollow(d, checked_in[sessions[d].id])'
                        /\ NotBefore(checked_in'[sessions[d].id],
                                     sessions[d].last_playback_check_in)
    BY <1>0, <2>1 DEF Dated, Owned, MayFollow
  <2> DEFINE i == sessions[d].id
  <2>3. i \in Ids /\ sessions[d].last_activity_date \in Nat
        /\ sessions[d].last_playback_check_in \in Nat \union {None}
        /\ Past(sessions[d].last_activity_date) /\ Past(sessions[d].last_playback_check_in)
    BY <2>2, Values DEF Dated, Timed
  <2>4. /\ MayFollow(d, pending[i]) /\ MayFollow(d, checked_in[i])
        /\ NotBefore(checked_in[i], sessions[d].last_playback_check_in)
    BY <2>2 DEF Dated, Owned
  <2>5. MayFollow(d, Now) /\ NotBefore(Now, sessions[d].last_playback_check_in)
    BY <2>3, Values DEF MayFollow, NotBefore, Past
  <2>6. pending'[i] \in {pending[i], Now} /\ checked_in'[i] \in {checked_in[i], Now}
    BY <1>2, <2>3
  <2> HIDE DEF i
  <2>7. \A x \in {pending'[i], checked_in'[i]} : MayFollow(d, x)
    BY <2>4, <2>5, <2>6
  <2>8. \A x : MayFollow(d, x)' <=> MayFollow(d, x)
    BY <1>0, <2>1 DEF MayFollow
  <2>9. QED
    BY <1>0, <2>4, <2>5, <2>6, <2>7 DEF i, MayFollow, Behind
<1>8. Ordered'
  <2>1. \A i \in Ids : Above(Now, i)
    BY Values DEF Dated, Timed, Above, NotBefore, Past
  <2>2. \A x : \A i \in Ids : Above(x, i)' <=> Above(x, i)
    BY <1>0 DEF Above
  <2>3. \A i \in Ids : pending'[i] # None =>
          /\ Above(pending'[i], i)
          /\ Thread.pc = "taking" /\ Thread.writing[i] = None =>
               NotBefore(pending'[i], checked_in'[i])
    BY <1>2, <2>1, Values DEF Dated, Ordered, Timed, NotBefore, Past
  <2>4. Thread.pc \in {"reading", "writing"} => \A i \in Ids : checked_in'[i] # None =>
          /\ Above(checked_in'[i], i)
          /\ NotBefore(checked_in'[i], Thread.checked_in[i])
          /\ \A w \in Seen : w.id = i => NotBefore(checked_in'[i], w.playback)
    BY <1>2, <2>1, Values DEF Dated, Ordered, Timed, NotBefore, Past
  <2>5. loop'.pc = "authenticated" => pending'[loop'.id] \in {None, loop'.when} /\
          (pending'[loop'.id] = None => Thread.writing[loop'.id] \in {None, loop'.when})
    BY HandlingBrings
  <2>6. QED
    BY <1>0, <2>3, <2>4, <2>5 DEF Ordered, Above
<1>9. QED
  BY <1>4, <1>5, <1>6, <1>7, <1>8 DEF Dated

----------------------------------------------------------------------------
(* Logins.                                                                 *)

\* A session that survives a login is as it was, with its tokens, or it is the one that
\* logs in: it starts at this moment, and every date held of it is behind its token.
LEMMA EstablishBrings ==
  ASSUME Shape, Dated, NEW d \in Devices, NEW out \in SUBSET Devices, Establish(d, out)
  PROVE  /\ UNCHANGED <<flushing, checked_in, clock, logins>>
         /\ Now \in Nat /\ Now' = clock /\ Now <= clock
         /\ loop.pc = "login" /\ loop.id \in Ids /\ loop.id = logins /\ loop'.pc = "idle"
         /\ \A i \in Ids : pending'[i] \in {pending[i], None}
         /\ \A o \in Devices : sessions'[o] # None =>
              \/ /\ sessions[o] # None /\ sessions'[o] = sessions[o]
                 /\ \A t \in tokens : t.device = o => t \in tokens'
              \/ /\ o = d
                 /\ sessions'[o].id = IF sessions[o] = None THEN loop.id ELSE sessions[o].id
                 /\ sessions'[o].last_activity_date = Now
                 /\ sessions'[o].last_playback_check_in = None
                 /\ \E t \in tokens' : t.device = o /\ t.created = Now
<1>1. loop.pc = "login" /\ d = loop.device /\ loop' = Idle /\ Now = loop.when
      /\ UNCHANGED <<flushing, checked_in, clock, logins>>
  BY DEF Establish, Now
<1>2. loop.id \in Ids /\ loop.id = logins
  BY <1>1 DEF Shape, Working, Dated, Named
<1>3. Now \in Nat /\ Now' = clock /\ Now <= clock
  BY <1>1, Values DEF Now, Idle, Dated, Timed
<1>4. \A i \in Ids : pending'[i] \in {pending[i], None}
  BY DEF Establish, ForgetPending
<1>5. ASSUME NEW o \in Devices, sessions'[o] # None
      PROVE  \/ /\ sessions[o] # None /\ sessions'[o] = sessions[o]
                /\ \A t \in tokens : t.device = o => t \in tokens'
             \/ /\ o = d
                /\ sessions'[o].id = IF sessions[o] = None THEN loop.id ELSE sessions[o].id
                /\ sessions'[o].last_activity_date = Now
                /\ sessions'[o].last_playback_check_in = None
                /\ \E t \in tokens' : t.device = o /\ t.created = Now
  <2>1. CASE UNCHANGED rowVars
    BY <1>5, <2>1 DEF rowVars
  <2>2. CASE ~UNCHANGED rowVars
    <3> DEFINE token == [id |-> loop.id, device |-> d, created |-> loop.when]
    <3>1. /\ sessions' = [e \in Devices |-> IF e \in out THEN None
                                            ELSE IF e = d THEN SessionAfter(d)
                                            ELSE sessions[e]]
          /\ tokens' = {t \in tokens : t.device \notin out \union {d}} \union {token}
      BY <2>2 DEF Establish
    <3>2. token \in tokens' /\ token.device = d /\ token.created = Now
      BY <1>1, <3>1
    <3>3. o \notin out
      BY <1>5, <3>1
    <3>4. CASE o = d
      <4>1. sessions'[o] = SessionAfter(d)
        BY <3>1, <3>3, <3>4
      <4>2. \E t \in tokens' : t.device = o /\ t.created = Now
        BY <3>2, <3>4
      <4> HIDE DEF token
      <4>3. QED
        BY <1>1, <3>4, <4>1, <4>2 DEF SessionAfter
    <3>5. CASE o # d
      BY <1>5, <3>1, <3>3, <3>5
    <3>6. QED
      BY <3>4, <3>5
  <2>3. QED
    BY <2>1, <2>2
<1>6. loop'.pc = "idle"
  BY <1>1 DEF Idle
<1>7. QED
  BY <1>1, <1>2, <1>3, <1>4, <1>5, <1>6

LEMMA EstablishKeepsDates ==
  ASSUME Shape, Dated, NEW d \in Devices, NEW out \in SUBSET Devices, Establish(d, out)
  PROVE  Dated'
<1> DEFINE Kept(o) == /\ sessions[o] # None /\ sessions'[o] = sessions[o]
                      /\ \A t \in tokens : t.device = o => t \in tokens'
           New(o) ==
             /\ o = d
             /\ sessions'[o].id = IF sessions[o] = None THEN loop.id ELSE sessions[o].id
             /\ sessions'[o].last_activity_date = Now
             /\ sessions'[o].last_playback_check_in = None
             /\ \E t \in tokens' : t.device = o /\ t.created = Now
<1>0. UNCHANGED <<flushing, checked_in, clock, logins>> /\ Thread' = Thread /\ Seen' = Seen
  BY EstablishBrings, SameThread
<1>1. /\ Now \in Nat /\ Now' = clock /\ Now <= clock /\ clock \in Nat /\ Now <= Now'
      /\ loop.pc = "login" /\ loop.id \in Ids /\ loop.id = logins /\ loop'.pc = "idle"
  BY EstablishBrings, Values
<1>2. \A i \in Ids : pending'[i] \in {pending[i], None}
  BY EstablishBrings
<1>3. \A o \in Devices : sessions'[o] # None => Kept(o) \/ New(o)
  BY EstablishBrings
<1>4. \A i \in Ids : Begun(i)' <=> Begun(i) \/ i = loop.id
  BY <1>0, <1>1, Numbers DEF Begun
<1> HIDE DEF New, Kept
<1>5. Timed'
  <2>1. \A i \in Ids : Past(pending[i])' /\ Past(checked_in[i])'
    BY <1>0, <1>1, <1>2, Values DEF Dated, Timed, Past
  <2>2. \A i \in Ids : Past(Thread.writing[i])' /\ Past(Thread.checked_in[i])'
    BY <1>0, <1>1, Values DEF Dated, Timed, Past
  <2>3. \A w \in Seen : /\ Past(w.when)' /\ Past(w.playback)'
                        /\ w.row # None => Past(w.row.last_playback_check_in)'
    BY <1>1, Values DEF Dated, Timed, Past
  <2>4. ASSUME NEW o \in Devices, sessions'[o] # None
        PROVE  /\ Past(sessions[o].last_activity_date)'
               /\ Past(sessions[o].last_playback_check_in)'
    <3>1. CASE Kept(o)
      BY <1>1, <3>1, Values DEF Dated, Timed, Past, Kept
    <3>2. CASE New(o)
      BY <1>1, <3>2 DEF Past, New
    <3>3. QED
      BY <1>3, <2>4, <3>1, <3>2
  <2>5. QED
    BY <1>0, <1>1, <2>1, <2>2, <2>3, <2>4 DEF Timed
<1>6. InOrder'
  BY <1>0 DEF Dated, InOrder
<1>7. Named'
  <2>1. \A i \in Ids : ~Begun(i)' =>
          /\ pending'[i] = None /\ checked_in'[i] = None
          /\ Thread'.writing[i] = None /\ Thread'.checked_in[i] = None
    BY <1>0, <1>2, <1>4 DEF Dated, Named
  <2>2. \A w \in Seen' : Begun(w.id)'
    BY <1>0, <1>4, Values DEF Dated, Named
  <2>3. ASSUME NEW o \in Devices, sessions'[o] # None
        PROVE  /\ sessions'[o].id \in Ids /\ Begun(sessions[o].id)'
               /\ \/ sessions[o] # None /\ sessions'[o].id = sessions[o].id
                  \/ o = d /\ sessions'[o].id = loop.id
    BY <1>1, <1>3, <1>4, <2>3, Values DEF Dated, Named, Kept, New
  <2>4. ASSUME NEW o \in Devices, NEW e \in Devices, sessions'[o] # None,
               sessions'[e] # None, sessions'[o].id = sessions'[e].id
        PROVE  o = e
    <3>1. \A c \in Devices : sessions[c] # None => sessions[c].id # loop.id
      BY <1>1 DEF Dated, Named, Begun
    <3>2. QED
      BY <2>3, <2>4, <3>1 DEF Dated, Named
  <2>5. QED
    BY <1>1, <2>1, <2>2, <2>3, <2>4 DEF Named
<1>8. Owned'
  <2>1. ASSUME NEW o \in Devices, sessions'[o] # None
        PROVE  /\ MayFollow(o, pending[sessions[o].id])'
               /\ MayFollow(o, checked_in[sessions[o].id])'
               /\ MayFollow(o, Thread.writing[sessions[o].id])'
               /\ MayFollow(o, Thread.checked_in[sessions[o].id])'
               /\ NotBefore(checked_in[sessions[o].id], sessions[o].last_playback_check_in)'
               /\ NotBefore(Thread.checked_in[sessions[o].id],
                            sessions[o].last_playback_check_in)'
               /\ \A w \in Seen' : w.id = sessions'[o].id =>
                    /\ MayFollow(o, w.when)'
                    /\ NotBefore(w.playback, sessions[o].last_playback_check_in)'
                    /\ w.row # None
                    /\ \/ w.row.last_playback_check_in
                            \in {None, sessions'[o].last_playback_check_in}
                       \/ Behind(o, w.row.last_playback_check_in)'
    <3>1. CASE Kept(o)
      <4>1. sessions[o] # None /\ sessions'[o] = sessions[o] /\ sessions[o].id \in Ids
        BY <3>1, Values DEF Kept
      <4>2. \A x : Behind(o, x) => Behind(o, x)'
        BY <3>1 DEF Kept, Behind
      <4>3. \A x : MayFollow(o, x) => MayFollow(o, x)'
        BY <4>1, <4>2 DEF MayFollow
      <4>4. pending'[sessions[o].id] \in {pending[sessions[o].id], None}
        BY <1>2, <4>1
      <4>5. MayFollow(o, pending[sessions[o].id])'
        BY <4>1, <4>2, <4>4 DEF Dated, Owned, MayFollow, NotBefore
      <4>6. \A w \in Seen : w.id = sessions[o].id =>
              /\ MayFollow(o, w.when)
              /\ NotBefore(w.playback, sessions[o].last_playback_check_in)
              /\ w.row # None
              /\ \/ w.row.last_playback_check_in
                      \in {None, sessions[o].last_playback_check_in}
                 \/ Behind(o, w.row.last_playback_check_in)
        BY <4>1 DEF Dated, Owned
      <4>7. \A w \in Seen' : w.id = sessions'[o].id =>
              /\ MayFollow(o, w.when)'
              /\ NotBefore(w.playback, sessions[o].last_playback_check_in)'
              /\ w.row # None
              /\ \/ w.row.last_playback_check_in
                      \in {None, sessions'[o].last_playback_check_in}
                 \/ Behind(o, w.row.last_playback_check_in)'
        BY <1>0, <4>1, <4>2, <4>6 DEF MayFollow
      <4>8. MayFollow(o, checked_in[sessions[o].id])
            /\ MayFollow(o, Thread.writing[sessions[o].id])
            /\ MayFollow(o, Thread.checked_in[sessions[o].id])
        BY <4>1 DEF Dated, Owned
      <4>9. MayFollow(o, checked_in[sessions[o].id])'
            /\ MayFollow(o, Thread.writing[sessions[o].id])'
            /\ MayFollow(o, Thread.checked_in[sessions[o].id])'
        BY <1>0, <4>1, <4>2, <4>8 DEF MayFollow
      <4>10. /\ NotBefore(checked_in[sessions[o].id], sessions[o].last_playback_check_in)'
             /\ NotBefore(Thread.checked_in[sessions[o].id],
                          sessions[o].last_playback_check_in)'
        BY <1>0, <4>1 DEF Dated, Owned
      <4>11. QED
        BY <4>5, <4>7, <4>9, <4>10
    <3>2. CASE New(o)
      <4> DEFINE i == sessions'[o].id
      <4>1. i \in Ids
        BY <1>1, <3>2, Values DEF New
      <4>2. \A x : x = None \/ x <= Now => MayFollow(o, x)' /\ (x # None => Behind(o, x)')
        BY <3>2 DEF New, MayFollow, Behind, NotBefore
      <4>3. /\ pending'[i] = None \/ pending'[i] <= Now
            /\ checked_in'[i] = None \/ checked_in'[i] <= Now
            /\ Thread'.writing[i] = None \/ Thread'.writing[i] <= Now
            /\ Thread'.checked_in[i] = None \/ Thread'.checked_in[i] <= Now
        BY <1>0, <1>2, <4>1 DEF Dated, Timed, Past
      <4>4. ASSUME NEW w \in Seen', w.id = i
            PROVE  w.row # None
        <5>1. Begun(w.id)
          BY <1>0, <4>4 DEF Dated, Named
        <5>2. sessions[o] # None /\ w.id = sessions[o].id
          BY <1>1, <3>2, <4>4, <5>1 DEF New, Begun
        <5>3. QED
          BY <1>0, <5>2 DEF Dated, Owned
      <4>5. ASSUME NEW w \in Seen', w.id = i
            PROVE  /\ MayFollow(o, w.when)'
                   /\ \/ w.row.last_playback_check_in = None
                      \/ Behind(o, w.row.last_playback_check_in)'
        <5>1. /\ w.when = None \/ w.when <= Now
              /\ \/ w.row.last_playback_check_in = None
                 \/ w.row.last_playback_check_in <= Now
          BY <1>0, <4>4, <4>5 DEF Dated, Timed, Past
        <5>2. QED
          BY <4>2, <5>1
      <4>6. sessions'[o].last_playback_check_in = None
        BY <3>2 DEF New
      <4>7. \A x : NotBefore(x, sessions[o].last_playback_check_in)'
        BY <4>6 DEF NotBefore
      <4>8. QED
        BY <4>2, <4>3, <4>4, <4>5, <4>6, <4>7 DEF i
    <3>3. QED
      BY <1>3, <2>1, <3>1, <3>2
  <2>2. QED
    BY <2>1 DEF Owned
<1>9. Ordered'
  <2>1. \A x : \A i \in Ids : Above(x, i)' <=> Above(x, i)
    BY <1>0 DEF Above
  <2>2. \A i \in Ids : pending'[i] # None =>
          /\ Above(pending'[i], i)
          /\ Thread.pc = "taking" /\ Thread.writing[i] = None =>
               NotBefore(pending'[i], checked_in[i])
    BY <1>2 DEF Dated, Ordered
  <2>3. QED
    BY <1>0, <1>1, <2>1, <2>2 DEF Dated, Ordered, Above
<1>10. QED
  BY <1>5, <1>6, <1>7, <1>8, <1>9 DEF Dated

----------------------------------------------------------------------------
(* The flush of the thread.                                                *)

\* The row of a session is that of the one device which has it.
LEMMA RowOfDevice ==
  ASSUME Shape, Named
  PROVE  /\ \A d \in Devices : sessions[d] # None => RowOf(sessions[d].id) = sessions[d]
         /\ \A i : RowOf(i) # None =>
              \E d \in Devices : sessions[d] # None /\ sessions[d].id = i
                                 /\ RowOf(i) = sessions[d]
<1>1. ASSUME NEW d \in Devices, sessions[d] # None
      PROVE  RowOf(sessions[d].id) = sessions[d]
  <2> DEFINE i == sessions[d].id
  <2>1. \A e \in DeviceOf(i) : e = d
    BY <1>1 DEF DeviceOf, Named
  <2>2. d \in DeviceOf(i)
    BY <1>1 DEF DeviceOf
  <2>3. (CHOOSE e \in DeviceOf(i) : TRUE) \in DeviceOf(i)
    BY <2>2
  <2>4. QED
    BY <2>1, <2>2, <2>3 DEF RowOf
<1>2. ASSUME NEW i, RowOf(i) # None
      PROVE  \E d \in Devices : sessions[d] # None /\ sessions[d].id = i
                                /\ RowOf(i) = sessions[d]
  <2>1. DeviceOf(i) # {} /\ RowOf(i) = sessions[CHOOSE d \in DeviceOf(i) : TRUE]
    BY <1>2 DEF RowOf
  <2>2. (CHOOSE d \in DeviceOf(i) : TRUE) \in DeviceOf(i)
    BY <2>1
  <2>3. QED
    BY <2>1, <2>2 DEF DeviceOf
<1>3. QED
  BY <1>1, <1>2

\* What a read makes of the dates that were taken.
Fresh(w) ==
  /\ w.id \in Ids /\ w.when # None
  /\ w.when \in {Thread.writing[w.id], Thread.checked_in[w.id]}
  /\ w.playback = Thread.checked_in[w.id]
  /\ w.row = RowOf(w.id)

\* Until it commits a flush only moves dates of a session from hand to hand.
Moves ==
  /\ UNCHANGED <<sessions, tokens, loop, clock, logins>>
  /\ \A i \in Ids : /\ pending'[i] \in {pending[i], Thread.writing[i], None}
                    /\ checked_in'[i] \in {checked_in[i], Thread.checked_in[i], None}
                    /\ Thread'.writing[i] \in {Thread.writing[i], pending[i], None}
                    /\ Thread'.checked_in[i]
                         \in {Thread.checked_in[i], checked_in[i], None}
  /\ \A w \in Seen' : w \in Seen \/ Fresh(w)

LEMMA MovesKeepDates ==
  ASSUME Shape, Dated, Moves
  PROVE  Timed' /\ Named' /\ Owned'
<1>0. UNCHANGED <<sessions, tokens, loop, clock, logins>> /\ Now' = Now
  BY DEF Moves, Now
<1>1. \A i \in Ids : /\ pending'[i] \in {pending[i], Thread.writing[i], None}
                     /\ checked_in'[i] \in {checked_in[i], Thread.checked_in[i], None}
                     /\ Thread'.writing[i] \in {Thread.writing[i], pending[i], None}
                     /\ Thread'.checked_in[i]
                          \in {Thread.checked_in[i], checked_in[i], None}
  BY DEF Moves
<1>2. \A w \in Seen' : w \in Seen \/ Fresh(w)
  BY DEF Moves
<1>3. \A w : Fresh(w) => w.row = None \/ \E d \in Devices :
                           sessions[d] # None /\ w.row = sessions[d]
  BY RowOfDevice DEF Fresh, Dated
<1>4. Timed'
  <2>1. \A i \in Ids : /\ Past(pending[i]) /\ Past(checked_in[i])
                       /\ Past(Thread.writing[i]) /\ Past(Thread.checked_in[i])
    BY DEF Dated, Timed
  <2>2. \A i \in Ids : /\ Past(pending[i])' /\ Past(checked_in[i])'
                       /\ Past(Thread.writing[i])' /\ Past(Thread.checked_in[i])'
    BY <1>0, <1>1, <2>1 DEF Past
  <2>3. ASSUME NEW w \in Seen'
        PROVE  /\ Past(w.when)' /\ Past(w.playback)'
               /\ w.row # None => Past(w.row.last_playback_check_in)'
    <3>1. CASE w \in Seen
      BY <1>0, <3>1 DEF Dated, Timed, Past
    <3>2. CASE Fresh(w)
      <4>1. Past(w.when) /\ Past(w.playback)
        BY <2>1, <3>2 DEF Fresh
      <4>2. w.row # None => Past(w.row.last_playback_check_in)
        BY <1>3, <3>2 DEF Dated, Timed
      <4>3. QED
        BY <1>0, <4>1, <4>2 DEF Past
    <3>3. QED
      BY <1>2, <3>1, <3>2
  <2>4. QED
    BY <1>0, <2>2, <2>3 DEF Dated, Timed, Past
<1>5. Named'
  <2>1. \A i : Begun(i)' <=> Begun(i)
    BY <1>0 DEF Begun
  <2>2. \A i \in Ids : ~Begun(i) =>
          /\ pending'[i] = None /\ checked_in'[i] = None
          /\ Thread'.writing[i] = None /\ Thread'.checked_in[i] = None
    BY <1>1 DEF Dated, Named
  <2>3. \A w \in Seen' : Begun(w.id)
    BY <1>2 DEF Dated, Named, Fresh
  <2>4. QED
    BY <1>0, <2>1, <2>2, <2>3 DEF Dated, Named, Begun
<1>6. Owned'
  <2>1. \A d, x : MayFollow(d, x)' <=> MayFollow(d, x)
    BY <1>0 DEF MayFollow, Behind
  <2>2. \A d, x : Behind(d, x)' <=> Behind(d, x)
    BY <1>0 DEF Behind
  <2>3. ASSUME NEW d \in Devices, sessions[d] # None
        PROVE  /\ MayFollow(d, pending'[sessions[d].id])
               /\ MayFollow(d, checked_in'[sessions[d].id])
               /\ MayFollow(d, Thread'.writing[sessions[d].id])
               /\ MayFollow(d, Thread'.checked_in[sessions[d].id])
               /\ NotBefore(checked_in'[sessions[d].id], sessions[d].last_playback_check_in)
               /\ NotBefore(Thread'.checked_in[sessions[d].id],
                            sessions[d].last_playback_check_in)
               /\ \A w \in Seen' : w.id = sessions[d].id =>
                    /\ MayFollow(d, w.when)
                    /\ NotBefore(w.playback, sessions[d].last_playback_check_in)
                    /\ w.row # None
                    /\ \/ w.row.last_playback_check_in
                            \in {None, sessions[d].last_playback_check_in}
                       \/ Behind(d, w.row.last_playback_check_in)
    <3> DEFINE i == sessions[d].id
               s == sessions[d].last_playback_check_in
    <3>1. i \in Ids
      BY <2>3, Values
    <3>2. /\ MayFollow(d, pending[i]) /\ MayFollow(d, checked_in[i])
          /\ MayFollow(d, Thread.writing[i]) /\ MayFollow(d, Thread.checked_in[i])
          /\ NotBefore(checked_in[i], s) /\ NotBefore(Thread.checked_in[i], s)
          /\ MayFollow(d, None) /\ NotBefore(None, s)
      BY <2>3 DEF Dated, Owned, MayFollow, NotBefore
    <3>3. \A w \in Seen : w.id = i =>
            /\ MayFollow(d, w.when)
            /\ NotBefore(w.playback, s)
            /\ w.row # None
            /\ \/ w.row.last_playback_check_in \in {None, s}
               \/ Behind(d, w.row.last_playback_check_in)
      BY <2>3 DEF Dated, Owned
    <3>4. RowOf(i) = sessions[d]
      BY <2>3, RowOfDevice DEF Dated
    <3> HIDE DEF i
    <3>5. \A w : Fresh(w) /\ w.id = i =>
            /\ MayFollow(d, w.when)
            /\ NotBefore(w.playback, s)
            /\ w.row # None
            /\ w.row.last_playback_check_in = s
      BY <2>3, <3>2, <3>4 DEF Fresh
    <3>6. \A w \in Seen' : w.id = i =>
            /\ MayFollow(d, w.when)
            /\ NotBefore(w.playback, s)
            /\ w.row # None
            /\ \/ w.row.last_playback_check_in \in {None, s}
               \/ Behind(d, w.row.last_playback_check_in)
      BY <1>2, <3>3, <3>5
    <3> HIDE DEF s
    <3>7. /\ MayFollow(d, pending'[i]) /\ MayFollow(d, checked_in'[i])
          /\ MayFollow(d, Thread'.writing[i]) /\ MayFollow(d, Thread'.checked_in[i])
          /\ NotBefore(checked_in'[i], s) /\ NotBefore(Thread'.checked_in[i], s)
      BY <1>1, <3>1, <3>2
    <3>8. QED
      BY <3>6, <3>7 DEF i, s
  <2>4. QED
    BY <1>0, <2>2, <2>3 DEF Owned, MayFollow, Behind
<1>7. QED
  BY <1>4, <1>5, <1>6

LEMMA TakePendingKeepsDates ==
  ASSUME Shape, Dated, TakePending("thread")
  PROVE  Dated' /\ Moves
<1>1. /\ UNCHANGED <<sessions, tokens, loop, clock, logins, checked_in>>
      /\ pending' = Empty /\ Thread.pc = "idle"
  BY DEF TakePending, Due, Thread, rowVars, boundVars
<1>2. Thread' = [Resting EXCEPT !.pc = "taking", !.writing = pending]
  BY Values DEF TakePending, Thread
<1>3. /\ Thread'.pc = "taking" /\ Thread'.writing = pending /\ Thread'.checked_in = Empty
      /\ Thread'.written = {} /\ Thread'.cur = None
  BY <1>2 DEF Resting
<1>4. Seen' = {}
  BY <1>3 DEF Seen
<1>5. Moves
  BY <1>1, <1>3, <1>4 DEF Moves, Empty
<1>6. InOrder'
  BY <1>3, <1>4 DEF InOrder
<1>7. Ordered'
  <2>1. loop.pc = "authenticated" => pending[loop.id] \in {None, loop.when}
    BY DEF Dated, Ordered
  <2>2. loop.pc # "idle" => loop.id \in Ids
    BY DEF Shape, Working
  <2>3. \A i \in Ids : pending'[i] = None
    BY <1>1 DEF Empty
  <2>4. QED
    BY <1>1, <1>3, <2>1, <2>2, <2>3 DEF Ordered
<1>8. QED
  BY <1>5, <1>6, <1>7, MovesKeepDates DEF Dated

LEMMA TakeCheckInsKeepsDates ==
  ASSUME Shape, Dated, TakeCheckIns("thread")
  PROVE  Dated' /\ Moves
<1>1. /\ UNCHANGED <<sessions, tokens, loop, clock, logins, pending>>
      /\ checked_in' = Empty /\ Thread.pc = "taking"
      /\ Thread.checked_in = Empty /\ Seen = {}
  BY DEF TakeCheckIns, Thread, rowVars, boundVars, Dated, InOrder
<1>2. Thread' = [Thread EXCEPT !.pc = "reading", !.checked_in = checked_in]
  BY Values DEF TakeCheckIns, Thread
<1>3. /\ Thread'.pc = "reading" /\ Thread'.writing = Thread.writing
      /\ Thread'.checked_in = checked_in
      /\ Thread'.written = Thread.written /\ Thread'.cur = Thread.cur
  BY <1>2, Values DEF Flush
<1>4. Seen' = {}
  BY <1>1, <1>3 DEF Seen
<1>5. Moves
  BY <1>1, <1>3, <1>4 DEF Moves, Empty
<1>6. InOrder'
  <2>1. Thread.cur = None /\ Thread.written = {}
    <3>1. Thread.cur \in Touched \union {None} /\ Thread.written \subseteq Touched
      BY Values DEF Flush
    <3>2. QED
      BY <1>1, <3>1, NoTouchedAssumption DEF Seen
  <2>2. QED
    BY <1>3, <1>4, <2>1 DEF InOrder
<1>7. Ordered'
  <2>1. \A i \in Ids : checked_in'[i] = None
    BY <1>1 DEF Empty
  <2>2. \A i \in Ids : pending[i] # None =>
          /\ NotBefore(pending[i], Thread.writing[i])
          /\ Thread.writing[i] = None => NotBefore(pending[i], checked_in[i])
    BY <1>1 DEF Dated, Ordered, Above
  <2>3. QED
    BY <1>1, <1>3, <1>4, <2>1, <2>2 DEF Dated, Ordered, Above
<1>8. QED
  BY <1>5, <1>6, <1>7, MovesKeepDates DEF Dated

\* A read makes one more of what the flush has seen.
LEMMA ReadBrings ==
  ASSUME Shape, Dated, NEW i \in Ids, Read("thread", i)
  PROVE  /\ UNCHANGED <<sessions, tokens, loop, clock, logins, pending, checked_in>>
         /\ Thread.pc = "reading" /\ Thread'.pc = "writing"
         /\ Thread'.writing = Thread.writing /\ Thread'.written = Thread.written
         /\ \A j \in Ids : j # i => Thread'.checked_in[j] = Thread.checked_in[j]
         /\ IF Thread.writing[i] # None THEN Thread'.checked_in[i] = None
            ELSE Thread'.checked_in[i] = Thread.checked_in[i]
         /\ i \notin Done("thread")
         /\ Thread'.cur # None /\ Thread'.cur.id = i /\ Fresh(Thread'.cur)
         /\ Thread.writing[i] # None => Thread'.cur.when = Thread.writing[i]
         /\ Seen' = Seen \union {Thread'.cur} /\ Seen = Thread.written
         /\ \A w \in Seen : w.id # i
<1> DEFINE active == i \in Entries(Thread.writing)
           rest == IF active THEN [Thread.checked_in EXCEPT ![i] = None]
                   ELSE Thread.checked_in
           when == IF active THEN Thread.writing[i] ELSE Thread.checked_in[i]
           cur == [id |-> i, row |-> RowOf(i), playback |-> Thread.checked_in[i],
                   when |-> when]
<1>0. Thread \in Flush /\ Thread.checked_in \in Dates /\ Thread.writing \in Dates
      /\ flushing \in [Flushers -> Flush]
  BY Values DEF Flush
<1>1. /\ UNCHANGED <<sessions, tokens, loop, clock, logins, pending, checked_in>>
      /\ Thread.pc = "reading" /\ i \in Todo("thread")
  BY DEF Read, Thread, rowVars, boundVars
<1>2. Thread' = [Thread EXCEPT !.pc = "writing", !.checked_in = rest, !.cur = cur]
  BY <1>0 DEF Read, Thread
<1>3. /\ i \notin Done("thread")
      /\ i \in Entries(Thread.writing) \union Entries(Thread.checked_in)
  BY <1>1 DEF Todo, Thread
<1>4. /\ Thread'.pc = "writing" /\ Thread'.checked_in = rest /\ Thread'.cur = cur
      /\ Thread'.writing = Thread.writing /\ Thread'.written = Thread.written
  BY <1>0, <1>2 DEF Flush
<1>5. /\ \A j \in Ids : j # i => rest[j] = Thread.checked_in[j]
      /\ active => rest[i] = None
      /\ ~active => rest[i] = Thread.checked_in[i]
  BY <1>0 DEF Dates
<1>6. active <=> Thread.writing[i] # None
  BY DEF Entries
<1>7. cur.id = i /\ cur.row = RowOf(i) /\ cur.playback = Thread.checked_in[i]
      /\ cur.when = when
  OBVIOUS
<1>8. when # None
  BY <1>3 DEF Entries
<1>9. cur # None
  <2>1. cur \in Touched
    <3>1. Thread.writing[i] \in Nat \union {None} /\ Thread.checked_in[i] \in Nat \union {None}
      BY Values
    <3>2. when \in Nat
      BY <1>8, <3>1
    <3>3. RowOf(i) \in Session \union {None}
      BY RowOfType DEF Shape
    <3> HIDE DEF when
    <3>4. QED
      BY <3>1, <3>2, <3>3 DEF Touched
  <2>2. QED
    BY <2>1, NoTouchedAssumption
<1>10. Fresh(cur)
  <2>1. when \in {Thread.writing[i], Thread.checked_in[i]}
    OBVIOUS
  <2> HIDE DEF when, cur
  <2>2. QED
    BY <1>7, <1>8, <2>1 DEF Fresh
<1>11. Seen = Thread.written /\ \A w \in Seen : w.id # i
  <2>1. Thread.cur = None /\ None \notin Thread.written
    BY <1>0, <1>1, NoTouchedAssumption DEF Dated, InOrder, Flush
  <2>2. Seen = Thread.written
    BY <2>1 DEF Seen
  <2>3. QED
    BY <1>3, <2>2 DEF Done, Thread
<1> HIDE DEF cur, rest
<1>12. Seen' = Seen \union {cur}
  BY <1>4, <1>9, <1>11 DEF Seen
<1>13. /\ Thread'.cur # None /\ Thread'.cur.id = i
       /\ Thread.writing[i] # None => Thread'.cur.when = Thread.writing[i]
  BY <1>4, <1>6, <1>7, <1>9
<1>14. Fresh(Thread'.cur)
  BY <1>4, <1>10, Zenon
<1>15. IF Thread.writing[i] # None THEN Thread'.checked_in[i] = None
       ELSE Thread'.checked_in[i] = Thread.checked_in[i]
  BY <1>4, <1>5, <1>6
<1>16. Seen' = Seen \union {Thread'.cur}
  BY <1>4, <1>12
<1>17. QED
  BY <1>1, <1>3, <1>4, <1>5, <1>11, <1>13, <1>14, <1>15, <1>16

LEMMA ReadKeepsDates ==
  ASSUME Shape, Dated, NEW i \in Ids, Read("thread", i)
  PROVE  Dated' /\ Moves
<1>1. /\ UNCHANGED <<sessions, tokens, loop, clock, logins, pending, checked_in>>
      /\ Thread.pc = "reading" /\ Thread'.pc = "writing"
      /\ Thread'.writing = Thread.writing /\ Thread'.written = Thread.written
      /\ Thread'.cur # None /\ Thread'.cur.id = i
      /\ Seen' = Seen \union {Thread'.cur} /\ Seen = Thread.written
      /\ \A w \in Seen : w.id # i
  BY ReadBrings
<1>2. /\ \A j \in Ids : j # i => Thread'.checked_in[j] = Thread.checked_in[j]
      /\ IF Thread.writing[i] # None THEN Thread'.checked_in[i] = None
         ELSE Thread'.checked_in[i] = Thread.checked_in[i]
  BY ReadBrings
<1>3. Fresh(Thread'.cur)
  BY ReadBrings
<1>4. Thread.writing[i] # None => Thread'.cur.when = Thread.writing[i]
  BY ReadBrings
<1>5. \A j \in Ids : Thread'.checked_in[j] \in {Thread.checked_in[j], None}
  BY <1>2
<1>6. Moves
  <2>1. \A w \in Seen' : w \in Seen \/ Fresh(w)
    BY <1>1, <1>3, Zenon
  <2>2. QED
    BY <1>1, <1>5, <2>1 DEF Moves
<1>7. InOrder'
  <2>1. \A w \in Seen : Thread'.checked_in[w.id] \in {None, w.playback}
    BY <1>1, <1>2, Values DEF Dated, InOrder
  <2>2. Thread'.checked_in[i] \in {None, Thread'.cur.playback}
    BY <1>1, <1>2, <1>3 DEF Fresh
  <2>3. \A w \in Seen' : Thread'.checked_in[w.id] \in {None, w.playback}
    BY <1>1, <2>1, <2>2
  <2>4. \A v, w \in Thread'.written : v.id = w.id => v = w
    BY <1>1 DEF Dated, InOrder
  <2>5. \A w \in Thread'.written : w.id # Thread'.cur.id
    BY <1>1
  <2>6. QED
    BY <1>1, <2>3, <2>4, <2>5 DEF InOrder
<1>8. \A x : \A j \in Ids : Above(x, j) => Above(x, j)'
  <2>1. SUFFICES ASSUME NEW x, NEW j \in Ids, Above(x, j)
                 PROVE  /\ NotBefore(x, Thread'.writing[j])
                        /\ Thread'.writing[j] = None =>
                             NotBefore(x, Thread'.checked_in[j])
                        /\ \A w \in Seen' : w.id = j => NotBefore(x, w.when)
    BY DEF Above, NotBefore
  <2>2. /\ NotBefore(x, Thread.writing[j])
        /\ Thread.writing[j] = None => NotBefore(x, Thread.checked_in[j])
        /\ \A w \in Seen : w.id = j => NotBefore(x, w.when)
    BY <2>1 DEF Above
  <2>3. Thread'.writing[j] = None => NotBefore(x, Thread'.checked_in[j])
    BY <1>1, <1>5, <2>2 DEF NotBefore
  <2>4. j = i => NotBefore(x, Thread'.cur.when)
    BY <1>1, <1>3, <1>4, <2>2 DEF Fresh
  <2>5. QED
    BY <1>1, <2>2, <2>3, <2>4
<1>9. Ordered'
  <2>1. \A j \in Ids : pending[j] # None => Above(pending[j], j)'
    <3>1. \A j \in Ids : pending[j] # None => Above(pending[j], j)
      BY DEF Dated, Ordered
    <3>2. \A j \in Ids : pending'[j] # None => Above(pending'[j], j)
      BY <1>1, <3>1
    <3>3. QED
      BY <1>1, <1>8, <3>1 DEF Above
  <2>2. ASSUME NEW j \in Ids, checked_in[j] # None
        PROVE  /\ Above(checked_in[j], j)'
               /\ NotBefore(checked_in[j], Thread'.checked_in[j])
               /\ \A w \in Seen' : w.id = j => NotBefore(checked_in[j], w.playback)
    <3>1. /\ Above(checked_in[j], j)
          /\ NotBefore(checked_in[j], Thread.checked_in[j])
          /\ \A w \in Seen : w.id = j => NotBefore(checked_in[j], w.playback)
      BY <1>1, <2>2 DEF Dated, Ordered
    <3>2. NotBefore(checked_in[j], Thread'.checked_in[j])
      BY <1>5, <3>1 DEF NotBefore
    <3>3. j = i => NotBefore(checked_in[j], Thread'.cur.playback)
      BY <1>1, <1>3, <3>1 DEF Fresh
    <3>4. Above(checked_in[j], j)'
      BY <1>1, <1>8, <3>1 DEF Above
    <3>5. QED
      BY <1>1, <3>1, <3>2, <3>3, <3>4
  <2>3. QED
    BY <1>1, <2>1, <2>2 DEF Dated, Ordered, NotBefore
<1>10. QED
  BY <1>6, <1>7, <1>9, MovesKeepDates DEF Dated

\* A write takes the session from the hands of the flush to what it has written.
LEMMA WriteBrings ==
  ASSUME Shape, Dated, Write("thread")
  PROVE  /\ UNCHANGED <<sessions, tokens, loop, clock, logins, pending, checked_in>>
         /\ Thread.pc = "writing" /\ Thread'.pc = "reading"
         /\ Thread'.writing = Thread.writing /\ Thread'.checked_in = Thread.checked_in
         /\ Thread'.written = Thread.written \union {Thread.cur} /\ Thread'.cur = None
         /\ Seen' = Seen
<1>1. /\ UNCHANGED <<sessions, tokens, loop, clock, logins, pending, checked_in>>
      /\ Thread.pc = "writing"
  BY DEF Write, Thread, rowVars, boundVars
<1>2. Thread' = [Thread EXCEPT !.pc = "reading", !.cur = None,
                               !.written = Thread.written \union {Thread.cur}]
  BY Values DEF Write, Thread
<1>3. /\ Thread'.pc = "reading"
      /\ Thread'.writing = Thread.writing /\ Thread'.checked_in = Thread.checked_in
      /\ Thread'.written = Thread.written \union {Thread.cur} /\ Thread'.cur = None
  BY <1>2, Values DEF Flush
<1>4. Seen' = Seen
  BY <1>3 DEF Seen
<1>5. QED
  BY <1>1, <1>3, <1>4

LEMMA WriteKeepsDates ==
  ASSUME Shape, Dated, Write("thread")
  PROVE  Dated' /\ Moves
<1>1. /\ UNCHANGED <<sessions, tokens, loop, clock, logins, pending, checked_in>>
      /\ Thread.pc = "writing" /\ Thread'.pc = "reading"
      /\ Thread'.writing = Thread.writing /\ Thread'.checked_in = Thread.checked_in
      /\ Thread'.written = Thread.written \union {Thread.cur} /\ Thread'.cur = None
      /\ Seen' = Seen
  BY WriteBrings
<1>2. Moves
  BY <1>1 DEF Moves
<1>3. InOrder'
  <2>1. \A v, w \in Thread'.written : v.id = w.id => v = w
    BY <1>1 DEF Dated, InOrder
  <2>2. QED
    BY <1>1, <2>1 DEF Dated, InOrder
<1>4. Ordered'
  BY <1>1 DEF Dated, Ordered, Above
<1>5. QED
  BY <1>2, <1>3, <1>4, MovesKeepDates DEF Dated

\* A flush that fails has put back what it has not popped.
LEMMA RollBackBrings ==
  ASSUME Shape, Dated, RollBack("thread")
  PROVE  /\ UNCHANGED <<sessions, tokens, loop, clock, logins>>
         /\ \A i \in Ids :
              /\ pending'[i] = IF pending[i] = None THEN Thread.writing[i] ELSE pending[i]
              /\ checked_in'[i] = IF checked_in[i] = None THEN Thread.checked_in[i]
                                  ELSE checked_in[i]
         /\ Thread'.pc = "idle" /\ Thread'.writing = Empty /\ Thread'.checked_in = Empty
         /\ Thread'.written = {} /\ Thread'.cur = None /\ Seen' = {}
         /\ Thread'.failed
<1>1. UNCHANGED <<sessions, tokens, loop, clock, logins>>
  BY DEF RollBack, rowVars
<1>2. pending' = PutBack(pending, Thread.writing)
      /\ checked_in' = PutBack(checked_in, Thread.checked_in)
  BY DEF RollBack, Thread
<1>3. Thread' = [Resting EXCEPT !.failed = TRUE]
  BY Values DEF RollBack, Thread
<1>4. /\ Thread'.pc = "idle" /\ Thread'.writing = Empty /\ Thread'.checked_in = Empty
      /\ Thread'.written = {} /\ Thread'.cur = None /\ Thread'.failed = TRUE
  BY <1>3 DEF Resting
<1>5. Seen' = {}
  BY <1>4 DEF Seen
<1>6. QED
  BY <1>1, <1>2, <1>4, <1>5 DEF PutBack

LEMMA RollBackKeepsDates ==
  ASSUME Shape, Dated, RollBack("thread")
  PROVE  Dated'
<1>1. /\ UNCHANGED <<sessions, tokens, loop, clock, logins>>
      /\ \A i \in Ids :
           /\ pending'[i] = IF pending[i] = None THEN Thread.writing[i] ELSE pending[i]
           /\ checked_in'[i] = IF checked_in[i] = None THEN Thread.checked_in[i]
                               ELSE checked_in[i]
      /\ Thread'.pc = "idle" /\ Thread'.writing = Empty /\ Thread'.checked_in = Empty
      /\ Thread'.written = {} /\ Thread'.cur = None /\ Seen' = {}
  BY RollBackBrings
<1>2. Moves
  BY <1>1 DEF Moves, Empty
<1>3. InOrder'
  BY <1>1 DEF InOrder
<1>4. Ordered'
  <2>1. loop.pc # "idle" => loop.id \in Ids
    BY DEF Shape, Working
  <2>2. QED
    BY <1>1, <2>1 DEF Dated, Ordered, Above, NotBefore, Empty
<1>5. QED
  BY <1>2, <1>3, <1>4, MovesKeepDates DEF Dated

\* A commit gives a row the dates of the one thing the flush saw of its session.
Written(d, w) ==
  /\ w.id = sessions[d].id /\ Changes(w)
  /\ sessions'[d].last_activity_date \in {sessions[d].last_activity_date, w.when}
  /\ sessions'[d].last_playback_check_in =
       IF w.playback # None /\ w.row.last_playback_check_in # w.playback
       THEN w.playback ELSE sessions[d].last_playback_check_in

LEMMA CommitBrings ==
  ASSUME Shape, Dated, Commit("thread")
  PROVE  /\ UNCHANGED <<tokens, loop, clock, logins, pending, checked_in>>
         /\ Thread.pc = "reading" /\ Seen = Thread.written
         /\ Thread'.pc = "idle" /\ Thread'.writing = Empty /\ Thread'.checked_in = Empty
         /\ Thread'.written = {} /\ Thread'.cur = None /\ Seen' = {}
         /\ \A i \in Ids : Thread.writing[i] # None \/ Thread.checked_in[i] # None =>
              \E w \in Seen : w.id = i
         /\ \A d \in Devices : sessions'[d] # None =>
              /\ sessions[d] # None /\ sessions'[d].id = sessions[d].id
              /\ \/ /\ sessions'[d] = sessions[d]
                    /\ \A w \in Seen : w.id = sessions[d].id => ~Changes(w)
                 \/ \E w \in Seen : Written(d, w)
<1> DEFINE mine(d) == {w \in Thread.written :
                         Changes(w) /\ sessions[d] # None /\ w.id = sessions[d].id}
           row(d) == IF mine(d) = {} THEN sessions[d]
                     ELSE Assigned(sessions[d], CHOOSE w \in mine(d) : TRUE)
<1>1. /\ UNCHANGED <<tokens, loop, clock, logins, pending, checked_in>>
      /\ Thread.pc = "reading" /\ Todo("thread") = {}
  BY DEF Commit, Thread, boundVars
<1>2. Thread' = Resting
  BY Values DEF Commit, Thread
<1>3. /\ Thread'.pc = "idle" /\ Thread'.writing = Empty /\ Thread'.checked_in = Empty
      /\ Thread'.written = {} /\ Thread'.cur = None
  BY <1>2 DEF Resting
<1>4. Seen' = {}
  BY <1>3 DEF Seen
<1>5. Seen = Thread.written
  <2>1. Thread.cur = None /\ None \notin Thread.written
    BY <1>1, Values, NoTouchedAssumption DEF Dated, InOrder, Flush
  <2>2. QED
    BY <2>1 DEF Seen
<1>6. \A i \in Ids : Thread.writing[i] # None \/ Thread.checked_in[i] # None =>
        \E w \in Seen : w.id = i
  BY <1>1, <1>5 DEF Todo, Done, Entries, Thread
<1>7. sessions' = [d \in Devices |-> row(d)]
  BY DEF Commit, Thread
<1>8. ASSUME NEW d \in Devices, sessions'[d] # None
      PROVE  /\ sessions[d] # None /\ sessions'[d].id = sessions[d].id
             /\ \/ /\ sessions'[d] = sessions[d]
                   /\ \A w \in Seen : w.id = sessions[d].id => ~Changes(w)
                \/ \E w \in Seen : Written(d, w)
  <2>1. sessions[d] # None /\ sessions[d] \in Session
    BY <1>8, CommittedRows, Values
  <2>2. sessions'[d] = row(d)
    BY <1>7
  <2>3. CASE mine(d) = {}
    <3>1. sessions'[d] = sessions[d]
      BY <2>2, <2>3
    <3>2. \A w \in Seen : w.id = sessions[d].id => ~Changes(w)
      BY <1>5, <2>1, <2>3
    <3>3. QED
      BY <2>1, <3>1, <3>2
  <2>4. CASE mine(d) # {}
    <3>1. PICK w \in mine(d) : w = CHOOSE v \in mine(d) : TRUE
      BY <2>4
    <3>2. sessions'[d] = Assigned(sessions[d], w)
      BY <2>2, <2>4, <3>1
    <3>3. w \in Seen /\ Changes(w) /\ w.id = sessions[d].id
      BY <1>5, <3>1
    <3>4. /\ sessions'[d].id = sessions[d].id
          /\ sessions'[d].last_activity_date
               \in {sessions[d].last_activity_date, w.when}
          /\ sessions'[d].last_playback_check_in =
               IF w.playback # None /\ w.row.last_playback_check_in # w.playback
               THEN w.playback ELSE sessions[d].last_playback_check_in
      BY <2>1, <3>2 DEF Assigned, Session
    <3>5. Written(d, w)
      BY <3>3, <3>4 DEF Written
    <3>6. QED
      BY <2>1, <3>3, <3>4, <3>5
  <2>5. QED
    BY <2>3, <2>4
<1> HIDE DEF row, mine
<1>9. QED
  BY <1>1, <1>3, <1>4, <1>5, <1>6, <1>8

LEMMA CommitKeepsDates ==
  ASSUME Shape, Dated, Commit("thread")
  PROVE  Dated'
<1>1. /\ UNCHANGED <<tokens, loop, clock, logins, pending, checked_in>>
      /\ Thread.pc = "reading"
      /\ Thread'.pc = "idle" /\ Thread'.writing = Empty /\ Thread'.checked_in = Empty
      /\ Thread'.written = {} /\ Thread'.cur = None /\ Seen' = {} /\ Now' = Now
  BY CommitBrings DEF Now
<1>2. ASSUME NEW d \in Devices, sessions'[d] # None
      PROVE  /\ sessions[d] # None /\ sessions'[d].id = sessions[d].id
             /\ \/ sessions'[d].last_activity_date = sessions[d].last_activity_date
                \/ \E w \in Seen : w.id = sessions[d].id
                                   /\ sessions'[d].last_activity_date = w.when
             /\ \/ sessions'[d].last_playback_check_in = sessions[d].last_playback_check_in
                \/ \E w \in Seen : w.id = sessions[d].id
                                   /\ sessions'[d].last_playback_check_in = w.playback
  <2>1. /\ sessions[d] # None /\ sessions'[d].id = sessions[d].id
        /\ \/ sessions'[d] = sessions[d]
           \/ \E w \in Seen : Written(d, w)
    BY <1>2, CommitBrings
  <2>2. QED
    BY <2>1 DEF Written
<1>3. Timed'
  <2>1. \A d \in Devices : sessions'[d] # None =>
          /\ Past(sessions'[d].last_activity_date)
          /\ Past(sessions'[d].last_playback_check_in)
    BY <1>2 DEF Dated, Timed
  <2>2. \A i \in Ids : Empty[i] = None
    BY DEF Empty
  <2>3. QED
    BY <1>1, <2>1, <2>2 DEF Dated, Timed, Past
<1>4. InOrder'
  BY <1>1 DEF InOrder
<1>5. Named'
  BY <1>1, <1>2 DEF Dated, Named, Begun, Empty
<1>6. Owned'
  <2>1. ASSUME NEW d \in Devices, sessions'[d] # None
        PROVE  /\ MayFollow(d, pending[sessions[d].id])'
               /\ MayFollow(d, checked_in[sessions[d].id])'
               /\ NotBefore(checked_in[sessions[d].id],
                            sessions[d].last_playback_check_in)'
    <3> DEFINE i == sessions[d].id
    <3>1. sessions[d] # None /\ sessions'[d].id = i /\ i \in Ids
      BY <1>2, <2>1, Values
    <3>2. /\ MayFollow(d, pending[i]) /\ MayFollow(d, checked_in[i])
          /\ NotBefore(checked_in[i], sessions[d].last_playback_check_in)
      BY <3>1 DEF Dated, Owned
    <3>3. /\ pending[i] # None => Above(pending[i], i)
          /\ checked_in[i] # None =>
               /\ Above(checked_in[i], i)
               /\ \A w \in Seen : w.id = i => NotBefore(checked_in[i], w.playback)
      BY <1>1, <3>1 DEF Dated, Ordered
    <3>4. NotBefore(checked_in[i], sessions'[d].last_playback_check_in)
      BY <1>2, <2>1, <3>2, <3>3 DEF NotBefore
    <3>5. \A x : /\ MayFollow(d, x)
                 /\ x # None => Above(x, i)
                 => \/ NotBefore(x, sessions'[d].last_activity_date)
                    \/ Behind(d, x)
      BY <1>2, <2>1 DEF MayFollow, Above, NotBefore
    <3>6. \A y \in {pending[i], checked_in[i]} :
            \/ NotBefore(y, sessions'[d].last_activity_date)
            \/ Behind(d, y)
      BY <3>2, <3>3, <3>5
    <3> HIDE DEF i
    <3>7. QED
      BY <1>1, <3>1, <3>4, <3>6 DEF MayFollow, NotBefore, Behind
  <2>3. \A x : NotBefore(None, x)
    BY DEF NotBefore
  <2>4. \A d, x : x = None => MayFollow(d, x)'
    BY DEF MayFollow, NotBefore
  <2>5. ASSUME NEW d \in Devices, sessions'[d] # None
        PROVE  Thread'.writing[sessions'[d].id] = None
               /\ Thread'.checked_in[sessions'[d].id] = None
    BY <1>1, <1>2, <2>5, Values DEF Empty
  <2>6. QED
    BY <1>1, <2>1, <2>3, <2>4, <2>5 DEF Owned, NotBefore
<1>7. Ordered'
  <2>1. loop.pc # "idle" => loop.id \in Ids
    BY DEF Shape, Working
  <2>2. QED
    BY <1>1, <2>1 DEF Dated, Ordered, Above, NotBefore, Empty
<1>8. QED
  BY <1>3, <1>4, <1>5, <1>6, <1>7 DEF Dated

----------------------------------------------------------------------------
\* A step of a server that is up.
LEMMA UpSteps ==
  ASSUME Shape, Stopping, Up, [Next]_vars
  PROVE  \/ Handling
         \/ \E d \in Devices : \E out \in SUBSET Devices : Establish(d, out)
         \/ TakePending("thread") \/ TakeCheckIns("thread") \/ Write("thread")
         \/ Commit("thread") \/ RollBack("thread")
         \/ \E i \in Ids : Read("thread", i)
         \/ UNCHANGED <<rowVars, pending, checked_in, loop, flushing, boundVars>>
<1>1. CASE UNCHANGED vars
  BY <1>1 DEF vars
<1>2. CASE BeginStop \/ EndStop
  BY <1>2 DEF BeginStop, EndStop
<1>3. CASE \E f \in Flushers : FlushStep(f)
  <2>1. PICK f \in Flushers : FlushStep(f)
    BY <1>3
  <2>2. f = "thread"
    BY <2>1, OnlyTheThread
  <2>3. FlushStep("thread")
    BY <2>1, <2>2
  <2>4. QED
    BY <2>3 DEF FlushStep, Stale, Fail
<1>4. QED
  BY <1>1, <1>2, <1>3 DEF Next, HandlerStep, Handling

LEMMA StepKeepsDates ==
  ASSUME Shape, Stopping, Up => Dated, [Next]_vars
  PROVE  (Up => Dated)'
<1>1. SUFFICES ASSUME Up' PROVE Dated'
  OBVIOUS
<1>2. stage \in {"up", "stopping", "stopped"}
  BY DEF Shape, TypeOK
<1>3. Up
  BY <1>1, <1>2 DEF Up, Next, vars, HandlerStep, FlushStep, Request, CheckIn, LookUpHeld,
     TouchSession, WrongPassword, Authenticate, Establish, TakePending, TakeCheckIns,
     Read, Write, Commit, Stale, Fail, RollBack, StageAfter, Tick, BeginStop, EndStop
<1>4. Dated
  BY <1>3
<1>5. CASE UNCHANGED <<rowVars, pending, checked_in, loop, flushing, boundVars>>
  <2>1. UNCHANGED <<sessions, tokens, pending, checked_in, loop, flushing, clock, logins>>
    BY <1>5 DEF rowVars, boundVars
  <2>2. Thread' = Thread /\ Seen' = Seen /\ Now' = Now
    BY <2>1, SameThread DEF Now
  <2>3. Timed' /\ InOrder'
    BY <1>4, <2>1, <2>2 DEF Dated, Timed, InOrder, Past
  <2>4. Named'
    BY <1>4, <2>1, <2>2 DEF Dated, Named, Begun
  <2>5. Owned' /\ Ordered'
    BY <1>4, <2>1, <2>2 DEF Dated, Owned, MayFollow, Behind, Ordered, Above
  <2>6. QED
    BY <2>3, <2>4, <2>5 DEF Dated
<1>6. QED
  BY <1>3, <1>4, <1>5, UpSteps, HandlingKeepsDates, EstablishKeepsDates,
     TakePendingKeepsDates, TakeCheckInsKeepsDates, ReadKeepsDates, WriteKeepsDates,
     CommitKeepsDates, RollBackKeepsDates

LEMMA StoppingHolds == Spec => []Stopping
<1>1. Init => Stopping
  BY DEF Init, Stopping, Resting, Idle
<1>2. Shape /\ Stopping /\ [Next]_vars => Stopping'
  BY StepKeepsStopping
<1>3. QED
  BY <1>1, <1>2, ShapeHolds, PTL DEF Spec

LEMMA DatesHold == Spec => [](Up => Dated)
<1>1. Init => Dated
  <2>1. SUFFICES ASSUME Init PROVE Dated
    OBVIOUS
  <2>2. /\ Thread = Resting /\ pending = Empty /\ checked_in = Empty
        /\ clock = 0 /\ logins = 0 /\ loop = Idle
        /\ \A d \in Devices : sessions[d] = None
    BY <2>1 DEF Init, Thread
  <2>3. /\ Thread.pc = "idle" /\ Thread.writing = Empty /\ Thread.checked_in = Empty
        /\ Thread.written = {} /\ Thread.cur = None
    BY <2>2 DEF Resting
  <2>4. Seen = {}
    BY <2>3 DEF Seen
  <2>5. loop.pc = "idle"
    BY <2>2 DEF Idle
  <2>6. \A i \in Ids : Empty[i] = None
    BY DEF Empty
  <2>7. Timed /\ InOrder
    BY <2>2, <2>3, <2>4, <2>5, <2>6 DEF Timed, InOrder, Past, Now
  <2>8. Named /\ Owned
    BY <2>2, <2>3, <2>4, <2>5, <2>6 DEF Named, Owned
  <2>9. Ordered
    BY <2>2, <2>3, <2>4, <2>5, <2>6 DEF Ordered
  <2>10. QED
    BY <2>7, <2>8, <2>9 DEF Dated
<1>2. Shape /\ Stopping /\ (Up => Dated) /\ [Next]_vars => (Up => Dated)'
  BY StepKeepsDates
<1>3. QED
  BY <1>1, <1>2, ShapeHolds, StoppingHolds, PTL DEF Spec

----------------------------------------------------------------------------
\* A step that makes the activity of a session older.
LEMMA ActivityStep ==
  ASSUME Shape, Stopping, Up => Dated, [Next]_vars,
         NEW d \in Devices, stage = "up", SameSession(d),
         sessions'[d].last_activity_date < sessions[d].last_activity_date
  PROVE  \E t \in tokens : t.device = d /\ sessions'[d].last_activity_date <= t.created
<1>1. Up /\ Dated
  BY DEF Up
<1>2. sessions[d] # None /\ sessions'[d] # None /\ sessions[d].last_activity_date \in Nat
      /\ Past(sessions[d].last_activity_date)
  BY <1>1, Values DEF SameSession, Dated, Timed
<1>3. sessions'[d].last_activity_date # sessions[d].last_activity_date
  BY <1>2
<1>4. ASSUME NEW c \in Devices, NEW out \in SUBSET Devices, Establish(c, out)
      PROVE  FALSE
  <2>1. sessions'[d].last_activity_date = Now /\ Now \in Nat
    BY <1>1, <1>2, <1>3, <1>4, EstablishBrings
  <2>2. QED
    BY <1>2, <2>1, Values DEF Past
<1>5. CASE Commit("thread")
  <2>1. PICK w \in Seen : w.id = sessions[d].id /\ sessions'[d].last_activity_date = w.when
    BY <1>1, <1>2, <1>3, <1>5, CommitBrings DEF Written
  <2>2. MayFollow(d, w.when) /\ w.when \in Nat
    BY <1>1, <1>2, <2>1, Values DEF Dated, Owned
  <2>3. QED
    BY <1>2, <2>1, <2>2, Numbers DEF MayFollow, NotBefore, Behind
<1>6. sessions' # sessions
  BY <1>3
<1>7. ~Handling
  BY <1>1, <1>6, HandlingBrings
<1>8. QED
  BY <1>1, <1>4, <1>5, <1>6, <1>7, UpSteps
     DEF TakePending, TakeCheckIns, Write, RollBack, Read, rowVars

\* While the server is up a stored activity date goes back only to a moment before the
\* last login of its device, for any number of devices, logins and failing flushes
\* (`flush` of users/sessions.py against `establish_in` of users/service.py).
THEOREM ActivityGoesBack == Spec => ActivityGoesBackOnlyBehindALogin
<1> DEFINE Step == \A d \in Devices :
                     /\ stage = "up" /\ SameSession(d)
                     /\ sessions'[d].last_activity_date < sessions[d].last_activity_date
                     => \E t \in tokens : t.device = d
                          /\ sessions'[d].last_activity_date <= t.created
<1>1. Shape /\ Stopping /\ (Up => Dated) /\ [Next]_vars => Step
  BY ActivityStep
<1> HIDE DEF Step
<1>2. Spec => [][Step]_vars
  BY <1>1, ShapeHolds, StoppingHolds, DatesHold, PTL DEF Spec
<1>3. QED
  BY <1>2 DEF Step, ActivityGoesBackOnlyBehindALogin

----------------------------------------------------------------------------
(* Check-ins.                                                              *)

Held(d, c) ==
  \/ c \in {checked_in[sessions[d].id], Thread.checked_in[sessions[d].id],
            sessions[d].last_playback_check_in}
  \/ \E w \in Seen : w.id = sessions[d].id /\ w.playback = c

\* While the server is up the check-ins known of the session of a device are in memory,
\* in the hands of the thread, or in its row.
KnownOnes ==
  Up => \A d \in Devices : sessions[d] # None =>
          \A c : c \in CheckIns(sessions[d].id) <=> c # None /\ Held(d, c)

LEMMA CheckInsAreHeld ==
  ASSUME Shape, Stopping, Up => Dated
  PROVE  KnownOnes
<1>1. SUFFICES ASSUME Up, NEW d \in Devices, sessions[d] # None, NEW c
               PROVE  c \in CheckIns(sessions[d].id) <=> c # None /\ Held(d, c)
  BY DEF KnownOnes
<1> DEFINE i == sessions[d].id
           stop == flushing["stop"]
           seen == {v \in UNION {flushing[f].written \union {flushing[f].cur} :
                                   f \in Flushers} : v # None /\ v.id = i}
<1>2. i \in Ids
  BY <1>1, Values
<1>3. stop = Resting
  BY <1>1 DEF Stopping, Up
<1>4. stop.checked_in[i] = None /\ stop.written = {} /\ stop.cur = None
  BY <1>2, <1>3 DEF Resting, Empty
<1>5. RowOf(i) = sessions[d]
  BY <1>1, RowOfDevice DEF Dated
<1>6. \A v : v \in seen <=> v \in Seen /\ v.id = i
  <2>1. UNION {flushing[f].written \union {flushing[f].cur} : f \in Flushers}
          = (Thread.written \union {Thread.cur}) \union (stop.written \union {stop.cur})
    BY DEF Thread
  <2>2. QED
    BY <1>4, <2>1 DEF Seen
<1>7. {flushing[f].checked_in[i] : f \in Flushers}
        = {Thread.checked_in[i], stop.checked_in[i]}
  BY DEF Thread
<1>8. CheckIns(i) = ({checked_in[i]} \union {flushing[f].checked_in[i] : f \in Flushers}
                       \union {w.playback : w \in seen}
                       \union {IF RowOf(i) = None THEN None
                               ELSE RowOf(i).last_playback_check_in}) \ {None}
  BY DEF CheckIns
<1>9. (IF RowOf(i) = None THEN None ELSE RowOf(i).last_playback_check_in)
        = sessions[d].last_playback_check_in
  BY <1>1, <1>5
<1>10. c \in {w.playback : w \in seen} <=> \E w \in Seen : w.id = i /\ w.playback = c
  BY <1>6
<1> HIDE DEF seen, stop
<1>11. c \in CheckIns(i) <=>
         /\ c # None
         /\ \/ c \in {checked_in[i], Thread.checked_in[i], sessions[d].last_playback_check_in}
            \/ c \in {w.playback : w \in seen}
  BY <1>4, <1>7, <1>8, <1>9
<1>12. QED
  BY <1>10, <1>11 DEF Held

HeldAfter(d, c) ==
  \/ c \in {checked_in'[sessions'[d].id], Thread'.checked_in[sessions'[d].id],
            sessions'[d].last_playback_check_in}
  \/ \E w \in Seen' : w.id = sessions'[d].id /\ w.playback = c

KnownLater(d, c) ==
  \/ \E t \in tokens' : t.device = d /\ c <= t.created
  \/ \E k : k # None /\ HeldAfter(d, k) /\ k >= c

\* What is held of a session that goes on is held after the step, or a later check-in is,
\* unless it is behind a login or was popped by a flush that fails.
LEMMA HeldOnes ==
  ASSUME Shape, Stopping, Up, Dated, [Next]_vars,
         NEW d \in Devices, SameSession(d), NEW c \in Nat, Held(d, c)
  PROVE  \/ KnownLater(d, c)
         \/ Popped("thread", sessions[d].id) /\ Thread'.failed
<1> DEFINE i == sessions[d].id
<1>1. sessions[d] # None /\ sessions'[d] # None /\ sessions'[d].id = i /\ i \in Ids
  BY Values DEF SameSession
<1>2. c # None /\ c >= c
  BY Numbers
<1>3. ASSUME HeldAfter(d, c) PROVE KnownLater(d, c)
  BY <1>2, <1>3 DEF KnownLater
<1>4. \/ c \in {checked_in[i], Thread.checked_in[i], sessions[d].last_playback_check_in}
      \/ \E w \in Seen : w.id = i /\ w.playback = c
  BY DEF Held, HeldAfter
<1>5. CASE UNCHANGED <<sessions, checked_in, flushing>>
  <2>1. HeldAfter(d, c)
    BY <1>5, SameThread DEF Held, HeldAfter
  <2>2. QED
    BY <1>3, <2>1
<1>6. CASE Handling
  <2>1. /\ UNCHANGED sessions /\ Thread' = Thread /\ Seen' = Seen
        /\ checked_in'[i] \in {checked_in[i], Now} /\ Now \in Nat
    BY <1>1, <1>6, HandlingBrings, SameThread, Values
  <2>2. CASE c = checked_in[i] /\ checked_in'[i] = Now
    <3>1. HeldAfter(d, Now)
      BY <1>1, <2>1, <2>2 DEF Held, HeldAfter
    <3>2. Now >= c /\ Now # None
      BY <1>1, <2>1, <2>2, Numbers DEF Dated, Timed, Past
    <3>3. QED
      BY <3>1, <3>2 DEF KnownLater
  <2>3. CASE ~(c = checked_in[i] /\ checked_in'[i] = Now)
    <3>1. HeldAfter(d, c)
      BY <1>4, <2>1, <2>3 DEF Held, HeldAfter
    <3>2. QED
      BY <1>3, <3>1
  <2>4. QED
    BY <2>2, <2>3
<1>7. ASSUME NEW e \in Devices, NEW out \in SUBSET Devices, Establish(e, out)
      PROVE  KnownLater(d, c)
  <2>1. Thread' = Thread /\ Seen' = Seen /\ checked_in' = checked_in
    BY <1>7, EstablishBrings, SameThread
  <2>2. CASE sessions'[d] = sessions[d]
    <3>1. HeldAfter(d, c)
      BY <1>4, <2>1, <2>2 DEF Held, HeldAfter
    <3>2. QED
      BY <1>3, <3>1
  <2>3. CASE sessions'[d] # sessions[d]
    <3>1. \E t \in tokens' : t.device = d /\ t.created = Now
      BY <1>1, <1>7, <2>3, EstablishBrings
    <3>2. c <= Now
      BY <1>1, <1>2, <1>4, Values DEF Dated, Timed, Past
    <3>3. QED
      BY <3>1, <3>2 DEF KnownLater
  <2>4. QED
    BY <2>2, <2>3
<1>8. CASE TakePending("thread")
  <2>1. /\ UNCHANGED <<sessions, checked_in>> /\ Thread.pc = "idle"
    BY <1>8 DEF TakePending, Due, Thread, rowVars
  <2>2. Thread.checked_in = Empty /\ Seen = {}
    BY <2>1 DEF Dated, InOrder
  <2>3. HeldAfter(d, c)
    BY <1>1, <1>2, <1>4, <2>1, <2>2 DEF Held, HeldAfter, Empty
  <2>4. QED
    BY <1>3, <2>3
<1>9. CASE TakeCheckIns("thread")
  <2>1. /\ UNCHANGED sessions /\ Thread.pc = "taking"
        /\ Thread.checked_in = Empty /\ Seen = {}
    BY <1>9 DEF TakeCheckIns, Thread, rowVars, Dated, InOrder
  <2>2. Thread' = [Thread EXCEPT !.pc = "reading", !.checked_in = checked_in]
    BY <1>9, Values DEF TakeCheckIns, Thread
  <2>3. Thread'.checked_in = checked_in
    BY <2>2, Values DEF Flush
  <2>4. HeldAfter(d, c)
    BY <1>1, <1>2, <1>4, <2>1, <2>3 DEF Held, HeldAfter, Empty
  <2>5. QED
    BY <1>3, <2>4
<1>10. ASSUME NEW j \in Ids, Read("thread", j)
       PROVE  KnownLater(d, c)
  <2>1. /\ UNCHANGED <<sessions, checked_in>>
        /\ \A k \in Ids : k # j => Thread'.checked_in[k] = Thread.checked_in[k]
        /\ Thread'.cur.id = j
        /\ Seen' = Seen \union {Thread'.cur}
    BY <1>10, ReadBrings
  <2>2. Thread'.cur.playback = Thread.checked_in[j]
    <3>1. Fresh(Thread'.cur)
      BY <1>10, ReadBrings
    <3>2. QED
      BY <2>1, <3>1 DEF Fresh
  <2>3. HeldAfter(d, c)
    BY <1>1, <1>4, <2>1, <2>2 DEF Held, HeldAfter
  <2>4. QED
    BY <1>3, <2>3
<1>11. CASE Write("thread")
  <2>1. /\ UNCHANGED <<sessions, checked_in>>
        /\ Thread'.checked_in = Thread.checked_in /\ Seen' = Seen
    BY <1>11, WriteBrings
  <2>2. HeldAfter(d, c)
    BY <2>1 DEF Held, HeldAfter
  <2>3. QED
    BY <1>3, <2>2
<1>12. CASE RollBack("thread")
  <2>1. /\ UNCHANGED sessions /\ Thread'.failed
        /\ checked_in'[i] = IF checked_in[i] = None THEN Thread.checked_in[i]
                            ELSE checked_in[i]
    BY <1>1, <1>12, RollBackBrings
  <2>2. CASE \E w \in Seen : w.id = i
    <3>1. Popped("thread", i)
      BY <2>2 DEF Popped, Seen, Thread
    <3>2. QED
      BY <2>1, <3>1
  <2>3. CASE c \in {checked_in[i], sessions[d].last_playback_check_in}
    <3>1. HeldAfter(d, c)
      BY <1>2, <2>1, <2>3 DEF Held, HeldAfter
    <3>2. QED
      BY <1>3, <3>1
  <2>4. CASE c = Thread.checked_in[i]
    <3>1. HeldAfter(d, checked_in'[i])
      BY <1>1, <2>1 DEF Held, HeldAfter
    <3>2. checked_in'[i] # None /\ checked_in'[i] >= c
      <4>1. CASE checked_in[i] = None
        BY <1>2, <2>1, <2>4, <4>1
      <4>2. CASE checked_in[i] # None
        <5>1. Thread.pc \in {"reading", "writing"}
          <6>1. Thread.pc \in {"idle", "taking"} => Thread.checked_in[i] = None
            BY <1>1 DEF Dated, InOrder, Empty
          <6>2. Thread.pc \in {"idle", "taking", "reading", "writing"}
            BY Values DEF Flush
          <6>3. QED
            BY <1>2, <2>4, <6>1, <6>2
        <5>2. NotBefore(checked_in[i], Thread.checked_in[i])
          BY <1>1, <4>2, <5>1 DEF Dated, Ordered
        <5>3. QED
          BY <1>2, <2>1, <2>4, <4>2, <5>2 DEF NotBefore
      <4>3. QED
        BY <4>1, <4>2
    <3>3. QED
      BY <3>1, <3>2 DEF KnownLater
  <2>5. QED
    BY <1>4, <2>2, <2>3, <2>4
<1>13. CASE Commit("thread")
  <2>1. /\ UNCHANGED <<tokens, checked_in>>
        /\ Thread.checked_in[i] # None => \E w \in Seen : w.id = i
        /\ \/ /\ sessions'[d] = sessions[d]
              /\ \A w \in Seen : w.id = i => ~Changes(w)
           \/ \E w \in Seen : Written(d, w)
    BY <1>1, <1>13, CommitBrings
  <2> DEFINE s == sessions'[d].last_playback_check_in
  <2>2. HeldAfter(d, s)
    BY DEF Held, HeldAfter
  <2>3. CASE c = checked_in[i]
    <3>1. HeldAfter(d, c)
      BY <1>1, <2>1, <2>3 DEF Held, HeldAfter
    <3>2. QED
      BY <1>3, <3>1
  <2>4. ASSUME c = sessions[d].last_playback_check_in PROVE KnownLater(d, c)
    <3>1. s = c \/ (s # None /\ \E w \in Seen : w.id = i /\ s = w.playback)
      BY <2>1, <2>4 DEF Written
    <3>2. \A w \in Seen : w.id = i => NotBefore(w.playback, c)
      BY <1>1, <2>4 DEF Dated, Owned
    <3>3. s # None /\ s >= c
      BY <1>2, <3>1, <3>2 DEF NotBefore
    <3> HIDE DEF s
    <3>4. QED
      BY <2>2, <3>3 DEF KnownLater
  <2>5. ASSUME NEW w \in Seen, w.id = i, w.playback = c
        PROVE  KnownLater(d, c)
    <3>1. w.row # None
          /\ \/ w.row.last_playback_check_in \in {None, sessions[d].last_playback_check_in}
             \/ Behind(d, w.row.last_playback_check_in)
      BY <1>1, <2>5 DEF Dated, Owned
    <3>2. CASE w.row.last_playback_check_in = c
      <4>1. CASE c = sessions[d].last_playback_check_in
        BY <2>4, <4>1
      <4>2. CASE Behind(d, c)
        BY <2>1, <4>2 DEF Behind, KnownLater
      <4>3. QED
        BY <1>2, <3>1, <3>2, <4>1, <4>2
    <3>3. CASE w.row.last_playback_check_in # c
      <4>1. Changes(w)
        BY <1>2, <2>5, <3>1, <3>3 DEF Changes
      <4>2. PICK v \in Seen : Written(d, v)
        BY <2>1, <2>5, <4>1
      <4>3. v = w
        <5>1. v \in Thread.written /\ w \in Thread.written
          BY <1>13, <2>5, <4>2, CommitBrings
        <5>2. QED
          BY <2>5, <4>2, <5>1 DEF Dated, InOrder, Written
      <4>4. s = c
        BY <1>2, <2>5, <3>3, <4>2, <4>3 DEF Written
      <4>5. QED
        BY <1>3, <2>2, <4>4
    <3>4. QED
      BY <3>2, <3>3
  <2>6. CASE c = Thread.checked_in[i]
    <3>1. PICK w \in Seen : w.id = i
      BY <1>2, <2>1, <2>6
    <3>2. w.playback = c
      BY <1>2, <2>6, <3>1 DEF Dated, InOrder
    <3>3. QED
      BY <2>5, <3>1, <3>2
  <2>7. QED
    BY <1>4, <2>3, <2>4, <2>5, <2>6
<1>14. QED
  BY <1>5, <1>6, <1>7, <1>8, <1>9, <1>10, <1>11, <1>12, <1>13, UpSteps DEF rowVars

\* The server stays up, or stops in a step that touches no check-in.
LEMMA StaysUp ==
  ASSUME Shape, Stopping, stage = "up", [Next]_vars, ~Up'
  PROVE  UNCHANGED <<sessions, checked_in, flushing>>
<1>1. CASE \E f \in Flushers : FlushStep(f)
  BY <1>1, OnlyTheThread DEF Up
<1>2. CASE BeginStop \/ EndStop
  BY <1>2 DEF BeginStop, EndStop, rowVars
<1>3. CASE Handling \/ \E d \in Devices : \E out \in SUBSET Devices : Establish(d, out)
  <2>1. stage' = stage
    BY <1>3 DEF Handling, Request, CheckIn, LookUpHeld, TouchSession, WrongPassword,
                Authenticate, Establish, Tick
  <2>2. QED
    BY <2>1 DEF Up
<1>4. CASE UNCHANGED vars
  BY <1>4 DEF vars, rowVars
<1>5. QED
  BY <1>1, <1>2, <1>3, <1>4 DEF Next, HandlerStep, Handling

LEMMA CheckInStep ==
  ASSUME Shape, Stopping, Up => Dated, KnownOnes, KnownOnes', [Next]_vars,
         NEW d \in Devices, stage = "up", SameSession(d)
  PROVE  \/ \A c \in CheckIns(sessions[d].id) :
              \/ \E t \in tokens' : t.device = d /\ c <= t.created
              \/ \E k \in CheckIns(sessions[d].id)' : k >= c
         \/ \E f \in Flushers : Popped(f, sessions[d].id) /\ flushing'[f].failed
<1>1. Up /\ Dated
  BY DEF Up
<1>2. sessions[d] # None /\ sessions'[d] # None /\ sessions[d].id \in Ids
  BY Values DEF SameSession
<1>3. SUFFICES ASSUME NEW c \in CheckIns(sessions[d].id),
                      ~(Popped("thread", sessions[d].id) /\ Thread'.failed)
               PROVE  \/ \E t \in tokens' : t.device = d /\ c <= t.created
                      \/ \E k \in CheckIns(sessions[d].id)' : k >= c
  BY DEF Thread
<1>4. c # None /\ Held(d, c)
  BY <1>1, <1>2 DEF KnownOnes
<1>5. c \in Nat
  BY <1>2, <1>4, Values DEF Held
<1>6. KnownLater(d, c)
  BY <1>1, <1>3, <1>4, <1>5, HeldOnes
<1>7. CASE Up'
  <2>1. \A k : k \in CheckIns(sessions[d].id)' <=> k # None /\ Held(d, k)'
    BY <1>2, <1>7 DEF KnownOnes
  <2>2. \A k : Held(d, k)' <=> HeldAfter(d, k)
    BY DEF Held, HeldAfter
  <2>3. QED
    BY <1>6, <2>1, <2>2 DEF KnownLater
<1>8. CASE ~Up'
  <2>1. UNCHANGED <<sessions, checked_in, flushing>>
    BY <1>8, StaysUp
  <2>2. CheckIns(sessions[d].id)' = CheckIns(sessions[d].id)
    BY <2>1 DEF CheckIns, RowOf, DeviceOf
  <2>3. c >= c
    BY <1>5
  <2>4. QED
    BY <2>2, <2>3
<1>9. QED
  BY <1>7, <1>8

\* A check-in later than the last login of its device is forgotten only by a flush that
\* fails after it has popped it, whatever a login, a failure or another check-in does in
\* between (`flush`, `touch_playback` and `forget` of users/sessions.py).
THEOREM CheckInsKept == Spec => CheckInsAreKept
<1> DEFINE Step ==
      \A d \in Devices :
        stage = "up" /\ SameSession(d) =>
          \/ \A c \in CheckIns(sessions[d].id) :
               \/ \E t \in tokens' : t.device = d /\ c <= t.created
               \/ \E k \in CheckIns(sessions[d].id)' : k >= c
          \/ \E f \in Flushers : Popped(f, sessions[d].id) /\ flushing'[f].failed
<1>1. Shape /\ Stopping /\ (Up => Dated) /\ KnownOnes /\ KnownOnes' /\ [Next]_vars => Step
  BY CheckInStep
<1>2. Shape /\ Stopping /\ (Up => Dated) => KnownOnes
  BY CheckInsAreHeld
<1> HIDE DEF Step
<1>3. Spec => [][Step]_vars
  BY <1>1, <1>2, ShapeHolds, StoppingHolds, DatesHold, PTL DEF Spec
<1>4. QED
  BY <1>3 DEF Step, CheckInsAreKept
=============================================================================
