---------------------- MODULE TranscodeSessions_proofs ----------------------
(***************************************************************************)
(* The inductive invariant of the transcode manager, and what follows from *)
(* it for any number of requests, stops, keys and segments.                *)
(*                                                                         *)
(* EncoderHasItsSession is not inductive alone.  It survives Started only  *)
(* because the session being given its encoder has none (a locked session  *)
(* points at no encoder), and survives the halting of one session's        *)
(* encoder only because no other session points at it (a session points at *)
(* encoders of its own requests).  It survives a launch because a request  *)
(* that has not launched yet has no encoder.                               *)
(*                                                                         *)
(* From it follow who owns an encoder, that a stop leaves nothing behind,  *)
(* with the invariant Throttled further down, that the throttle starves    *)
(* nobody, and, with Tidy at the end, that the file a request is handed is *)
(* one its own encoder has finished.                                       *)
(***************************************************************************)
EXTENDS TranscodeSessions, WellFoundedInduction, TLAPS

\* A session points only at an encoder one of its own requests has started
\* and recorded.
RunIsRecorded ==
  \A s, e \in Requests :
    ses[s].run = e =>
      req[e].s = s /\ req[e].pc \notin {"new", "locking"} \union InBegin

\* While a request is in _begin its session points at no encoder.
LockedHasNoEncoder ==
  \A s \in Requests : ses[s].lock # None => ses[s].run = None

\* A request has no encoder before it launches one.
UnlaunchedHasNoEncoder ==
  \A r \in Requests :
    req[r].pc \in {"new", "locking", "halting"} => enc[r].st = "none"

\* A request that has come in has a session object.
RequestHasSession ==
  \A r \in Requests : req[r].pc # "new" => req[r].s \in Requests

Order ==
  /\ RunIsRecorded /\ LockedHasNoEncoder
  /\ UnlaunchedHasNoEncoder /\ RequestHasSession
  /\ LockIsHeldInBegin /\ EncoderHasItsSession /\ EveryEncoderIsListed

IInv == TypeOK /\ Order


----------------------------------------------------------------------------
(***************************************************************************)
(* The helpers.                                                            *)
(***************************************************************************)

\* E is the encoders after a step that has signalled some of them but has
\* neither started nor ended one.
SameRunning(E) ==
  /\ E \in [Requests -> Encoder]
  /\ \A e \in Requests : /\ E[e].st \in Running <=> enc[e].st \in Running
                         /\ E[e].st = "none" <=> enc[e].st = "none"

\* Throttling moves encoders between running and paused, and does nothing
\* else to them (_throttle).
LEMMA ThrottleSignalsOnly ==
  ASSUME TypeOK, NEW S, NEW SS
  PROVE  SameRunning(Throttle(S, SS))
<1>1. \A e \in Requests :
        /\ [enc[e] EXCEPT !.st = "paused"] \in Encoder
        /\ [enc[e] EXCEPT !.st = "live"] \in Encoder
        /\ [enc[e] EXCEPT !.st = "paused"].st = "paused"
        /\ [enc[e] EXCEPT !.st = "live"].st = "live"
        /\ enc[e] \in Encoder
  BY DEF TypeOK, Encoder
<1> QED BY <1>1 DEF SameRunning, Throttle, Running

\* A kill ends the encoder it names and no other (Production.stop).
LEMMA KillEndsOne ==
  ASSUME NEW E \in [Requests -> Encoder], NEW e
  PROVE  /\ Kill(E, e) \in [Requests -> Encoder]
         /\ \A x \in Requests :
              /\ Kill(E, e)[x].st \in Running => E[x].st \in Running /\ x # e
              /\ Kill(E, e)[x].st = "none" <=> E[x].st = "none"
  BY NamesAssumption DEF Kill, Encoder, Running

\* The operations on a scratch directory yield one.
LEMMA DirectoryOperations ==
  ASSUME NEW d \in Directory, NEW n \in Index, NEW e \in Requests, NEW R,
         NEW down
  PROVE  /\ Unlink(d, R) \in Directory
         /\ DeleteBehind(d, down) \in Directory
         /\ Touch(d, n) \in Directory
         /\ Open(d, n, e) \in Directory
         /\ Close(d, n, e) \in Directory
         /\ [d EXCEPT !.made = TRUE] \in Directory
         /\ NoDirectory \in Directory
<1>1. \A Q : Unlink(d, Q) \in Directory
  BY DEF Directory, Unlink
<1>2. \A x \in Directory : Touch(x, n) \in Directory
  BY DEF Directory, Touch, File
<1>3. [d EXCEPT !.files = {f \in @ : f.n # n} \union
                          {[n |-> n, by |-> e, whole |-> FALSE]}] \in Directory
  <2>1. \A F \in SUBSET File : [d EXCEPT !.files = F] \in Directory
    BY DEF Directory
  <2>2. [n |-> n, by |-> e, whole |-> FALSE] \in File
    BY DEF File
  <2>3. {f \in d.files : f.n # n} \in SUBSET File
    BY DEF Directory
  <2> QED BY <2>1, <2>2, <2>3
<1>4. Close(d, n, e) \in Directory
  <2>1. \A f \in File : [f EXCEPT !.whole = TRUE] \in File
    BY DEF File
  <2> QED BY <2>1 DEF Directory, Close
<1> QED BY <1>1, <1>2, <1>3, <1>4
        DEF DeleteBehind, Open, Directory, NoDirectory

----------------------------------------------------------------------------
(***************************************************************************)
(* _begin.                                                                 *)
(***************************************************************************)

\* S is the session objects after a step that has changed no encoder and no
\* lock of theirs.
SameOwners(S) ==
  /\ S \in [Requests -> Session]
  /\ \A s \in Requests : S[s].run = ses[s].run /\ S[s].lock = ses[s].lock

\* The variables a segment request changes, typed.
Typed ==
  /\ ses \in [Requests -> Session]
  /\ req \in [Requests -> Request]
  /\ enc \in [Requests -> Encoder]
  /\ disk \in [Keys -> Directory]

\* A launch by the request that may launch keeps the invariant.
LEMMA LaunchKeepsOrder ==
  ASSUME IInv, NEW r \in Requests, NEW s \in Requests, NEW n \in Index,
         NEW S, SameOwners(S), NEW E, SameRunning(E), NEW d,
         S[s].key \in Keys => d \in Directory,
         req[r].pc \in {"new", "locking", "halting"},
         ses[s].run = None,
         ses[s].lock = IF req[r].pc = "halting" THEN r ELSE None,
         Launch(r, s, n, S, E, d), ledger' = ledger
  PROVE  Typed' /\ Order'
<1> DEFINE from == IF n < 0 THEN 0 ELSE n
<1>1. from \in 0 .. LastIndex /\ (IF Fmp4 THEN -1 ELSE from) \in Index
  BY NumbersAssumption DEF Index, First
<1>2. disk' \in [Keys -> Directory]
  BY DirectoryOperations DEF Launch, IInv, TypeOK
<1>3. CASE /\ ses' = [S EXCEPT ![s].from = from, ![s].lock = r]
           /\ enc' = [E EXCEPT ![r] = [st |-> "live", open |-> FALSE,
                                       at |-> IF Fmp4 THEN -1 ELSE from]]
           /\ req' = [req EXCEPT ![r] = [pc |-> "starting", s |-> s, n |-> n,
                                         e |-> None, saw |-> FALSE]]
  <2>1. /\ ses' \in [Requests -> Session]
        /\ ses'[s].lock = r
        /\ \A x \in Requests : ses'[x].run = ses[x].run
        /\ \A x \in Requests \ {s} : ses'[x].lock = ses[x].lock
    <3> DEFINE T == [S[s] EXCEPT !.from = from, !.lock = r]
    <3>1. T \in Session /\ T.lock = r /\ T.run = S[s].run
      BY <1>1, ZenonT(60) DEF SameOwners, Session
    <3>2. ses' = [S EXCEPT ![s] = T]
      BY <1>3 DEF SameOwners
    <3> HIDE DEF T
    <3> QED BY <3>1, <3>2 DEF SameOwners
  <2>2. /\ req' \in [Requests -> Request]
        /\ req'[r].pc = "starting" /\ req'[r].s = s
        /\ \A q \in Requests \ {r} : req'[q] = req[q]
    BY <1>3 DEF IInv, TypeOK, Request, Waiting, InBegin
  <2>3. /\ enc' \in [Requests -> Encoder]
        /\ enc'[r].st = "live"
        /\ \A e \in Requests \ {r} :
             /\ enc'[e].st \in Running <=> enc[e].st \in Running
             /\ enc'[e].st = "none" <=> enc[e].st = "none"
    BY <1>1, <1>3 DEF SameRunning, Encoder
  <2>4. RunIsRecorded'
    BY <2>1, <2>2, NamesAssumption DEF IInv, Order, RunIsRecorded, InBegin
  <2>5. LockedHasNoEncoder'
    BY <2>1 DEF IInv, Order, LockedHasNoEncoder
  <2>6. UnlaunchedHasNoEncoder' /\ RequestHasSession'
    BY <2>2, <2>3
    DEF IInv, Order, UnlaunchedHasNoEncoder, RequestHasSession
  <2>7. LockIsHeldInBegin'
    BY <2>1, <2>2, NamesAssumption
    DEF IInv, Order, LockIsHeldInBegin, InBegin
  <2>8. EncoderHasItsSession' /\ EveryEncoderIsListed'
    <3>1. \A e \in Requests \ {r} : enc[e].st \in Running =>
            /\ ses'[req[e].s].run = ses[req[e].s].run
            /\ req[e].s \in Requests
            /\ req[e].pc = "starting" /\ ses[req[e].s].lock = e
                 => ses'[req[e].s].lock = e
      BY <2>1, NamesAssumption
      DEF IInv, Order, UnlaunchedHasNoEncoder, RequestHasSession, Running
    <3> QED BY <2>1, <2>2, <2>3, <3>1
            DEF IInv, Order, EncoderHasItsSession, EveryEncoderIsListed
  <2> QED BY <1>2, <2>1, <2>2, <2>3, <2>4, <2>5, <2>6, <2>7, <2>8
          DEF Typed, Order
<1>4. CASE /\ ses' = [S EXCEPT ![s].from = from, ![s].lock = None]
           /\ enc' = E
           /\ req' = [req EXCEPT ![r] = [pc |-> "failed", s |-> s, n |-> n,
                                         e |-> None, saw |-> FALSE]]
  <2>1. /\ ses' \in [Requests -> Session]
        /\ ses'[s].lock = None
        /\ \A x \in Requests : ses'[x].run = ses[x].run
        /\ \A x \in Requests \ {s} : ses'[x].lock = ses[x].lock
    <3> DEFINE T == [S[s] EXCEPT !.from = from, !.lock = None]
    <3>1. T \in Session /\ T.lock = None /\ T.run = S[s].run
      BY <1>1, ZenonT(60) DEF SameOwners, Session
    <3>2. ses' = [S EXCEPT ![s] = T]
      BY <1>4 DEF SameOwners
    <3> HIDE DEF T
    <3> QED BY <3>1, <3>2 DEF SameOwners
  <2>2. /\ req' \in [Requests -> Request]
        /\ req'[r].pc = "failed" /\ req'[r].s = s
        /\ \A q \in Requests \ {r} : req'[q] = req[q]
    BY <1>4 DEF IInv, TypeOK, Request, Outcomes
  <2>3. /\ enc' \in [Requests -> Encoder]
        /\ \A e \in Requests :
             /\ enc'[e].st \in Running <=> enc[e].st \in Running
             /\ enc'[e].st = "none" <=> enc[e].st = "none"
    BY <1>4 DEF SameRunning
  <2>4. RunIsRecorded'
    BY <2>1, <2>2, NamesAssumption DEF IInv, Order, RunIsRecorded, InBegin
  <2>5. LockedHasNoEncoder'
    BY <2>1 DEF IInv, Order, LockedHasNoEncoder
  <2>6. UnlaunchedHasNoEncoder' /\ RequestHasSession'
    BY <2>2, <2>3
    DEF IInv, Order, UnlaunchedHasNoEncoder, RequestHasSession
  <2>7. LockIsHeldInBegin'
    BY <2>1, <2>2, NamesAssumption
    DEF IInv, Order, LockIsHeldInBegin, InBegin
  <2>8. EncoderHasItsSession' /\ EveryEncoderIsListed'
    <3>1. enc[r].st = "none"
      BY DEF IInv, Order, UnlaunchedHasNoEncoder
    <3>2. \A e \in Requests : enc[e].st \in Running =>
            /\ e # r
            /\ ses'[req[e].s].run = ses[req[e].s].run
            /\ req[e].s \in Requests
            /\ req[e].pc = "starting" /\ ses[req[e].s].lock = e
                 => ses'[req[e].s].lock = e
      BY <2>1, <3>1, NamesAssumption
      DEF IInv, Order, UnlaunchedHasNoEncoder, RequestHasSession, Running
    <3> QED BY <2>1, <2>2, <2>3, <3>2
            DEF IInv, Order, EncoderHasItsSession, EveryEncoderIsListed
  <2> QED BY <1>2, <2>1, <2>2, <2>3, <2>4, <2>5, <2>6, <2>7, <2>8
          DEF Typed, Order
<1> QED BY <1>3, <1>4 DEF Launch

\* The request that finds the lock free and enters _begin keeps the invariant.
LEMMA BeginKeepsOrder ==
  ASSUME IInv, NEW r \in Requests, NEW s \in Requests, NEW n \in Index,
         NEW S, SameOwners(S), NEW E, SameRunning(E),
         req[r].pc \in {"new", "locking"}, Unlocked(s),
         Begin(r, s, n, S, E)
  PROVE  Typed' /\ Order' /\ ledger' \subseteq Requests
<1> DEFINE current == ProducingIndex(s)
           old == ses[s].run
<1>1. CASE ~Restarts(n, current)
  <2>1. /\ ses' = S /\ enc' = E
        /\ req' = [req EXCEPT ![r] = [pc |-> "settling", s |-> s, n |-> n,
                                      e |-> None, saw |-> FALSE]]
        /\ ledger' = ledger /\ disk' = disk
    BY <1>1 DEF Begin
  <2>2. Typed' /\ ledger' \subseteq Requests
    BY <2>1 DEF IInv, TypeOK, Typed, SameOwners, SameRunning, Request, Waiting
  <2>3. /\ req'[r].pc = "settling" /\ req'[r].s = s
        /\ \A q \in Requests \ {r} : req'[q] = req[q]
    BY <2>1 DEF IInv, TypeOK
  <2>4. RunIsRecorded' /\ LockedHasNoEncoder' /\ LockIsHeldInBegin'
    BY <2>1, <2>3
    DEF IInv, Order, RunIsRecorded, LockedHasNoEncoder, LockIsHeldInBegin,
        SameOwners, InBegin
  <2>5. UnlaunchedHasNoEncoder' /\ RequestHasSession'
    BY <2>1, <2>3
    DEF IInv, Order, UnlaunchedHasNoEncoder, RequestHasSession, SameRunning
  <2>6. EncoderHasItsSession' /\ EveryEncoderIsListed'
    <3>1. \A e \in Requests : enc[e].st \in Running =>
            e # r /\ req[e].s \in Requests
      BY DEF IInv, Order, UnlaunchedHasNoEncoder, RequestHasSession, Running
    <3> QED BY <2>1, <2>3, <3>1
            DEF IInv, Order, EncoderHasItsSession, EveryEncoderIsListed,
                SameOwners, SameRunning
  <2> QED BY <2>2, <2>4, <2>5, <2>6 DEF Order
<1>2. CASE Restarts(n, current) /\ old = None
  <2>1. Launch(r, s, n, S, E, disk[S[s].key]) /\ ledger' = ledger
    BY <1>2 DEF Begin, Halted
  <2>2. S[s].key \in Keys => disk[S[s].key] \in Directory
    BY DEF IInv, TypeOK
  <2>3. ses[s].lock = IF req[r].pc = "halting" THEN r ELSE None
    BY DEF Unlocked
  <2> QED BY <1>2, <2>1, <2>2, <2>3, LaunchKeepsOrder DEF IInv, TypeOK
<1>3. CASE Restarts(n, current) /\ old # None
  <2>1. /\ ses' = [S EXCEPT ![s].lock = r, ![s].run = None]
        /\ enc' = Kill(E, old)
        /\ ledger' = ledger \ {old} /\ disk' = disk
        /\ req' = [req EXCEPT ![r] = [pc |-> "halting", s |-> s, n |-> n,
                                      e |-> old, saw |-> current # NoIndex]]
    BY <1>3 DEF Begin, Halted
  <2>2. old \in Requests
    BY <1>3 DEF IInv, TypeOK, Session
  <2>3. /\ ses' \in [Requests -> Session]
        /\ ses'[s].lock = r /\ ses'[s].run = None
        /\ \A x \in Requests \ {s} :
             ses'[x].lock = ses[x].lock /\ ses'[x].run = ses[x].run
    <3> DEFINE T == [S[s] EXCEPT !.lock = r, !.run = None]
    <3>1. T \in Session /\ T.lock = r /\ T.run = None
      BY DEF SameOwners, Session
    <3>2. ses' = [S EXCEPT ![s] = T]
      BY <2>1 DEF SameOwners
    <3> HIDE DEF T
    <3> QED BY <3>1, <3>2 DEF SameOwners
  <2>4. /\ req' \in [Requests -> Request]
        /\ req'[r].pc = "halting" /\ req'[r].s = s
        /\ \A q \in Requests \ {r} : req'[q] = req[q]
    <3>1. (current # NoIndex) \in BOOLEAN
      OBVIOUS
    <3> HIDE DEF current
    <3> QED BY <2>1, <2>2, <3>1 DEF IInv, TypeOK, Request, Waiting, InBegin
  <2>5. /\ enc' \in [Requests -> Encoder]
        /\ \A e \in Requests :
             /\ enc'[e].st \in Running => enc[e].st \in Running /\ e # old
             /\ enc'[e].st = "none" <=> enc[e].st = "none"
    BY <2>1, KillEndsOne DEF SameRunning
  <2>6. RunIsRecorded' /\ LockedHasNoEncoder'
    BY <2>3, <2>4, NamesAssumption
    DEF IInv, Order, RunIsRecorded, LockedHasNoEncoder
  <2>7. UnlaunchedHasNoEncoder' /\ RequestHasSession'
    BY <2>4, <2>5
    DEF IInv, Order, UnlaunchedHasNoEncoder, RequestHasSession
  <2>8. LockIsHeldInBegin'
    BY <2>3, <2>4, NamesAssumption
    DEF IInv, Order, LockIsHeldInBegin, InBegin, Unlocked
  <2>9. EncoderHasItsSession' /\ EveryEncoderIsListed'
    <3>1. \A e \in Requests : enc'[e].st \in Running =>
            /\ e # r /\ e # old
            /\ enc[e].st \in Running
            /\ req[e].s \in Requests /\ req[e].s # s
      BY <2>5, NamesAssumption
      DEF IInv, Order, UnlaunchedHasNoEncoder, RequestHasSession, Running,
          EncoderHasItsSession, Unlocked
    <3> QED BY <2>1, <2>3, <2>4, <3>1
            DEF IInv, Order, EncoderHasItsSession, EveryEncoderIsListed
  <2> QED BY <2>1, <2>3, <2>4, <2>5, <2>6, <2>7, <2>8, <2>9
          DEF Typed, Order, IInv, TypeOK
<1> QED BY <1>1, <1>2, <1>3

----------------------------------------------------------------------------
(***************************************************************************)
(* Every other step.                                                       *)
(***************************************************************************)

\* A step that launches nothing and moves no request into or out of _begin
\* keeps the invariant if it ends every encoder it takes from a session or
\* from the ledger.
LEMMA EndingKeepsOrder ==
  ASSUME IInv,
         \A r \in Requests :
           /\ req'[r].s = req[r].s
           /\ \/ req'[r].pc = req[r].pc
              \/ {req[r].pc, req'[r].pc} \intersect
                   ({"new", "locking"} \union InBegin) = {},
         \A s \in Requests : /\ ses'[s].lock = ses[s].lock
                            /\ ses'[s].run \in {ses[s].run, None},
         \A e \in Requests :
           /\ enc'[e].st \in Running =>
                /\ enc[e].st \in Running
                /\ ses[req[e].s].run = e => ses'[req[e].s].run = e
                /\ e \in ledger => e \in ledger'
           /\ enc[e].st = "none" => enc'[e].st = "none"
  PROVE  Order'
<1>1. \A r \in Requests :
        /\ req'[r].pc \in {"new", "locking"} \union InBegin
             <=> req[r].pc \in {"new", "locking"} \union InBegin
        /\ req[r].pc \in {"new", "locking"} \union InBegin
             => req'[r].pc = req[r].pc
  OBVIOUS
<1>2. RunIsRecorded' /\ LockedHasNoEncoder'
  BY <1>1, NamesAssumption
  DEF IInv, Order, RunIsRecorded, LockedHasNoEncoder
<1>3. UnlaunchedHasNoEncoder' /\ RequestHasSession'
  BY <1>1
  DEF IInv, Order, UnlaunchedHasNoEncoder, RequestHasSession, InBegin
<1>4. LockIsHeldInBegin'
  BY <1>1 DEF IInv, Order, LockIsHeldInBegin
<1>5. EncoderHasItsSession' /\ EveryEncoderIsListed'
  <2>1. \A e \in Requests : enc'[e].st \in Running => req[e].s \in Requests
    BY DEF IInv, Order, UnlaunchedHasNoEncoder, RequestHasSession, Running
  <2> QED BY <1>1, <2>1
          DEF IInv, Order, EncoderHasItsSession, EveryEncoderIsListed, InBegin
<1> QED BY <1>2, <1>3, <1>4, <1>5 DEF Order

\* A kill path's step keeps the invariant (_discard, and apply_policy after).
LEMMA DiscardKeepsInvariant ==
  ASSUME IInv, NEW c \in Killers, NEW todo \in SUBSET Requests,
         NEW gone, Discard(c, todo, gone), UNCHANGED <<req, stage>>
  PROVE  IInv'
<1>1. ASSUME NEW s \in todo, NEW idle \in SUBSET Requests,
             ses[s].run # None,
             killer' = [killer EXCEPT ![c] =
               [pc |-> "discarding", todo |-> todo \ (idle \union {s}),
                cur |-> s, e |-> ses[s].run]],
             ses' = [ses EXCEPT ![s].run = None],
             ledger' = ledger \ {ses[s].run},
             enc' = Kill(enc, ses[s].run),
             sessions' = [k \in Keys |->
               IF k \in {ses[x].key : x \in gone \union idle}
               THEN None ELSE sessions[k]],
             disk' = [k \in Keys |->
               IF k \in {ses[x].key : x \in gone \union idle}
               THEN NoDirectory ELSE disk[k]]
      PROVE  IInv'
  <2>1. ses[s].run \in Requests
    BY <1>1 DEF IInv, TypeOK, Session
  <2>2. /\ ses' \in [Requests -> Session]
        /\ ses'[s].run = None
        /\ \A x \in Requests : ses'[x].lock = ses[x].lock
        /\ \A x \in Requests \ {s} : ses'[x].run = ses[x].run
    BY <1>1 DEF IInv, TypeOK, Session
  <2>3. /\ enc' \in [Requests -> Encoder]
        /\ \A e \in Requests :
             /\ enc'[e].st \in Running => enc[e].st \in Running /\ e # ses[s].run
             /\ enc'[e].st = "none" <=> enc[e].st = "none"
    BY <1>1, KillEndsOne DEF IInv, TypeOK
  <2>4. Order'
    <3>1. \A e \in Requests :
            /\ enc'[e].st \in Running =>
                 /\ enc[e].st \in Running
                 /\ ses[req[e].s].run = e => ses'[req[e].s].run = e
                 /\ e \in ledger => e \in ledger'
            /\ enc[e].st = "none" => enc'[e].st = "none"
      <4>1. \A e \in Requests : enc[e].st \in Running => req[e].s \in Requests
        BY DEF IInv, Order, UnlaunchedHasNoEncoder, RequestHasSession, Running
      <4> QED BY <1>1, <2>2, <2>3, <4>1
    <3> QED BY <2>2, <3>1, EndingKeepsOrder
  <2>5. killer' \in [Killers -> Killer]
    <3>1. [pc |-> "discarding", todo |-> todo \ (idle \union {s}),
           cur |-> s, e |-> ses[s].run] \in Killer
      BY <2>1 DEF Killer
    <3> QED BY <1>1, <3>1 DEF IInv, TypeOK
  <2>6. sessions' \in [Keys -> Requests \union {None}]
    BY <1>1 DEF IInv, TypeOK
  <2>7. disk' \in [Keys -> Directory]
    BY <1>1 DEF IInv, TypeOK, Directory, NoDirectory
  <2> QED BY <1>1, <2>2, <2>3, <2>4, <2>5, <2>6, <2>7 DEF IInv, TypeOK
<1>2. ASSUME NEW keys, NEW left \in [Keys -> Requests \union {None}], NEW kept,
             killer' = [killer EXCEPT ![c] =
               [pc |-> IF c = Sweeper THEN "idle" ELSE "done",
                todo |-> {}, cur |-> None, e |-> None]],
             sessions' = left,
             enc' = IF c = Sweeper THEN Throttle(ses, kept) ELSE enc,
             disk' = [k \in Keys |->
               IF k \in keys THEN NoDirectory
               ELSE IF c = Sweeper /\ left[k] # None
               THEN DeleteBehind(disk[k], ses[left[k]].down)
               ELSE disk[k]],
             UNCHANGED <<ses, ledger>>
      PROVE  IInv'
  <2>1. SameRunning(enc')
    BY <1>2, ThrottleSignalsOnly DEF IInv, TypeOK, SameRunning
  <2>2. Order'
    BY <1>2, <2>1, EndingKeepsOrder DEF SameRunning
  <2>3. killer' \in [Killers -> Killer]
    <3>1. [pc |-> IF c = Sweeper THEN "idle" ELSE "done",
           todo |-> {}, cur |-> None, e |-> None] \in Killer
      BY DEF Killer
    <3> QED BY <1>2, <3>1 DEF IInv, TypeOK
  <2>4. disk' \in [Keys -> Directory]
    <3>1. \A k \in Keys : disk[k] \in Directory
      BY DEF IInv, TypeOK
    <3>2. \A d \in Directory : \A down : DeleteBehind(d, down) \in Directory
      BY DEF DeleteBehind, Unlink, Directory
    <3>3. NoDirectory \in Directory
      BY DEF Directory, NoDirectory
    <3> QED BY <1>2, <3>1, <3>2, <3>3
  <2> QED BY <1>2, <2>1, <2>2, <2>3, <2>4 DEF IInv, TypeOK, SameRunning
<1> QED
  <2>1. CASE \E s \in todo, idle \in SUBSET {x \in todo : ses[x].run = None} :
               LET keys == {ses[x].key : x \in gone \union idle}
               IN  /\ ses[s].run # None
                   /\ killer' = [killer EXCEPT ![c] =
                        [pc |-> "discarding", todo |-> todo \ (idle \union {s}),
                         cur |-> s, e |-> ses[s].run]]
                   /\ ses' = [ses EXCEPT ![s].run = None]
                   /\ ledger' = ledger \ {ses[s].run}
                   /\ enc' = Kill(enc, ses[s].run)
                   /\ sessions' = [k \in Keys |->
                                     IF k \in keys THEN None ELSE sessions[k]]
                   /\ disk' = [k \in Keys |->
                                 IF k \in keys THEN NoDirectory ELSE disk[k]]
    <3>1. SUBSET {x \in todo : ses[x].run = None} \subseteq SUBSET Requests
      OBVIOUS
    <3> QED BY <1>1, <2>1, <3>1
  <2> DEFINE keys == {ses[x].key : x \in gone \union todo}
             left == [k \in Keys |-> IF k \in keys THEN None ELSE sessions[k]]
             kept == {left[k] : k \in Keys} \ {None}
  <2>2. CASE /\ killer' = [killer EXCEPT ![c] =
                  [pc |-> IF c = Sweeper THEN "idle" ELSE "done",
                   todo |-> {}, cur |-> None, e |-> None]]
             /\ sessions' = left
             /\ enc' = IF c = Sweeper THEN Throttle(ses, kept) ELSE enc
             /\ disk' = [k \in Keys |->
                  IF k \in keys THEN NoDirectory
                  ELSE IF c = Sweeper /\ left[k] # None
                  THEN DeleteBehind(disk[k], ses[left[k]].down)
                  ELSE disk[k]]
             /\ UNCHANGED <<ses, ledger>>
    <3>1. left \in [Keys -> Requests \union {None}]
      BY DEF IInv, TypeOK
    <3> HIDE DEF keys, left, kept
    <3> QED BY <1>2, <2>2, <3>1
  <2> QED BY <2>1, <2>2 DEF Discard, DiscardNext, DiscardRest

\* The steps of a segment request.
LEMMA SegmentKeepsInvariant ==
  ASSUME IInv, NEW r \in Requests, Segment(r)
  PROVE  IInv'
<1>0. PICK k \in Keys, n \in Index :
      LET s == IF sessions[k] = None THEN r ELSE sessions[k]
          S == [ses EXCEPT ![s].key = k, ![s].fresh = TRUE,
                           ![s].down = Furthest(s, n)]
          E == Throttle(S, {s})
          free == /\ Unlocked(s)
                  /\ \A q \in Requests :
                       req[q].pc = "locking" => req[q].s # s
      IN  /\ sessions' = [sessions EXCEPT ![k] = s]
          /\ IF Exists(disk[k], n) \/ ~free
             THEN /\ ses' = S /\ enc' = E
                  /\ req' = [req EXCEPT ![r] =
                       [pc |-> IF Exists(disk[k], n) THEN "settling"
                                                     ELSE "locking",
                        s |-> s, n |-> n, e |-> None, saw |-> FALSE]]
                  /\ UNCHANGED <<ledger, disk>>
             ELSE Begin(r, s, n, S, E)
  BY DEF Segment
<1> DEFINE s == IF sessions[k] = None THEN r ELSE sessions[k]
           S == [ses EXCEPT ![s].key = k, ![s].fresh = TRUE,
                            ![s].down = Furthest(s, n)]
           E == Throttle(S, {s})
<1>1. s \in Requests
  BY DEF IInv, TypeOK
<1>2. SameOwners(S)
  <2>1. Furthest(s, n) \in 0 .. LastIndex + 1
    BY <1>1, NumbersAssumption
    DEF IInv, TypeOK, Session, Furthest, Index, First
  <2> DEFINE far == Furthest(s, n)
             T == [ses[s] EXCEPT !.key = k, !.fresh = TRUE, !.down = far]
  <2>2. S = [ses EXCEPT ![s] = T]
    BY <1>1 DEF IInv, TypeOK
  <2> HIDE DEF far, S, s
  <2>3. T \in Session /\ T.lock = ses[s].lock /\ T.run = ses[s].run
    BY <1>1, <2>1 DEF far, IInv, TypeOK, Session
  <2> HIDE DEF T
  <2> QED BY <1>1, <2>2, <2>3 DEF SameOwners, IInv, TypeOK
<1>3. SameRunning(E)
  BY ThrottleSignalsOnly DEF IInv
<1>4. req[r].pc = "new" /\ killer' = killer /\ stage' = stage
  BY DEF Segment
<1>5. sessions' \in [Keys -> Requests \union {None}]
  <2>1. sessions' = [sessions EXCEPT ![k] = s]
    BY <1>0
  <2> HIDE DEF s
  <2> QED BY <1>1, <2>1 DEF IInv, TypeOK
<1> HIDE DEF s, S, E
<1>6. CASE Begin(r, s, n, S, E) /\ Unlocked(s)
  <2>1. Typed' /\ Order' /\ ledger' \subseteq Requests
    BY <1>1, <1>2, <1>3, <1>4, <1>6, BeginKeepsOrder
  <2> QED BY <1>4, <1>5, <2>1 DEF IInv, TypeOK, Typed
<1>7. CASE /\ ses' = S /\ enc' = E
           /\ \E pc \in {"settling", "locking"} :
                req' = [req EXCEPT ![r] =
                  [pc |-> pc, s |-> s, n |-> n, e |-> None, saw |-> FALSE]]
           /\ UNCHANGED <<ledger, disk>>
  <2>1. /\ req' \in [Requests -> Request]
        /\ req'[r].pc \in {"settling", "locking"} /\ req'[r].s = s
        /\ \A q \in Requests \ {r} : req'[q] = req[q]
    BY <1>1, <1>7 DEF IInv, TypeOK, Request, Waiting
  <2>2. RunIsRecorded' /\ LockedHasNoEncoder' /\ LockIsHeldInBegin'
    <3>1. \A x \in Requests :
            ses'[x].run = ses[x].run /\ ses'[x].lock = ses[x].lock
      BY <1>2, <1>7 DEF SameOwners
    <3>2. RunIsRecorded'
      BY <1>4, <2>1, <3>1 DEF IInv, Order, RunIsRecorded, InBegin
    <3>3. LockedHasNoEncoder'
      BY <3>1 DEF IInv, Order, LockedHasNoEncoder
    <3>4. LockIsHeldInBegin'
      BY <1>4, <2>1, <3>1 DEF IInv, Order, LockIsHeldInBegin, InBegin
    <3> QED BY <3>2, <3>3, <3>4
  <2>3. UnlaunchedHasNoEncoder' /\ RequestHasSession'
    BY <1>1, <1>3, <1>4, <1>7, <2>1
    DEF IInv, Order, UnlaunchedHasNoEncoder, RequestHasSession, SameRunning
  <2>4. EncoderHasItsSession' /\ EveryEncoderIsListed'
    <3>1. \A e \in Requests : enc[e].st \in Running =>
            e # r /\ req[e].s \in Requests
      BY <1>4 DEF IInv, Order, UnlaunchedHasNoEncoder, RequestHasSession,
                  Running
    <3>2. \A e \in Requests : enc'[e].st \in Running =>
            /\ enc[e].st \in Running
            /\ req'[e] = req[e]
            /\ ses'[req[e].s].run = ses[req[e].s].run
            /\ ses'[req[e].s].lock = ses[req[e].s].lock
      BY <1>2, <1>3, <1>7, <2>1, <3>1 DEF SameOwners, SameRunning
    <3>3. EncoderHasItsSession'
      BY <3>2 DEF IInv, Order, EncoderHasItsSession
    <3>4. EveryEncoderIsListed'
      BY <1>7, <3>2 DEF IInv, Order, EveryEncoderIsListed
    <3> QED BY <3>3, <3>4
  <2> QED BY <1>2, <1>3, <1>4, <1>5, <1>7, <2>1, <2>2, <2>3, <2>4
          DEF IInv, TypeOK, Order, SameOwners, SameRunning
<1> QED BY <1>0, <1>6, <1>7 DEF s, S, E

LEMMA EnterKeepsInvariant ==
  ASSUME IInv, NEW r \in Requests, Enter(r)
  PROVE  IInv'
<1>1. /\ req[r].pc = "locking" /\ Unlocked(req[r].s)
      /\ req[r].s \in Requests /\ req[r].n \in Index
      /\ UNCHANGED <<sessions, killer, stage>>
  BY DEF Enter, IInv, TypeOK, Order, RequestHasSession, Request
<1>2. CASE /\ req' = [req EXCEPT ![r].pc = "settling"]
           /\ UNCHANGED <<ses, enc, ledger, disk>>
  <2>1. /\ req' \in [Requests -> Request]
        /\ req'[r].pc = "settling" /\ req'[r].s = req[r].s
        /\ \A q \in Requests \ {r} : req'[q] = req[q]
    BY <1>2 DEF IInv, TypeOK, Request, Waiting
  <2>2. Order'
    BY <1>1, <1>2, <2>1
    DEF IInv, Order, RunIsRecorded, LockedHasNoEncoder, LockIsHeldInBegin,
        UnlaunchedHasNoEncoder, RequestHasSession, EncoderHasItsSession,
        EveryEncoderIsListed, InBegin
  <2> QED BY <1>1, <1>2, <2>1, <2>2 DEF IInv, TypeOK
<1>3. CASE Begin(r, req[r].s, req[r].n, ses, enc)
  <2>1. SameOwners(ses) /\ SameRunning(enc)
    BY DEF IInv, TypeOK, SameOwners, SameRunning
  <2>2. Typed' /\ Order' /\ ledger' \subseteq Requests
    BY <1>1, <1>3, <2>1, BeginKeepsOrder
  <2> QED BY <1>1, <2>2 DEF IInv, TypeOK, Typed
<1> QED BY <1>2, <1>3 DEF Enter

LEMMA SpawnKeepsInvariant ==
  ASSUME IInv, NEW r \in Requests, Spawn(r)
  PROVE  IInv'
<1> DEFINE s == req[r].s
           d == IF req[r].saw THEN Unlink(Dir(s), {Newest(Dir(s))}) ELSE Dir(s)
<1>1. /\ req[r].pc = "halting" /\ s \in Requests /\ req[r].n \in Index
      /\ Launch(r, s, req[r].n, ses, enc, d)
      /\ UNCHANGED <<sessions, ledger, killer, stage>>
  BY DEF Spawn, IInv, TypeOK, Order, RequestHasSession, Request
<1>2. ses[s].lock = r /\ ses[s].run = None
  BY <1>1, NamesAssumption, SMTT(30)
  DEF IInv, Order, LockIsHeldInBegin, LockedHasNoEncoder, InBegin
<1>3. ses[s].key \in Keys => d \in Directory
  BY DEF Dir, Unlink, Directory, IInv, TypeOK
<1>4. SameOwners(ses) /\ SameRunning(enc)
  BY DEF IInv, TypeOK, SameOwners, SameRunning
<1> HIDE DEF s, d
<1>5. Typed' /\ Order'
  BY <1>1, <1>2, <1>3, <1>4, LaunchKeepsOrder
<1> QED BY <1>1, <1>5 DEF IInv, TypeOK, Typed

LEMMA StartedKeepsInvariant ==
  ASSUME IInv, NEW r \in Requests, Started(r)
  PROVE  IInv'
<1> DEFINE s == req[r].s
<1>1. req[r].pc = "starting" /\ s \in Requests
  BY DEF Started, IInv, Order, RequestHasSession
<1>2. ses[s].lock = r /\ ses[s].run = None
  BY <1>1, NamesAssumption
  DEF IInv, Order, LockIsHeldInBegin, LockedHasNoEncoder, InBegin
<1>3. /\ ses' \in [Requests -> Session]
      /\ ses'[s].run = r /\ ses'[s].lock = None
      /\ \A x \in Requests \ {s} : ses'[x] = ses[x]
  <2> DEFINE T == [ses[s] EXCEPT !.run = r, !.lock = None]
  <2>1. T \in Session /\ T.run = r /\ T.lock = None
    BY <1>1, ZenonT(60) DEF IInv, TypeOK, Session
  <2>2. ses' = [ses EXCEPT ![s] = T]
    BY <1>1 DEF Started, IInv, TypeOK
  <2> HIDE DEF T
  <2> QED BY <1>1, <2>1, <2>2 DEF IInv, TypeOK
<1>4. /\ req' \in [Requests -> Request]
      /\ req'[r].pc = "settling" /\ req'[r].s = s
      /\ \A q \in Requests \ {r} : req'[q] = req[q]
  BY DEF Started, IInv, TypeOK, Request, Waiting
<1>5. /\ ledger' = ledger \union {r}
      /\ UNCHANGED <<sessions, enc, disk, killer, stage>>
  BY DEF Started
<1>6. RunIsRecorded' /\ LockedHasNoEncoder' /\ LockIsHeldInBegin'
  BY <1>1, <1>2, <1>3, <1>4, NamesAssumption
  DEF IInv, Order, RunIsRecorded, LockedHasNoEncoder, LockIsHeldInBegin,
      InBegin
<1>7. UnlaunchedHasNoEncoder' /\ RequestHasSession'
  BY <1>1, <1>4, <1>5
  DEF IInv, Order, UnlaunchedHasNoEncoder, RequestHasSession
<1>8. EncoderHasItsSession' /\ EveryEncoderIsListed'
  <2>1. \A e \in Requests \ {r} : enc[e].st \in Running =>
          req[e].s \in Requests /\ req[e].s # s
    BY <1>2, NamesAssumption
    DEF IInv, Order, EncoderHasItsSession, UnlaunchedHasNoEncoder,
        RequestHasSession, Running
  <2> QED BY <1>3, <1>4, <1>5, <2>1
          DEF IInv, Order, EncoderHasItsSession, EveryEncoderIsListed
<1> QED BY <1>3, <1>4, <1>5, <1>6, <1>7, <1>8 DEF IInv, TypeOK, Order

\* The wait for a segment to be finished (_settled).
LEMMA SettledKeepsInvariant ==
  ASSUME IInv, NEW r \in Requests,
         \/ SettledWhileProducing(r) \/ SettledAfterProduction(r) \/ Reaped(r)
  PROVE  IInv'
<1>1. \A d, n : Outcome(d, n) \in Outcomes
  BY DEF Outcome, Outcomes
<1>2. CASE /\ req[r].pc \in {"settling", "reaping"}
           /\ \E pc \in Outcomes :
                \/ req' = [req EXCEPT ![r].pc = pc]
                \/ req' = [req EXCEPT ![r].pc = pc, ![r].e = None,
                                      ![r].saw = FALSE]
           /\ UNCHANGED <<sessions, ses, enc, ledger, disk, killer, stage>>
  <2>1. /\ req' \in [Requests -> Request]
        /\ req'[r].pc \in Outcomes /\ req'[r].s = req[r].s
        /\ \A q \in Requests \ {r} : req'[q] = req[q]
    BY <1>2 DEF IInv, TypeOK, Request
  <2>2. Order'
    BY <1>2, <2>1, EndingKeepsOrder DEF Outcomes, InBegin
  <2> QED BY <1>2, <2>1, <2>2 DEF IInv, TypeOK
<1>3. CASE /\ SettledAfterProduction(r) /\ ses[req[r].s].run # None
  <2> DEFINE s == req[r].s
             old == ses[s].run
  <2>1. req[r].pc = "settling" /\ s \in Requests
    BY <1>3 DEF SettledAfterProduction, IInv, Order, RequestHasSession
  <2>2. old \in Requests /\ enc[old].st \notin Running
    BY <1>3, <2>1
    DEF SettledAfterProduction, Producing, IInv, TypeOK, Session, Running
  <2>3. /\ req' = [req EXCEPT ![r].pc = "reaping", ![r].e = old,
                              ![r].saw = Exists(Dir(s), req[r].n)]
        /\ ses' = [ses EXCEPT ![s].run = None]
        /\ ledger' = ledger \ {old}
        /\ UNCHANGED <<sessions, enc, disk, killer, stage>>
    BY <1>3 DEF SettledAfterProduction
  <2>4. /\ ses' \in [Requests -> Session]
        /\ ses'[s].run = None
        /\ \A x \in Requests : ses'[x].lock = ses[x].lock
        /\ \A x \in Requests \ {s} : ses'[x].run = ses[x].run
    BY <2>1, <2>3 DEF IInv, TypeOK, Session
  <2>5. /\ req' \in [Requests -> Request]
        /\ req'[r].pc = "reaping" /\ req'[r].s = s
        /\ \A q \in Requests \ {r} : req'[q] = req[q]
    <3> DEFINE T == [req[r] EXCEPT !.pc = "reaping", !.e = old,
                                   !.saw = Exists(Dir(s), req[r].n)]
    <3>1. Exists(Dir(s), req[r].n) \in BOOLEAN
      BY DEF Exists
    <3>2. T \in Request /\ T.pc = "reaping" /\ T.s = s
      BY <2>2, <3>1 DEF IInv, TypeOK, Request, Waiting
    <3>3. req' = [req EXCEPT ![r] = T]
      BY <2>3 DEF IInv, TypeOK
    <3> HIDE DEF T
    <3> QED BY <3>2, <3>3 DEF IInv, TypeOK
  <2>6. Order'
    <3>1. \A e \in Requests : enc[e].st \in Running => req[e].s \in Requests
      BY DEF IInv, Order, UnlaunchedHasNoEncoder, RequestHasSession, Running
    <3>2. \A e \in Requests :
            /\ enc'[e].st \in Running =>
                 /\ enc[e].st \in Running
                 /\ ses[req[e].s].run = e => ses'[req[e].s].run = e
                 /\ e \in ledger => e \in ledger'
            /\ enc[e].st = "none" => enc'[e].st = "none"
      BY <2>2, <2>3, <2>4, <3>1, SMTT(30)
    <3> HIDE DEF old
    <3> QED BY <2>1, <2>4, <2>5, <3>2, EndingKeepsOrder DEF InBegin
  <2> QED BY <2>3, <2>4, <2>5, <2>6 DEF IInv, TypeOK
<1> QED
  <2>1. CASE SettledWhileProducing(r)
    BY <1>1, <1>2, <2>1 DEF SettledWhileProducing
  <2>2. CASE SettledAfterProduction(r) /\ ses[req[r].s].run = None
    <3>1. PICK pc \in Outcomes : req' = [req EXCEPT ![r].pc = pc]
      BY <1>1, <2>2 DEF SettledAfterProduction, Outcomes
    <3> QED BY <1>2, <2>2, <3>1 DEF SettledAfterProduction
  <2>3. CASE Reaped(r)
    <3>1. PICK pc \in Outcomes :
            req' = [req EXCEPT ![r].pc = pc, ![r].e = None, ![r].saw = FALSE]
      BY <1>1, <2>3 DEF Reaped, Outcomes
    <3> QED BY <1>2, <2>3, <3>1 DEF Reaped
  <2> QED BY <1>3, <2>1, <2>2, <2>3

\* The steps of an encoder.
LEMMA EncoderKeepsInvariant ==
  ASSUME IInv, NEW e \in Requests,
         EncoderStep(e) \/ Writes(e) \/ Crashes(e) \/ Reap(e)
  PROVE  IInv'
<1>1. UNCHANGED <<sessions, ses, req, ledger, killer, stage>>
  BY DEF EncoderStep, Opens, Advances, Writes, Crashes, Reap
<1>2. enc[e] \in Encoder /\ enc[e].at \in Index
  BY DEF IInv, TypeOK, Encoder
<1>3. ASSUME enc' \in [Requests -> Encoder], disk' \in [Keys -> Directory],
             \A x \in Requests :
               /\ enc'[x].st \in Running => enc[x].st \in Running
               /\ enc[x].st = "none" => enc'[x].st = "none"
      PROVE  IInv'
  <2>1. Order'
    BY <1>1, <1>3, EndingKeepsOrder
  <2> QED BY <1>1, <1>3, <2>1 DEF IInv, TypeOK
<1>4. CASE Opens(e)
  <2> DEFINE k == ses[req[e].s].key
  <2>1. disk' = disk \/ disk' = [disk EXCEPT ![k] = Open(@, enc[e].at, e)]
    BY <1>4 DEF Opens
  <2>2. disk' \in [Keys -> Directory]
    <3>1. k \in Keys => Open(disk[k], enc[e].at, e) \in Directory
      BY <1>2, DirectoryOperations DEF IInv, TypeOK
    <3> HIDE DEF k
    <3> QED BY <2>1, <3>1 DEF IInv, TypeOK
  <2>3. /\ enc[e].st = "live"
        /\ \/ enc' = [enc EXCEPT ![e].open = TRUE]
           \/ enc' = [enc EXCEPT ![e].st = "gone"]
    BY <1>4 DEF Opens
  <2>4. /\ enc' \in [Requests -> Encoder]
        /\ \A x \in Requests \ {e} : enc'[x] = enc[x]
    <3>1. /\ [enc[e] EXCEPT !.open = TRUE] \in Encoder
          /\ [enc[e] EXCEPT !.st = "gone"] \in Encoder
      BY <1>2 DEF Encoder
    <3>2. \E T \in Encoder : enc' = [enc EXCEPT ![e] = T]
      BY <2>3, <3>1 DEF IInv, TypeOK
    <3> QED BY <3>2 DEF IInv, TypeOK
  <2> QED BY <1>3, <2>2, <2>3, <2>4 DEF Running
<1>5. CASE Advances(e)
  <2> DEFINE k == ses[req[e].s].key
             closed == Close(disk[k], enc[e].at, e)
             n == Following(e)
  <2>1. enc[e].st = "live" /\ req[e].s \in Requests
    BY <1>5
    DEF Advances, IInv, Order, UnlaunchedHasNoEncoder, RequestHasSession
  <2>2. enc[e].at < LastIndex => n \in Index
    BY <1>2, <2>1, NumbersAssumption
    DEF Following, IInv, TypeOK, Session, Index, First
  <2>3. k \in Keys => closed \in Directory
    BY <1>2, DirectoryOperations DEF IInv, TypeOK
  <2>4. n \in Index /\ k \in Keys => Open(closed, n, e) \in Directory
    BY <2>3, DirectoryOperations
  <2>5. \/ /\ enc[e].at < LastIndex
           /\ enc' = [enc EXCEPT ![e].at = n]
           /\ disk' = [disk EXCEPT ![k] = Open(closed, n, e)]
        \/ /\ enc' = [enc EXCEPT ![e].st = "gone", ![e].open = FALSE]
           /\ disk' = [disk EXCEPT ![k] = closed]
    BY <1>5 DEF Advances
  <2> HIDE DEF k, closed, n
  <2>6. disk' \in [Keys -> Directory]
    BY <2>2, <2>3, <2>4, <2>5 DEF IInv, TypeOK
  <2>7. /\ enc' \in [Requests -> Encoder]
        /\ \A x \in Requests \ {e} : enc'[x] = enc[x]
    BY <1>2, <2>2, <2>5 DEF IInv, TypeOK, Encoder
  <2> QED BY <1>3, <2>1, <2>6, <2>7 DEF Running
<1>6. CASE Writes(e)
  <2> DEFINE k == ses[req[e].s].key
  <2>1. disk' = [disk EXCEPT ![k] = Touch(@, enc[e].at)] /\ enc' = enc
    BY <1>6 DEF Writes
  <2>2. disk' \in [Keys -> Directory]
    <3>1. k \in Keys => Touch(disk[k], enc[e].at) \in Directory
      BY <1>2, DirectoryOperations DEF IInv, TypeOK
    <3> HIDE DEF k
    <3> QED BY <2>1, <3>1 DEF IInv, TypeOK
  <2> QED BY <1>3, <2>1, <2>2 DEF IInv, TypeOK
<1>7. CASE Crashes(e) \/ Reap(e)
  <2>1. /\ enc' \in [Requests -> Encoder]
        /\ enc[e].st # "none" /\ enc'[e].st \in {"gone", "reaped"}
        /\ \A x \in Requests \ {e} : enc'[x] = enc[x]
        /\ disk' = disk
    BY <1>7, NumbersAssumption
    DEF Crashes, Reap, IInv, TypeOK, Encoder, Running, Index, First
  <2> QED BY <1>3, <2>1 DEF IInv, TypeOK, Running
<1> QED BY <1>4, <1>5, <1>6, <1>7 DEF EncoderStep

\* The steps of the lifespan, and the passing of time.
LEMMA ShutdownKeepsInvariant ==
  ASSUME IInv,
         \/ \E s \in Requests : Ages(s)
         \/ BeginStop \/ Cancel \/ HaltAll \/ ClearAll
  PROVE  IInv'
<1>1. \A e \in Requests : enc[e].st \in Running => req[e].s \in Requests
  BY DEF IInv, Order, UnlaunchedHasNoEncoder, RequestHasSession, Running
<1>2. CASE \E s \in Requests : Ages(s)
  <2> PICK s \in Requests : Ages(s)
    BY <1>2
  <2>1. /\ ses' \in [Requests -> Session]
        /\ \A x \in Requests : ses'[x].lock = ses[x].lock
        /\ \A x \in Requests : ses'[x].run = ses[x].run
        /\ UNCHANGED <<sessions, req, enc, ledger, disk, killer, stage>>
    BY DEF Ages, IInv, TypeOK, Session
  <2>2. Order'
    BY <1>1, <2>1, EndingKeepsOrder
  <2> QED BY <2>1, <2>2 DEF IInv, TypeOK
<1>3. CASE BeginStop \/ Cancel
  <2>1. /\ UNCHANGED <<sessions, ses, req, enc, ledger, disk>>
        /\ stage' \in {"cancelling", "awaiting", "halting"}
        /\ killer' \in [Killers -> Killer]
    BY <1>3 DEF BeginStop, Cancel, IInv, TypeOK, Killer
  <2>2. Order'
    BY <2>1, EndingKeepsOrder
  <2> QED BY <2>1, <2>2 DEF IInv, TypeOK
<1>4. CASE HaltAll
  <2> DEFINE halted == {ses[s].run : s \in InUse} \ {None}
  <2>1. InUse \subseteq Requests
    BY DEF InUse, IInv, TypeOK
  <2>2. /\ ses' \in [Requests -> Session]
        /\ \A x \in Requests : /\ ses'[x].lock = ses[x].lock
                               /\ x \in InUse => ses'[x].run = None
                               /\ x \notin InUse => ses'[x].run = ses[x].run
    BY <1>4, SMTT(30) DEF HaltAll, IInv, TypeOK, Session
  <2>3. /\ enc' = [e \in Requests |->
                     IF e \in halted THEN Kill(enc, e)[e] ELSE enc[e]]
        /\ ledger' = ledger \ halted
        /\ stage' = "clearing" /\ UNCHANGED <<sessions, req, disk, killer>>
    BY <1>4 DEF HaltAll
  <2>4. \A e \in Requests :
          /\ Kill(enc, e)[e] \in Encoder
          /\ Kill(enc, e)[e].st \notin Running
          /\ Kill(enc, e)[e].st = "none" <=> enc[e].st = "none"
    BY KillEndsOne DEF IInv, TypeOK
  <2>5. \A e \in Requests :
          ses[req[e].s].run = e /\ req[e].s \in InUse => e \in halted
    BY NamesAssumption
  <2> HIDE DEF halted
  <2>6. /\ enc' \in [Requests -> Encoder]
        /\ \A e \in Requests :
             /\ enc'[e].st \in Running => enc[e].st \in Running /\ e \notin halted
             /\ enc[e].st = "none" => enc'[e].st = "none"
    BY <2>3, <2>4 DEF IInv, TypeOK
  <2>7. \A e \in Requests :
          enc'[e].st \in Running =>
            /\ ses[req[e].s].run = e => ses'[req[e].s].run = e
            /\ e \in ledger => e \in ledger'
    BY <1>1, <2>2, <2>3, <2>5, <2>6
  <2>8. Order'
    BY <2>2, <2>3, <2>6, <2>7, EndingKeepsOrder
  <2> QED BY <2>2, <2>3, <2>6, <2>8 DEF IInv, TypeOK
<1>5. CASE ClearAll
  <2>1. \A e \in Requests :
          /\ Kill(enc, e)[e] \in Encoder
          /\ Kill(enc, e)[e].st \notin Running
          /\ Kill(enc, e)[e].st = "none" <=> enc[e].st = "none"
    BY KillEndsOne DEF IInv, TypeOK
  <2>2. /\ enc' \in [Requests -> Encoder]
        /\ \A e \in Requests :
             /\ enc'[e].st \in Running => enc[e].st \in Running /\ e \notin ledger
             /\ enc[e].st = "none" => enc'[e].st = "none"
    BY <1>5, <2>1 DEF ClearAll, Leftover, IInv, TypeOK
  <2>3. /\ ledger' = {} /\ stage' = "stopped" /\ UNCHANGED <<ses, req, killer>>
        /\ sessions' \in [Keys -> Requests \union {None}]
        /\ disk' \in [Keys -> Directory]
    BY <1>5 DEF ClearAll, Directory, NoDirectory
  <2>4. Order'
    BY <2>2, <2>3, EndingKeepsOrder
  <2> QED BY <2>2, <2>3, <2>4 DEF IInv, TypeOK
<1> QED BY <1>2, <1>3, <1>4, <1>5

----------------------------------------------------------------------------
(***************************************************************************)
(* The theorems.                                                           *)
(***************************************************************************)

LEMMA InitEstablishesInvariant == Init => IInv
<1> SUFFICES ASSUME Init PROVE IInv
  OBVIOUS
<1>1. TypeOK
  BY NumbersAssumption
  DEF Init, TypeOK, Session, Request, Encoder, Directory, NoDirectory, Killer,
      Index, First
<1>2. Order
  BY NamesAssumption
  DEF Init, Order, RunIsRecorded, LockedHasNoEncoder, UnlaunchedHasNoEncoder,
      RequestHasSession, LockIsHeldInBegin, EncoderHasItsSession,
      EveryEncoderIsListed, InBegin, Running
<1> QED BY <1>1, <1>2 DEF IInv

LEMMA StepKeepsInvariant == IInv /\ [Next]_vars => IInv'
<1> SUFFICES ASSUME IInv, [Next]_vars PROVE IInv'
  OBVIOUS
<1>1. InUse \subseteq Requests
  BY DEF InUse, IInv, TypeOK
<1>2. ASSUME NEW r \in Requests, Segment(r) \/ RequestStep(r) PROVE IInv'
  BY <1>2, SegmentKeepsInvariant, EnterKeepsInvariant, SpawnKeepsInvariant,
     StartedKeepsInvariant, SettledKeepsInvariant
  DEF RequestStep
<1>3. ASSUME NEW c \in Stops, Stop(c) PROVE IInv'
  <2>1. PICK p \in Plays : Discard(c, {s \in InUse : PlayOf[ses[s].key] = p}, {})
    BY <1>3 DEF Stop
  <2>2. {s \in InUse : PlayOf[ses[s].key] = p} \in SUBSET Requests
    BY <1>1
  <2> QED BY <1>3, <2>1, <2>2, DiscardKeepsInvariant DEF Stop, Killers
<1>4. ASSUME NEW c \in Killers, Discarded(c) PROVE IInv'
  <2>1. killer[c].todo \in SUBSET Requests
    BY DEF IInv, TypeOK, Killer
  <2> QED BY <1>4, <2>1, DiscardKeepsInvariant DEF Discarded
<1>5. CASE Sweep
  <2>1. Stale \in SUBSET Requests
    BY <1>1 DEF Stale
  <2> QED BY <1>5, <2>1, DiscardKeepsInvariant DEF Sweep, Killers
<1>6. ASSUME NEW e \in Requests,
             EncoderStep(e) \/ Writes(e) \/ Crashes(e) \/ Reap(e)
      PROVE  IInv'
  BY <1>6, EncoderKeepsInvariant
<1>7. CASE \/ \E s \in Requests : Ages(s)
           \/ BeginStop \/ Cancel \/ HaltAll \/ ClearAll
  BY <1>7, ShutdownKeepsInvariant
<1>8. CASE UNCHANGED vars
  BY <1>8
  DEF vars, IInv, TypeOK, Order, RunIsRecorded, LockedHasNoEncoder,
      UnlaunchedHasNoEncoder, RequestHasSession, LockIsHeldInBegin,
      EncoderHasItsSession, EveryEncoderIsListed
<1> QED BY <1>2, <1>3, <1>4, <1>5, <1>6, <1>7, <1>8 DEF Next

\* The invariant holds of every behaviour.
THEOREM Invariance == Spec => []IInv
BY InitEstablishesInvariant, StepKeepsInvariant, PTL DEF Spec

\* Every variable keeps its type, however many requests race.
THEOREM TypeCorrectness == Spec => []TypeOK
BY Invariance, PTL DEF IInv

\* _begin holds the session's lock across both of its awaits, alone.
THEOREM LockSafety == Spec => []LockIsHeldInBegin
<1>1. IInv => LockIsHeldInBegin
  BY DEF IInv, Order
<1> QED BY <1>1, Invariance, PTL

\* No session object ever has two encoders running, or loses one, and the ledger lists
\* every encoder that runs and is past its launch.
THEOREM EncoderOwnership == Spec => []EncodersAreOwned
<1>1. IInv => EncodersAreOwned
  BY DEF IInv, Order, EncodersAreOwned
<1> QED BY <1>1, Invariance, PTL

----------------------------------------------------------------------------
(***************************************************************************)
(* The shutdown.  What a stopped server leaves rests on nothing being left *)
(* to run once the lifespan is past the cancellation of the sweeper.       *)
(***************************************************************************)
Quiet ==
  /\ stage # "serving" =>
       /\ \A r \in Requests : req[r].pc \notin Waiting
       /\ \A c \in Stops : killer[c].pc # "discarding"
  /\ stage \in {"halting", "clearing", "stopped"} =>
       killer[Sweeper].pc = "done"

SInv == Quiet /\ StoppedServerLeavesNothing

LEMMA StepKeepsQuiet == IInv /\ SInv /\ [Next]_vars => SInv'
<1> SUFFICES ASSUME IInv, SInv, [Next]_vars PROVE SInv'
  OBVIOUS
<1> USE DEF SInv
<1>1. CASE stage = "serving" /\ stage' = "serving"
  BY <1>1 DEF Quiet, StoppedServerLeavesNothing
<1>2. CASE BeginStop
  BY <1>2 DEF BeginStop, Quiet, StoppedServerLeavesNothing
<1>3. CASE Cancel
  BY <1>3, NamesAssumption
  DEF Cancel, Quiet, StoppedServerLeavesNothing, IInv, TypeOK, Killer, Killers
<1>4. CASE HaltAll
  BY <1>4 DEF HaltAll, Quiet, StoppedServerLeavesNothing
<1>5. CASE ClearAll
  <2>1. Quiet'
    BY <1>5 DEF ClearAll, Quiet
  <2>2. StoppedServerLeavesNothing'
    <3>1. \A e \in Requests : Kill(enc, e)[e].st \notin Running
      BY KillEndsOne DEF IInv, TypeOK
    <3>2. \A e \in Requests : enc'[e].st \notin Running
      BY <1>5, <3>1 DEF ClearAll, Leftover, Running
    <3>3. ledger' = {} /\ \A k \in Keys : disk'[k] = NoDirectory
      BY <1>5, SMTT(30) DEF ClearAll
    <3> QED BY <3>2, <3>3 DEF StoppedServerLeavesNothing
  <2> QED BY <2>1, <2>2
<1>6. ASSUME stage # "serving",
             \/ \E r \in Requests : Segment(r) \/ RequestStep(r)
             \/ \E c \in Stops : Stop(c) \/ Discarded(c)
      PROVE  FALSE
  BY <1>6, ZenonT(60)
  DEF Quiet, Segment, RequestStep, Enter, Spawn, Started, Stop, Discarded,
      SettledWhileProducing, SettledAfterProduction, Reaped, Waiting, InBegin
<1>7. CASE stage # "serving" /\ (Sweep \/ Discarded(Sweeper))
  <2>1. killer[Sweeper].pc # "done" /\ UNCHANGED <<req, stage>>
    BY <1>7 DEF Sweep, Discarded
  <2>2. \A c \in Stops : killer'[c] = killer[c]
    BY <1>7, NamesAssumption
    DEF Sweep, Discarded, Discard, DiscardNext, DiscardRest, IInv, TypeOK,
        Killers
  <2> QED BY <1>7, <2>1, <2>2 DEF Quiet, StoppedServerLeavesNothing
<1>8. CASE \/ \E s \in Requests : Ages(s)
           \/ \E e \in Requests :
                EncoderStep(e) \/ Writes(e) \/ Crashes(e) \/ Reap(e)
           \/ UNCHANGED vars
  <2>1. UNCHANGED <<req, ledger, killer, stage>>
    BY <1>8
    DEF Ages, EncoderStep, Opens, Advances, Writes, Crashes, Reap, vars
  <2>2. Quiet'
    BY <2>1 DEF Quiet
  <2>3. StoppedServerLeavesNothing'
    <3> SUFFICES ASSUME stage = "stopped"
                 PROVE  /\ \A e \in Requests : enc'[e].st \notin Running
                        /\ UNCHANGED disk
      BY <2>1 DEF StoppedServerLeavesNothing
    <3>1. \A e \in Requests : ~ (Opens(e) \/ Advances(e) \/ Writes(e) \/ Crashes(e))
      BY DEF StoppedServerLeavesNothing, Opens, Advances, Writes, Crashes,
             Running
    <3>2. CASE \E e \in Requests : Reap(e)
      BY <3>2 DEF Reap, StoppedServerLeavesNothing, Running, IInv, TypeOK,
                  Encoder
    <3>3. CASE UNCHANGED <<enc, disk>>
      BY <3>3, SMTT(30) DEF StoppedServerLeavesNothing
    <3> QED BY <1>8, <3>1, <3>2, <3>3 DEF EncoderStep, Ages, vars
  <2> QED BY <2>2, <2>3
<1>9. stage' \in {stage} \/ BeginStop \/ Cancel \/ HaltAll \/ ClearAll
  BY DEF Next, Segment, RequestStep, Enter, Spawn, Started, Stop, Discarded,
         SettledWhileProducing, SettledAfterProduction, Reaped, Sweep, Ages,
         EncoderStep, Opens, Advances, Writes, Crashes, Reap, vars
<1> QED BY <1>1, <1>2, <1>3, <1>4, <1>5, <1>6, <1>7, <1>8, <1>9
        DEF Next, Killers

\* A server that has stopped leaves no encoder, no ledger row and no scratch.
THEOREM StopLeavesNothing == Spec => []StoppedServerLeavesNothing
<1>1. Init => SInv
  BY DEF Init, SInv, Quiet, StoppedServerLeavesNothing
<1> QED BY <1>1, Invariance, StepKeepsQuiet, PTL DEF Spec, SInv

----------------------------------------------------------------------------
(***************************************************************************)
(* The throttle.  What the throttle reads of an encoder is the newest file *)
(* of a directory, which says where the encoder is only while the encoder  *)
(* has that directory to itself (Own).  What is waited for from it         *)
(* (Coming) has to outlive a deletion in the middle of the directory, the  *)
(* end of a session whose request is still in flight, and requests that    *)
(* arrive while another is between two awaits of _begin; so the invariant  *)
(* also accounts for who has been launched, and where (Accounted).         *)
(***************************************************************************)
KeyOf(r) == ses[req[r].s].key

\* A request that has come in has a session of some key, which no request that has not come
\* in yet will be given; the dictionary has a session under its own key only.
Keyed ==
  /\ \A r \in Requests : req[r].pc # "new" =>
       req[r].s \in Requests /\ ses[req[r].s].key \in Keys
  /\ \A r, x \in Requests : req[r].pc = "new" => req[x].s # r
  /\ \A r \in Requests, k \in Keys : sessions[k] = r =>
       ses[r].key = k /\ req[r].pc # "new"

\* An encoder that is started, pointed at or being halted has been launched.
Launched ==
  /\ \A e \in Requests : req[e].pc = "starting" => enc[e].st \notin {"none", "paused"}
  /\ \A s, e \in Requests : ses[s].run = e => enc[e].st # "none"
  /\ \A r \in Requests : req[r].pc = "halting" =>
       /\ req[r].e \in Requests
       /\ enc[req[r].e].st # "none" /\ req[req[r].e].s = req[r].s

\* The download position is past whatever is waited for, and past where production began.
Demanded ==
  /\ \A r \in Requests : req[r].pc \in Waiting => req[r].n + 1 <= ses[req[r].s].down
  /\ \A s \in Requests : ses[s].from <= ses[s].down

\* Files and waits come from encoders of their directory.
FilesHaveWriters ==
  \A k \in Keys : \A f \in disk[k].files : enc[f.by].st # "none" /\ KeyOf(f.by) = k

WaitsHaveEncoders ==
  \A r \in Requests : req[r].pc = "settling" =>
    \E x \in Requests : enc[x].st # "none" /\ KeyOf(x) = KeyOf(r)

Accounted == Keyed /\ Launched /\ Demanded /\ FilesHaveWriters /\ WaitsHaveEncoders

Deleted(n, S) == SegmentDeletion /\ n \in 0 .. S.down - Keep

\* The directory d that only the encoder E of the session S has written to: its files end
\* with the one being written, which is the newest while it is there, and of the others only
\* the initialisation segment outlives it.
Own(d, E, S) ==
  /\ \A f, g \in d.files : f.n = g.n => f = g
  /\ \A f \in d.files : f.n <= E.at
  /\ \A f \in d.files : f.n # E.at =>
       /\ <<E.at, f.n>> \notin d.newer
       /\ Exists(d, E.at) => <<f.n, E.at>> \in d.newer
       /\ ~Exists(d, E.at) => f.n = -1
  /\ E.open \/ d.files = {}
  /\ E.at = -1 \/ S.from <= E.at

\* The file being written is there unless the deletion has taken it.
Kept(d, E, S) == E.open => Exists(d, E.at) \/ Deleted(E.at, S)

\* The segment n is there, or deleted, or ahead of the encoder, or before where it began.
Coming(n, d, E, S) ==
  \/ n \in 0 .. S.from - 1
  \/ Exists(d, n)
  \/ Deleted(n, S)
  \/ E.at <= n /\ (E.open => E.at < n)

Alone(e) == enc[e].st \in Running /\ FirstEncoder(e)

\* The dictionary still has the session that e encodes for.
Reachable(e) == sessions[KeyOf(e)] = req[e].s

\* An encoder alone in its directory: the directory is its own, what is waited for is coming,
\* and it is paused only with a lead.
Sound(e) ==
  /\ Own(EncDir(e), enc[e], ses[req[e].s])
  /\ Reachable(e) => Kept(EncDir(e), enc[e], ses[req[e].s])
  /\ \A r \in Requests :
       req[r].pc \in {"settling", "starting"} /\ req[r].s = req[e].s /\ Reachable(e)
         => Coming(req[r].n, EncDir(e), enc[e], ses[req[e].s])
  /\ enc[e].st = "paused" => enc[e].open /\ enc[e].at + 1 - ses[req[e].s].down >= Gap

Throttled == Accounted /\ \A e \in Requests : Alone(e) => Sound(e)

----------------------------------------------------------------------------
(***************************************************************************)
(* Directories.                                                            *)
(***************************************************************************)

\* d2 is d with the files up to top taken out.
Trimmed(d2, d, top) ==
  /\ d2.files = {f \in d.files : f.n \notin 0 .. top}
  /\ d2.newer = {p \in d.newer : p[1] \notin 0 .. top /\ p[2] \notin 0 .. top}

\* What is left of an encoder's own directory after a deletion is its own directory.
LEMMA OwnAfterTrim ==
  ASSUME NEW d \in Directory, NEW d2 \in Directory, NEW E \in Encoder, NEW E2 \in Encoder,
         NEW S \in Session, NEW S2 \in Session,
         E2.at = E.at, E2.open = E.open, S2.from = S.from,
         NEW top \in Int, Trimmed(d2, d, top), Own(d, E, S)
  PROVE  Own(d2, E2, S2)
<1>1. /\ E.at \in Int /\ \A f \in d.files : f.n \in Int
      /\ \A f \in d.files : f.n = -1 \/ f.n \in Nat
  BY NumbersAssumption DEF Encoder, Directory, File, Index, First
<1>2. \A f \in d2.files : f \in d.files /\ f.n \notin 0 .. top
  BY DEF Trimmed
<1>3. \A f \in d2.files : f.n # E.at =>
        /\ <<E.at, f.n>> \notin d2.newer
        /\ Exists(d2, E.at) => <<f.n, E.at>> \in d2.newer
        /\ ~Exists(d2, E.at) => f.n = -1
  <2> SUFFICES ASSUME NEW f \in d2.files, f.n # E.at
               PROVE  /\ <<E.at, f.n>> \notin d2.newer
                      /\ Exists(d2, E.at) => <<f.n, E.at>> \in d2.newer
                      /\ ~Exists(d2, E.at) => f.n = -1
    OBVIOUS
  <2>1. f \in d.files /\ f.n \notin 0 .. top /\ f.n <= E.at
    BY <1>2 DEF Own
  <2>2. /\ <<E.at, f.n>> \notin d.newer
        /\ Exists(d, E.at) => <<f.n, E.at>> \in d.newer
        /\ ~Exists(d, E.at) => f.n = -1
    BY <2>1 DEF Own
  <2>3. <<E.at, f.n>> \notin d2.newer
    BY <2>2 DEF Trimmed
  <2>4. Exists(d2, E.at) => Exists(d, E.at) /\ E.at \notin 0 .. top
    BY <1>2 DEF Exists
  <2>5. Exists(d, E.at) /\ E.at \notin 0 .. top => Exists(d2, E.at)
    BY DEF Exists, Trimmed
  <2>6. Exists(d2, E.at) => <<f.n, E.at>> \in d2.newer
    BY <2>1, <2>2, <2>4 DEF Trimmed
  <2>7. ~Exists(d2, E.at) => f.n = -1
    BY <1>1, <2>1, <2>2, <2>5
  <2> QED BY <2>3, <2>6, <2>7
<1>4. E.open \/ d2.files = {}
  BY <1>2 DEF Own
<1> QED BY <1>2, <1>3, <1>4 DEF Own

\* It misses only what the deletion has taken.
LEMMA KeptAfterTrim ==
  ASSUME NEW d \in Directory, NEW d2 \in Directory, NEW E \in Encoder, NEW E2 \in Encoder,
         NEW S \in Session, NEW S2 \in Session,
         E2.at = E.at, E2.open = E.open, S2.from = S.from, S2.down >= S.down,
         NEW top \in Int, Trimmed(d2, d, top),
         top >= 0 => SegmentDeletion /\ top + Keep <= S2.down
  PROVE  /\ Kept(d, E, S) => Kept(d2, E2, S2)
         /\ \A n \in Index : Coming(n, d, E, S) => Coming(n, d2, E2, S2)
<1>1. /\ E.at \in Index /\ Keep \in Nat /\ S.down \in Nat /\ S2.down \in Nat
      /\ \A n \in Index : n \in Int
      /\ \A f \in d.files : f.n \in Int
  BY NumbersAssumption DEF Encoder, Directory, File, Index, First, Session
<1>2. \A n \in Index : Deleted(n, S) => Deleted(n, S2)
  BY <1>1 DEF Deleted
<1>3. \A n \in Index : Exists(d, n) => Exists(d2, n) \/ Deleted(n, S2)
  <2> SUFFICES ASSUME NEW n \in Index, Exists(d, n), ~Exists(d2, n)
               PROVE  Deleted(n, S2)
    OBVIOUS
  <2>1. n \in 0 .. top
    BY DEF Exists, Trimmed
  <2> QED BY <1>1, <2>1 DEF Deleted
<1> QED BY <1>1, <1>2, <1>3 DEF Kept, Coming

\* The newest file of an encoder's own directory is the one being written, while it is
\* there, and the initialisation segment once it is not.
LEMMA NewestOfOwn ==
  ASSUME NEW d \in Directory, NEW E \in Encoder, NEW S, Own(d, E, S)
  PROVE  /\ d.files = {} => Newest(d) = NoIndex
         /\ Exists(d, E.at) => Newest(d) = E.at
         /\ d.files # {} /\ ~Exists(d, E.at) => Newest(d) = -1
<1> DEFINE P(f) == \A g \in d.files \ {f} : <<g.n, f.n>> \in d.newer
           new == CHOOSE f \in d.files : P(f)
<1>1. d.files # {} => Newest(d) = new.n
  BY DEF Newest
<1>2. ASSUME NEW f \in d.files, P(f) PROVE new \in d.files /\ P(new)
  BY <1>2
<1> HIDE DEF new
<1>3. ASSUME Exists(d, E.at) PROVE Newest(d) = E.at
  <2>1. PICK f \in d.files : f.n = E.at
    BY <1>3 DEF Exists
  <2>2. \A g \in d.files \ {f} : g.n # E.at
    BY <2>1 DEF Own
  <2>3. P(f)
    BY <1>3, <2>1, <2>2 DEF Own
  <2>4. new \in d.files /\ P(new)
    BY <1>2, <2>3
  <2>5. new.n = E.at
    <3> SUFFICES ASSUME new.n # E.at PROVE FALSE
      OBVIOUS
    <3>1. <<f.n, new.n>> \in d.newer
      BY <2>1, <2>4
    <3>2. <<E.at, new.n>> \notin d.newer
      BY <2>4 DEF Own
    <3> QED BY <2>1, <3>1, <3>2
  <2> QED BY <1>1, <2>4, <2>5
<1>4. ASSUME d.files # {}, ~Exists(d, E.at) PROVE Newest(d) = -1
  <2>1. \A f \in d.files : f.n = -1
    BY <1>4 DEF Own, Exists
  <2>2. PICK f \in d.files : TRUE
    BY <1>4
  <2>3. d.files \ {f} = {}
    BY <2>1, <2>2 DEF Own
  <2>4. P(f)
    BY <2>3
  <2>5. new \in d.files
    BY <1>2, <2>2, <2>4
  <2> QED BY <1>1, <1>4, <2>1, <2>5
<1> QED BY <1>3, <1>4 DEF Newest

\* What opening a segment does to a directory.
LEMMA OpenFields ==
  ASSUME NEW d \in Directory, NEW n \in Index, NEW e \in Requests
  PROVE  LET new == [n |-> n, by |-> e, whole |-> FALSE]
             d2 == Open(d, n, e)
         IN  /\ d2.files = {f \in d.files : f.n # n} \union {new}
             /\ d2.newer = {p \in d.newer : p[1] # n} \union
                           {<<f.n, n>> : f \in {g \in d.files : g.n # n}}
<1> DEFINE new == [n |-> n, by |-> e, whole |-> FALSE]
           d1 == [d EXCEPT !.files = {f \in @ : f.n # n} \union {new}]
<1>1. /\ d1.files = {f \in d.files : f.n # n} \union {new}
      /\ d1.newer = d.newer
      /\ DOMAIN d1 = {"made", "files", "newer"}
  BY DEF Directory
<1>2. Open(d, n, e) = Touch(d1, n)
  BY DEF Open
<1>3. {g \in d1.files : g.n # n} = {g \in d.files : g.n # n}
  BY <1>1
<1> HIDE DEF d1
<1> QED BY <1>1, <1>2, <1>3 DEF Touch

\* What closing one does.
LEMMA CloseFields ==
  ASSUME NEW d \in Directory, NEW n, NEW e
  PROVE  /\ \A f \in d.files : \E g \in Close(d, n, e).files : g.n = f.n /\ g.by = f.by
         /\ \A g \in Close(d, n, e).files : \E f \in d.files :
              /\ g.n = f.n /\ g.by = f.by
              /\ g = IF f.n = n /\ f.by = e THEN [f EXCEPT !.whole = TRUE] ELSE f
         /\ Close(d, n, e).newer = d.newer
<1>1. \A f \in File : /\ [f EXCEPT !.whole = TRUE].n = f.n
                      /\ [f EXCEPT !.whole = TRUE].by = f.by
  BY DEF File
<1>2. Close(d, n, e).files =
        {IF f.n = n /\ f.by = e THEN [f EXCEPT !.whole = TRUE] ELSE f : f \in d.files}
  BY DEF Close, Directory
<1>3. d.files \subseteq File
  BY DEF Directory
<1>4. Close(d, n, e).newer = d.newer
  BY DEF Close, Directory
<1> QED BY <1>1, <1>2, <1>3, <1>4

\* An encoder that opens its first segment keeps its directory its own, and what is waited
\* for coming.
LEMMA OwnOpens ==
  ASSUME NEW d \in Directory, NEW E \in Encoder, NEW E2 \in Encoder, NEW S \in Session,
         NEW e \in Requests,
         Own(d, E, S), ~E.open, E2.at = E.at, E2.open
  PROVE  /\ Own(Open(d, E.at, e), E2, S)
         /\ Kept(Open(d, E.at, e), E2, S)
         /\ \A n \in Index : Coming(n, d, E, S) => Coming(n, Open(d, E.at, e), E2, S)
<1> DEFINE d2 == Open(d, E.at, e)
<1>1. d.files = {} /\ E.at \in Index
  BY DEF Own, Encoder
<1>2. \A f \in d2.files : f.n = E.at /\ f.by = e /\ f = [n |-> E.at, by |-> e, whole |-> FALSE]
  BY <1>1, OpenFields
<1>3. [n |-> E.at, by |-> e, whole |-> FALSE] \in d2.files
  BY <1>1, OpenFields
<1>4. Exists(d2, E.at)
  BY <1>3 DEF Exists
<1>5. E.at \in Int /\ \A n \in Index : n \in Int
  BY <1>1, NumbersAssumption DEF Index, First
<1> HIDE DEF d2
<1>6. Own(d2, E2, S)
  <2>1. \A f, g \in d2.files : f = g
    BY <1>2
  <2>2. \A f \in d2.files : f.n = E2.at /\ f.n <= E2.at
    BY <1>2, <1>5
  <2>3. E2.at = -1 \/ S.from <= E2.at
    BY DEF Own
  <2> QED BY <2>1, <2>2, <2>3 DEF Own
<1>7. \A n \in Index : Coming(n, d, E, S) => Coming(n, d2, E2, S)
  BY <1>1, <1>4, <1>5 DEF Coming, Exists
<1> QED BY <1>4, <1>6, <1>7 DEF Kept, d2

\* So does one that goes on to the next.
LEMMA OwnAdvances ==
  ASSUME NEW d \in Directory, NEW E \in Encoder, NEW E2 \in Encoder, NEW S \in Session,
         NEW e \in Requests,
         Own(d, E, S), E.open, E2.open,
         E2.at = IF E.at = -1 THEN S.from ELSE E.at + 1
  PROVE  LET d2 == Open(Close(d, E.at, e), E2.at, e)
         IN  /\ Own(d2, E2, S)
             /\ Kept(d2, E2, S)
             /\ \A n \in Index : Coming(n, d, E, S) => Coming(n, d2, E2, S)
<1> DEFINE c == Close(d, E.at, e)
           d2 == Open(c, E2.at, e)
           new == [n |-> E2.at, by |-> e, whole |-> FALSE]
<1>1. E.at \in Index /\ E2.at \in Index /\ c \in Directory
  BY DirectoryOperations DEF Encoder
<1>2. /\ E.at \in Int /\ E2.at \in Int /\ E.at < E2.at /\ S.from <= E2.at
      /\ S.from \in Nat
      /\ \A n \in Index : n \in Int
      /\ \A f \in d.files : f.n \in Int
  BY <1>1, NumbersAssumption DEF Own, Index, First, Session, Directory, File
<1>3. /\ d2.files = {f \in c.files : f.n # E2.at} \union {new}
      /\ d2.newer = {p \in c.newer : p[1] # E2.at} \union
                    {<<f.n, E2.at>> : f \in {g \in c.files : g.n # E2.at}}
  BY <1>1, OpenFields
<1>4. \A g \in c.files : g.n <= E.at /\ g.n \in Int
  BY <1>2, CloseFields DEF Own
<1>5. \A f, g \in c.files : f.n = g.n => f = g
  <2> SUFFICES ASSUME NEW f \in c.files, NEW g \in c.files, f.n = g.n PROVE f = g
    OBVIOUS
  <2>1. PICK f0 \in d.files :
          /\ f.n = f0.n
          /\ f = IF f0.n = E.at /\ f0.by = e THEN [f0 EXCEPT !.whole = TRUE] ELSE f0
    BY CloseFields
  <2>2. PICK g0 \in d.files :
          /\ g.n = g0.n
          /\ g = IF g0.n = E.at /\ g0.by = e THEN [g0 EXCEPT !.whole = TRUE] ELSE g0
    BY CloseFields
  <2>3. f0 = g0
    BY <2>1, <2>2 DEF Own
  <2> QED BY <2>1, <2>2, <2>3
<1>6. new.n = E2.at
  OBVIOUS
<1> HIDE DEF c, d2, new
<1>7. Exists(d2, E2.at)
  BY <1>3, <1>6 DEF Exists
<1>8. \A f, g \in d2.files : f.n = g.n => f = g
  BY <1>3, <1>5, <1>6
<1>9. \A f \in d2.files : f.n <= E2.at
  BY <1>2, <1>3, <1>4, <1>6
<1>10. \A f \in d2.files : f.n # E2.at =>
         <<E2.at, f.n>> \notin d2.newer /\ <<f.n, E2.at>> \in d2.newer
  BY <1>3, <1>6
<1>11. Own(d2, E2, S)
  BY <1>2, <1>7, <1>8, <1>9, <1>10 DEF Own
<1>12. \A n \in Index : Exists(d, n) => Exists(d2, n)
  <2> SUFFICES ASSUME NEW n \in Index, NEW f \in d.files, f.n = n PROVE Exists(d2, n)
    BY DEF Exists
  <2>1. PICK g \in c.files : g.n = n
    BY CloseFields DEF c
  <2>2. g \in d2.files
    BY <1>2, <1>3, <1>4, <2>1
  <2> QED BY <2>1, <2>2 DEF Exists
<1>13. ASSUME NEW n \in Index, Coming(n, d, E, S) PROVE Coming(n, d2, E2, S)
  <2>1. CASE E.at < n
    <3>1. n \in 0 .. S.from - 1 \/ n = E2.at \/ E2.at < n
      BY <1>1, <1>2, <2>1, NumbersAssumption DEF Index, First
    <3> QED BY <1>2, <1>7, <3>1 DEF Coming
  <2> QED BY <1>12, <1>13, <2>1 DEF Coming
<1> QED BY <1>7, <1>11, <1>13 DEF Kept, c, d2

----------------------------------------------------------------------------
(***************************************************************************)
(* The invariant of the throttle.                                          *)
(***************************************************************************)

\* An encoder that runs is its session's, unless it is being started, and has been launched
\* by a request that has that session.
LEMMA RunningHasSession ==
  ASSUME IInv, Keyed, NEW e \in Requests, enc[e].st \in Running
  PROVE  /\ req[e].s \in Requests /\ req[e].pc \notin {"new", "locking", "halting"}
         /\ KeyOf(e) \in Keys
         /\ ses[req[e].s].run = e \/ (req[e].pc = "starting" /\ ses[req[e].s].lock = e)
<1>1. req[e].pc \notin {"new", "locking", "halting"}
  BY DEF IInv, Order, UnlaunchedHasNoEncoder, Running
<1>2. req[e].pc # "new"
  BY <1>1
<1>3. req[e].s \in Requests /\ KeyOf(e) \in Keys
  BY <1>2 DEF Keyed, KeyOf
<1>4. ses[req[e].s].run = e \/ (req[e].pc = "starting" /\ ses[req[e].s].lock = e)
  BY DEF IInv, Order, EncoderHasItsSession
<1> QED BY <1>1, <1>3, <1>4

\* The throttle on the sessions SS, whose download positions are now those of S, leaves an
\* encoder where it was, and pauses one that is alone only if it leads by the gap.
LEMMA ThrottleWantsLead ==
  ASSUME IInv, Throttled, NEW S, NEW SS,
         \A s \in Requests : /\ S[s].run = ses[s].run
                             /\ S[s].down \in Nat /\ S[s].down >= ses[s].down
                             /\ s \notin SS => S[s].down = ses[s].down,
         NEW e \in Requests
  PROVE  /\ Throttle(S, SS)[e].at = enc[e].at /\ Throttle(S, SS)[e].open = enc[e].open
         /\ Throttle(S, SS)[e].st = enc[e].st \/ enc[e].st \in Running
         /\ req[e].pc = "starting" => Throttle(S, SS)[e] = enc[e]
         /\ Alone(e) /\ Throttle(S, SS)[e].st = "paused" =>
              enc[e].open /\ enc[e].at + 1 - S[req[e].s].down >= Gap
<1> DEFINE s == req[e].s
           d == EncDir(e)
           T == Throttle(S, SS)[e]
           st == IF Throttling /\ Produced(s) - S[s].down >= Gap THEN "paused" ELSE "live"
<1>1. T = IF enc[e].st \in Running /\ s \in SS /\ S[s].run = e
          THEN [enc[e] EXCEPT !.st = st] ELSE enc[e]
  BY DEF Throttle
<1>2. enc[e] \in Encoder /\ DOMAIN enc[e] = {"st", "at", "open"}
  BY DEF IInv, TypeOK, Encoder
<1>3. /\ [enc[e] EXCEPT !.st = st].at = enc[e].at
      /\ [enc[e] EXCEPT !.st = st].open = enc[e].open
      /\ [enc[e] EXCEPT !.st = st].st = st
  BY <1>2
<1>4. /\ T.at = enc[e].at /\ T.open = enc[e].open
      /\ T.st = enc[e].st \/ enc[e].st \in Running
  BY <1>1, <1>3
<1>5. ASSUME req[e].pc = "starting" PROVE T = enc[e]
  <2>1. CASE s \in Requests
    BY <1>1, <1>5, <2>1 DEF IInv, Order, RunIsRecorded, InBegin
  <2>2. req[e].s \in Requests
    BY <1>5 DEF Throttled, Accounted, Keyed
  <2> QED BY <2>1, <2>2
<1>6. ASSUME Alone(e), T.st = "paused"
      PROVE  enc[e].open /\ enc[e].at + 1 - S[s].down >= Gap
  <2>1. s \in Requests /\ KeyOf(e) \in Keys
    BY <1>6, RunningHasSession DEF Alone, Throttled, Accounted
  <2>2. CASE enc[e].st \in Running /\ s \in SS /\ S[s].run = e
    <3>1. Produced(s) - S[s].down >= Gap
      BY <1>1, <1>3, <1>6, <2>2
    <3>2. /\ S[s].down \in Nat /\ ses[s].down \in Nat /\ ses[s].from \in Nat
          /\ S[s].down >= ses[s].down /\ ses[s].down >= ses[s].from
          /\ Gap \in Nat /\ Gap >= 1 /\ enc[e].at \in Int /\ enc[e].at \in Index
      BY <1>2, <2>1, NumbersAssumption
      DEF IInv, TypeOK, Session, Encoder, Index, First, Throttled, Accounted, Demanded
    <3>3. ProducingIndex(s) # NoIndex
      BY <3>1, <3>2 DEF Produced
    <3>4. Newest(d) = ProducingIndex(s)
      BY <3>3 DEF ProducingIndex, Dir, EncDir
    <3>5. d \in Directory /\ Own(d, enc[e], ses[s])
      BY <1>6, <2>1 DEF IInv, TypeOK, KeyOf, EncDir, Throttled, Sound
    <3>6. Exists(d, enc[e].at)
      <4>1. Newest(d) \in Int /\ Newest(d) # -1
        <5>1. Newest(d) \in Int
          <6>1. d.files = {} \/ Exists(d, enc[e].at) \/ Newest(d) = -1
            BY <1>2, <3>5, NewestOfOwn
          <6> QED BY <1>2, <3>2, <3>5, <6>1, NewestOfOwn DEF NoIndex
        <5> QED BY <3>1, <3>2, <3>3, <3>4, <5>1 DEF Produced
      <4> QED BY <1>2, <3>3, <3>4, <3>5, <4>1, NewestOfOwn
    <3>7. Newest(d) = enc[e].at
      BY <1>2, <3>5, <3>6, NewestOfOwn
    <3>8. enc[e].open
      BY <3>5, <3>6 DEF Own, Exists
    <3>9. Produced(s) = enc[e].at + 1
      BY <3>3, <3>4, <3>7 DEF Produced
    <3> QED BY <3>1, <3>2, <3>8, <3>9
  <2>3. CASE ~(enc[e].st \in Running /\ s \in SS /\ S[s].run = e)
    <3>1. enc[e].st = "paused"
      BY <1>1, <1>6, <2>3
    <3>2. ses[s].run = e
      BY <1>6, <3>1, RunningHasSession DEF Alone, Throttled, Accounted, Launched
    <3>3. S[s].down = ses[s].down
      BY <1>6, <2>1, <2>3, <3>2 DEF Alone
    <3> QED BY <1>6, <3>1, <3>3 DEF Throttled, Sound, Alone
  <2> QED BY <2>2, <2>3
<1> QED BY <1>4, <1>5, <1>6

----------------------------------------------------------------------------
(***************************************************************************)
(* What a step leaves alone.                                               *)
(***************************************************************************)

\* What every step does: a request keeps its session and the segment it asked for, a session
\* that a request has keeps its key, its download position never falls, and an encoder that
\* has been launched stays launched.
Persists ==
  /\ \A r \in Requests : req[r].pc # "new" =>
       /\ req'[r].pc # "new" /\ req'[r].s = req[r].s /\ req'[r].n = req[r].n
       /\ ses'[req[r].s].key = ses[req[r].s].key
  /\ \A s \in Requests : ses'[s].down >= ses[s].down
  /\ \A e \in Requests : enc[e].st # "none" => enc'[e].st # "none"

\* What a step does to an encoder it does not start or advance: nothing, except that the
\* deletion may go on in its directory, or a kill path empty it.
Undisturbed(e) ==
  LET s == req[e].s
      k == KeyOf(e)
  IN  /\ enc[e].st \in Running
      /\ enc'[e].at = enc[e].at /\ enc'[e].open = enc[e].open
      /\ ses'[s].from = ses[s].from
      /\ sessions'[k] = s => sessions[k] = s
      /\ \/ disk'[k].files = {} /\ sessions'[k] # s
         \/ disk'[k].files = disk[k].files /\ disk'[k].newer = disk[k].newer
         \/ /\ SegmentDeletion
            /\ \E top \in Int : /\ Trimmed(disk'[k], disk[k], top)
                                /\ sessions'[k] = s => top + Keep <= ses'[s].down

\* What such a step may make wait, or pause.
NoNewClaim(e) ==
  /\ \A r \in Requests :
       /\ req'[r].pc \in {"settling", "starting"} /\ req'[r].s = req'[e].s
       /\ sessions'[KeyOf(e)'] = req'[e].s
       => \/ req[r].pc \in {"settling", "starting"}
          \/ Coming(req'[r].n, EncDir(e), enc[e], ses[req[e].s])
  /\ enc'[e].st = "paused" =>
       \/ enc[e].st = "paused" /\ ses'[req[e].s].down = ses[req[e].s].down
       \/ enc'[e].open /\ enc'[e].at + 1 - ses'[req[e].s].down >= Gap

LEMMA AloneBefore ==
  ASSUME IInv, Accounted, Persists,
         NEW e \in Requests, enc[e].st \in Running, Alone(e)'
  PROVE  /\ Alone(e)
         /\ req'[e].s = req[e].s /\ KeyOf(e)' = KeyOf(e)
         /\ req[e].s \in Requests /\ KeyOf(e) \in Keys
<1>1. /\ req[e].s \in Requests /\ req[e].pc # "new" /\ KeyOf(e) \in Keys
  BY RunningHasSession DEF Accounted
<1>2. req'[e].s = req[e].s /\ ses'[req'[e].s].key = ses[req[e].s].key
  BY <1>1 DEF Persists
<1>3. ASSUME NEW x \in Requests, x # e, enc[x].st # "none"
      PROVE  ses[req[x].s].key # ses[req[e].s].key
  <2>1. req[x].pc # "new"
    BY <1>3 DEF IInv, Order, UnlaunchedHasNoEncoder
  <2>2. req'[x].s = req[x].s /\ ses'[req'[x].s].key = ses[req[x].s].key /\ enc'[x].st # "none"
    BY <1>3, <2>1 DEF Persists
  <2>3. ses'[req'[x].s].key # ses'[req'[e].s].key
    BY <1>3, <2>2 DEF Alone, FirstEncoder
  <2> QED BY <1>2, <2>2, <2>3
<1> QED BY <1>1, <1>2, <1>3 DEF Alone, FirstEncoder, KeyOf

\* An encoder left undisturbed keeps its directory, its waiters and its lead.
LEMMA UndisturbedKeeps ==
  ASSUME IInv, IInv', Throttled, Persists,
         NEW e \in Requests, Alone(e)', Undisturbed(e), NoNewClaim(e)
  PROVE  Sound(e)'
<1> DEFINE s == req[e].s
           k == KeyOf(e)
<1>1. /\ Alone(e) /\ req'[e].s = s /\ KeyOf(e)' = k
      /\ s \in Requests /\ k \in Keys
  BY AloneBefore DEF Undisturbed, Throttled
<1>2. /\ EncDir(e) = disk[k] /\ EncDir(e)' = disk'[k]
      /\ Reachable(e) <=> sessions[k] = s
      /\ Reachable(e)' <=> sessions'[k] = s
  BY <1>1 DEF EncDir, KeyOf, Reachable
<1>3. /\ disk[k] \in Directory /\ disk'[k] \in Directory
      /\ enc[e] \in Encoder /\ enc'[e] \in Encoder
      /\ ses[s] \in Session /\ ses'[s] \in Session
      /\ enc'[e].at = enc[e].at /\ enc'[e].open = enc[e].open
      /\ ses'[s].from = ses[s].from /\ ses'[s].down >= ses[s].down
      /\ sessions'[k] = s => sessions[k] = s
  BY <1>1 DEF IInv, TypeOK, Undisturbed, Persists
<1>4. /\ Own(disk[k], enc[e], ses[s])
      /\ sessions[k] = s => Kept(disk[k], enc[e], ses[s])
  BY <1>1, <1>2 DEF Throttled, Sound
<1>5. enc'[e].st = "paused" =>
        enc'[e].open /\ enc'[e].at + 1 - ses'[s].down >= Gap
  BY <1>1, <1>3 DEF Undisturbed, NoNewClaim, Throttled, Sound
<1>6. ASSUME NEW r \in Requests, req'[r].pc \in {"settling", "starting"},
             req'[e].s = req'[r].s, sessions'[k] = s
      PROVE  Coming(req'[r].n, disk[k], enc[e], ses[s])
  <2>1. CASE req[r].pc \in {"settling", "starting"}
    <3>1. req'[r].s = req[r].s /\ req'[r].n = req[r].n
      BY <2>1 DEF Persists
    <3> QED BY <1>1, <1>2, <1>3, <1>6, <2>1, <3>1 DEF Throttled, Sound
  <2>2. CASE req[r].pc \notin {"settling", "starting"}
    BY <1>1, <1>2, <1>6, <2>2 DEF NoNewClaim
  <2> QED BY <2>1, <2>2
<1>7. \A r \in Requests : req'[r].n \in Index
  BY DEF IInv, TypeOK, Request
<1> HIDE DEF k, s
<1>8. CASE disk'[k].files = {} /\ sessions'[k] # s
  <2>1. Own(disk'[k], enc'[e], ses'[s])
    BY <1>3, <1>4, <1>8 DEF Own
  <2> QED BY <1>1, <1>2, <1>5, <1>8, <2>1 DEF Sound
<1>9. ASSUME NEW top \in Int, Trimmed(disk'[k], disk[k], top),
             sessions'[k] = s /\ top >= 0 => SegmentDeletion /\ top + Keep <= ses'[s].down
      PROVE  /\ Own(disk'[k], enc'[e], ses'[s])
             /\ sessions'[k] = s =>
                  /\ Kept(disk'[k], enc'[e], ses'[s])
                  /\ \A r \in Requests :
                       /\ req'[r].pc \in {"settling", "starting"} /\ req'[e].s = req'[r].s
                       => Coming(req'[r].n, disk'[k], enc'[e], ses'[s])
  <2>1. Own(disk'[k], enc'[e], ses'[s])
    BY <1>3, <1>4, <1>9, OwnAfterTrim
  <2>2. ASSUME sessions'[k] = s
        PROVE  /\ Kept(disk'[k], enc'[e], ses'[s])
               /\ \A n \in Index : Coming(n, disk[k], enc[e], ses[s])
                                     => Coming(n, disk'[k], enc'[e], ses'[s])
    <3>1. top >= 0 => SegmentDeletion /\ top + Keep <= ses'[s].down
      BY <1>9, <2>2
    <3> QED BY <1>3, <1>4, <1>9, <2>2, <3>1, KeptAfterTrim
  <2> QED BY <1>6, <1>7, <2>1, <2>2
<1>10. \/ disk'[k].files = {} /\ sessions'[k] # s
       \/ \E top \in Int :
            /\ Trimmed(disk'[k], disk[k], top)
            /\ sessions'[k] = s /\ top >= 0 => SegmentDeletion /\ top + Keep <= ses'[s].down
  <2>1. CASE disk'[k].files = disk[k].files /\ disk'[k].newer = disk[k].newer
    <3>1. 0 .. -1 = {} /\ ~(-1 >= 0)
      OBVIOUS
    <3>2. Trimmed(disk'[k], disk[k], -1)
      BY <2>1, <3>1 DEF Trimmed
    <3> QED BY <3>1, <3>2
  <2> QED BY <2>1 DEF Undisturbed, k, s
<1> QED BY <1>1, <1>2, <1>5, <1>8, <1>9, <1>10 DEF Sound

\* So the invariant survives a step that keeps the accounts and leaves alone every encoder
\* that it does not itself bring into a sound state.
LEMMA ThrottledAgain ==
  ASSUME IInv, IInv', Throttled, Persists, Accounted',
         \A e \in Requests : Alone(e)' => Sound(e)' \/ (Undisturbed(e) /\ NoNewClaim(e))
  PROVE  Throttled'
BY UndisturbedKeeps DEF Throttled

----------------------------------------------------------------------------
(***************************************************************************)
(* Steps that change no request.                                           *)
(***************************************************************************)

\* The accounts survive a step that only ends things, but for files an encoder adds to its
\* own directory.
LEMMA AccountsKept ==
  ASSUME IInv, IInv', Accounted, req' = req,
         \A s \in Requests : /\ ses'[s].key = ses[s].key /\ ses'[s].down = ses[s].down
                             /\ ses'[s].from = ses[s].from
                             /\ ses'[s].run \in {ses[s].run, None},
         \A k \in Keys : sessions'[k] \in {sessions[k], None},
         \A e \in Requests : /\ enc[e].st # "none" => enc'[e].st # "none"
                             /\ req[e].pc = "starting" /\ enc'[e].st = "paused"
                                  => enc[e].st = "paused",
         \A k \in Keys : \A f \in disk'[k].files :
           \/ \E g \in disk[k].files : g.by = f.by
           \/ f.by \in Requests /\ enc[f.by].st # "none" /\ KeyOf(f.by) = k
  PROVE  Persists /\ Accounted'
<1>1. \A r \in Requests : req[r].pc # "new" => req[r].s \in Requests
  BY DEF IInv, Order, RequestHasSession
<1>2. \A e \in Requests : enc[e].st # "none" => req[e].pc # "new"
  BY DEF IInv, Order, UnlaunchedHasNoEncoder
<1>3. \A s \in Requests : ses[s].down \in Int
  BY DEF IInv, TypeOK, Session
<1>4. Persists
  BY <1>1, <1>3 DEF Persists
<1>5. Keyed'
  BY <1>1, NamesAssumption DEF Accounted, Keyed
<1>6. Launched'
  <2>1. \A s, e \in Requests : ses'[s].run = e => enc'[e].st # "none"
    BY NamesAssumption DEF Accounted, Launched
  <2>2. \A e \in Requests : req[e].pc = "starting" => enc'[e].st \notin {"none", "paused"}
    BY DEF Accounted, Launched
  <2> QED BY <2>1, <2>2 DEF Accounted, Launched
<1>7. Demanded'
  BY <1>1 DEF Accounted, Demanded, Waiting, InBegin
<1>8. \A e \in Requests : enc[e].st # "none" => enc'[e].st # "none" /\ KeyOf(e)' = KeyOf(e)
  BY <1>1, <1>2 DEF KeyOf
<1>9. FilesHaveWriters'
  <2> SUFFICES ASSUME NEW k \in Keys, NEW f \in disk'[k].files
               PROVE  enc'[f.by].st # "none" /\ KeyOf(f.by)' = k
    BY DEF FilesHaveWriters, KeyOf
  <2>1. f.by \in Requests
    BY DEF IInv, TypeOK, Directory, File
  <2>2. enc[f.by].st # "none" /\ KeyOf(f.by) = k
    BY DEF Accounted, FilesHaveWriters
  <2> QED BY <1>8, <2>1, <2>2
<1>10. WaitsHaveEncoders'
  <2> SUFFICES ASSUME NEW r \in Requests, req[r].pc = "settling"
               PROVE  \E x \in Requests : enc'[x].st # "none" /\ KeyOf(x)' = KeyOf(r)'
    BY DEF WaitsHaveEncoders, KeyOf
  <2>1. KeyOf(r)' = KeyOf(r)
    BY <1>1 DEF KeyOf
  <2>2. PICK x \in Requests : enc[x].st # "none" /\ KeyOf(x) = KeyOf(r)
    BY DEF Accounted, WaitsHaveEncoders
  <2> QED BY <1>8, <2>1, <2>2
<1> QED BY <1>4, <1>5, <1>6, <1>7, <1>9, <1>10 DEF Accounted

\* What taking files out of a directory leaves.
LEMMA UnlinkFields ==
  ASSUME NEW d \in Directory, NEW R
  PROVE  /\ Unlink(d, R).files = {f \in d.files : f.n \notin R}
         /\ Unlink(d, R).newer = {p \in d.newer : p[1] \notin R /\ p[2] \notin R}
BY DEF Unlink, Directory

\* Signals, and directories emptied along with their sessions or trimmed behind their
\* clients, starve nobody.
LEMMA EndingKeepsThrottled ==
  ASSUME IInv, IInv', Throttled, req' = req,
         \A s \in Requests : /\ ses'[s].key = ses[s].key /\ ses'[s].down = ses[s].down
                             /\ ses'[s].from = ses[s].from
                             /\ ses'[s].run \in {ses[s].run, None},
         \A k \in Keys : sessions'[k] \in {sessions[k], None},
         \A e \in Requests :
           /\ enc[e].st # "none" => enc'[e].st # "none"
           /\ req[e].pc = "starting" /\ enc'[e].st = "paused" => enc[e].st = "paused"
           /\ enc'[e].st \in Running =>
                /\ enc[e].st \in Running
                /\ enc'[e].at = enc[e].at /\ enc'[e].open = enc[e].open
           /\ Alone(e) /\ enc'[e].st = "paused" =>
                enc[e].open /\ enc[e].at + 1 - ses[req[e].s].down >= Gap,
         \A k \in Keys :
           \/ disk'[k] = disk[k]
           \/ disk'[k] = NoDirectory /\ sessions'[k] = None
           \/ sessions'[k] # None /\ disk'[k] = DeleteBehind(disk[k], ses[sessions'[k]].down)
  PROVE  Throttled'
<1>1. ASSUME NEW k \in Keys
      PROVE  /\ \A f \in disk'[k].files : f \in disk[k].files
             /\ \/ disk'[k].files = {} /\ sessions'[k] = None
                \/ disk'[k].files = disk[k].files /\ disk'[k].newer = disk[k].newer
                \/ /\ SegmentDeletion /\ sessions'[k] # None
                   /\ Trimmed(disk'[k], disk[k], ses[sessions'[k]].down - Keep)
  <2>1. disk[k] \in Directory
    BY DEF IInv, TypeOK
  <2>2. CASE disk'[k] = disk[k]
    BY <2>2
  <2>3. CASE disk'[k] = NoDirectory /\ sessions'[k] = None
    BY <2>3 DEF NoDirectory
  <2>4. CASE sessions'[k] # None /\ disk'[k] = DeleteBehind(disk[k], ses[sessions'[k]].down)
    <3>1. CASE disk'[k] = disk[k]
      BY <3>1
    <3>2. CASE SegmentDeletion /\ disk'[k] = Unlink(disk[k], 0 .. ses[sessions'[k]].down - Keep)
      <4> DEFINE R == 0 .. ses[sessions'[k]].down - Keep
      <4>1. disk'[k] = Unlink(disk[k], R)
        BY <3>2
      <4> HIDE DEF R
      <4>2. /\ disk'[k].files = {f \in disk[k].files : f.n \notin R}
            /\ disk'[k].newer = {p \in disk[k].newer : p[1] \notin R /\ p[2] \notin R}
        BY <2>1, <4>1, UnlinkFields
      <4> QED BY <2>4, <3>2, <4>2 DEF Trimmed, R
    <3> QED BY <2>4, <3>1, <3>2 DEF DeleteBehind
  <2> QED BY <2>2, <2>3, <2>4
<1>2. Persists /\ Accounted'
  <2>1. Accounted
    BY DEF Throttled
  <2>2. \A k \in Keys : \A f \in disk'[k].files :
           \/ \E g \in disk[k].files : g.by = f.by
           \/ f.by \in Requests /\ enc[f.by].st # "none" /\ KeyOf(f.by) = k
    BY <1>1
  <2>3. \A e \in Requests : /\ enc[e].st # "none" => enc'[e].st # "none"
                            /\ req[e].pc = "starting" /\ enc'[e].st = "paused"
                                 => enc[e].st = "paused"
    OBVIOUS
  <2> QED BY <2>1, <2>2, <2>3, AccountsKept
<1>3. ASSUME NEW e \in Requests, Alone(e)' PROVE Undisturbed(e) /\ NoNewClaim(e)
  <2> DEFINE s == req[e].s
             k == KeyOf(e)
  <2>1. /\ enc[e].st \in Running
        /\ enc'[e].at = enc[e].at /\ enc'[e].open = enc[e].open
    BY <1>3 DEF Alone
  <2>2. Alone(e) /\ s \in Requests /\ k \in Keys
    BY <1>2, <1>3, <2>1, AloneBefore DEF Throttled
  <2>3. ses'[s].from = ses[s].from /\ ses'[s].down = ses[s].down
    BY <2>2
  <2>4. sessions'[k] = s => sessions[k] = s
    BY <2>2, NamesAssumption
  <2>5. sessions'[k] # None => sessions'[k] \in Requests
    BY <2>2 DEF IInv, TypeOK
  <2>6. \A x \in Requests : ses[x].down \in Nat /\ ses'[x].down = ses[x].down
    BY DEF IInv, TypeOK, Session
  <2> HIDE DEF k, s
  <2>7. \/ disk'[k].files = {} /\ sessions'[k] # s
        \/ disk'[k].files = disk[k].files /\ disk'[k].newer = disk[k].newer
        \/ /\ SegmentDeletion
           /\ \E top \in Int : /\ Trimmed(disk'[k], disk[k], top)
                               /\ sessions'[k] = s => top + Keep <= ses'[s].down
    <3>1. CASE /\ SegmentDeletion /\ sessions'[k] # None
               /\ Trimmed(disk'[k], disk[k], ses[sessions'[k]].down - Keep)
      <4> DEFINE top == ses[sessions'[k]].down - Keep
      <4>1. top \in Int
        BY <2>5, <2>6, <3>1, NumbersAssumption
      <4>2. sessions'[k] = s => top + Keep <= ses'[s].down
        BY <2>2, <2>6, NumbersAssumption
      <4> HIDE DEF top
      <4>3. Trimmed(disk'[k], disk[k], top)
        BY <3>1 DEF top
      <4> QED BY <3>1, <4>1, <4>2, <4>3
    <3>2. sessions'[k] = None => sessions'[k] # s
      BY <2>2, NamesAssumption
    <3> QED BY <1>1, <2>2, <3>1, <3>2
  <2>8. Undisturbed(e)
    BY <2>1, <2>3, <2>4, <2>7 DEF Undisturbed, k, s
  <2>9. NoNewClaim(e)
    <3>1. enc'[e].st = "paused" =>
            enc'[e].open /\ enc'[e].at + 1 - ses'[s].down >= Gap
      BY <2>1, <2>2, <2>3 DEF s
    <3> QED BY <3>1 DEF NoNewClaim, s
  <2> QED BY <2>8, <2>9
<1> QED BY <1>2, <1>3, ThrottledAgain

\* A kill moves no encoder in the film.
LEMMA KillFields ==
  ASSUME NEW E \in [Requests -> Encoder], NEW e
  PROVE  \A x \in Requests :
           /\ Kill(E, e)[x].at = E[x].at /\ Kill(E, e)[x].open = E[x].open
           /\ Kill(E, e)[x].st = E[x].st \/ (Kill(E, e)[x].st = "gone" /\ E[x].st \in Running)
BY DEF Kill, Encoder

LEMMA DiscardKeepsThrottled ==
  ASSUME IInv, IInv', Throttled, NEW c \in Killers, NEW todo \in SUBSET Requests, NEW gone,
         Discard(c, todo, gone), UNCHANGED <<req, stage>>
  PROVE  Throttled'
<1>1. /\ ses \in [Requests -> Session] /\ enc \in [Requests -> Encoder]
      /\ sessions \in [Keys -> Requests \union {None}]
  BY DEF IInv, TypeOK
<1>2. \A e \in Requests : Alone(e) /\ enc[e].st = "paused" =>
        enc[e].open /\ enc[e].at + 1 - ses[req[e].s].down >= Gap
  BY DEF Throttled, Sound
<1>3. CASE DiscardNext(c, todo, gone)
  <2>0. PICK s \in todo, idle \in SUBSET {x \in todo : ses[x].run = None} :
          LET keys == {ses[x].key : x \in gone \union idle}
          IN  /\ ses[s].run # None
              /\ killer' = [killer EXCEPT ![c] =
                   [pc |-> "discarding", todo |-> todo \ (idle \union {s}),
                    cur |-> s, e |-> ses[s].run]]
              /\ ses' = [ses EXCEPT ![s].run = None]
              /\ ledger' = ledger \ {ses[s].run}
              /\ enc' = Kill(enc, ses[s].run)
              /\ sessions' = [k \in Keys |-> IF k \in keys THEN None ELSE sessions[k]]
              /\ disk' = [k \in Keys |-> IF k \in keys THEN NoDirectory ELSE disk[k]]
    BY <1>3 DEF DiscardNext
  <2> DEFINE keys == {ses[x].key : x \in gone \union idle}
  <2>1. /\ s \in todo
        /\ ses' = [ses EXCEPT ![s].run = None]
        /\ enc' = Kill(enc, ses[s].run)
        /\ sessions' = [k \in Keys |-> IF k \in keys THEN None ELSE sessions[k]]
        /\ disk' = [k \in Keys |-> IF k \in keys THEN NoDirectory ELSE disk[k]]
    BY <2>0
  <2> HIDE DEF keys
  <2>2. \A x \in Requests : /\ ses'[x].key = ses[x].key /\ ses'[x].down = ses[x].down
                            /\ ses'[x].from = ses[x].from
                            /\ ses'[x].run \in {ses[x].run, None}
    BY <1>1, <2>1 DEF Session
  <2>3. \A e \in Requests :
          /\ enc'[e].at = enc[e].at /\ enc'[e].open = enc[e].open
          /\ enc'[e].st = enc[e].st \/ (enc'[e].st = "gone" /\ enc[e].st \in Running)
    BY <1>1, <2>1, KillFields
  <2>4. \A e \in Requests :
          /\ enc[e].st # "none" => enc'[e].st # "none"
          /\ req[e].pc = "starting" /\ enc'[e].st = "paused" => enc[e].st = "paused"
          /\ enc'[e].st \in Running =>
               /\ enc[e].st \in Running
               /\ enc'[e].at = enc[e].at /\ enc'[e].open = enc[e].open
          /\ Alone(e) /\ enc'[e].st = "paused" =>
               enc[e].open /\ enc[e].at + 1 - ses[req[e].s].down >= Gap
    BY <1>2, <2>3 DEF Running
  <2>5. \A k \in Keys : sessions'[k] \in {sessions[k], None}
    BY <2>1
  <2>6. \A k \in Keys :
          \/ disk'[k] = disk[k]
          \/ disk'[k] = NoDirectory /\ sessions'[k] = None
          \/ sessions'[k] # None /\ disk'[k] = DeleteBehind(disk[k], ses[sessions'[k]].down)
    BY <2>1
  <2> QED BY <2>2, <2>4, <2>5, <2>6, EndingKeepsThrottled
<1>4. CASE DiscardRest(c, todo, gone)
  <2>1. PICK keys, kept :
          /\ sessions' = [k \in Keys |-> IF k \in keys THEN None ELSE sessions[k]]
          /\ enc' = enc \/ enc' = Throttle(ses, kept)
          /\ \A k \in Keys :
               \/ k \in keys /\ disk'[k] = NoDirectory
               \/ k \notin keys /\ sessions[k] # None
                  /\ disk'[k] = DeleteBehind(disk[k], ses[sessions[k]].down)
               \/ disk'[k] = disk[k]
          /\ UNCHANGED ses
    BY <1>4 DEF DiscardRest
  <2>2. \A e \in Requests :
          /\ enc[e].st # "none" => enc'[e].st # "none"
          /\ req[e].pc = "starting" /\ enc'[e].st = "paused" => enc[e].st = "paused"
          /\ enc'[e].st \in Running =>
               /\ enc[e].st \in Running
               /\ enc'[e].at = enc[e].at /\ enc'[e].open = enc[e].open
          /\ Alone(e) /\ enc'[e].st = "paused" =>
               enc[e].open /\ enc[e].at + 1 - ses[req[e].s].down >= Gap
    <3>1. CASE enc' = enc
      BY <1>2, <3>1
    <3>2. CASE enc' = Throttle(ses, kept)
      <4>1. \A s \in Requests : ses[s].down \in Nat /\ ses[s].down >= ses[s].down
        BY <1>1 DEF Session
      <4>2. ASSUME NEW e \in Requests
            PROVE  /\ enc'[e].at = enc[e].at /\ enc'[e].open = enc[e].open
                   /\ enc'[e].st = enc[e].st \/ enc[e].st \in Running
                   /\ req[e].pc = "starting" => enc'[e] = enc[e]
                   /\ Alone(e) /\ enc'[e].st = "paused" =>
                        enc[e].open /\ enc[e].at + 1 - ses[req[e].s].down >= Gap
        BY <3>2, <4>1, ThrottleWantsLead
      <4>3. \A e \in Requests : enc[e].st # "none" => enc'[e].st # "none"
        BY <3>2, ThrottleSignalsOnly DEF SameRunning, IInv
      <4> QED BY <4>2, <4>3
    <3> QED BY <2>1, <3>1, <3>2
  <2>3. \A k \in Keys : sessions'[k] \in {sessions[k], None}
    BY <2>1
  <2>4. \A k \in Keys :
          \/ disk'[k] = disk[k]
          \/ disk'[k] = NoDirectory /\ sessions'[k] = None
          \/ sessions'[k] # None /\ disk'[k] = DeleteBehind(disk[k], ses[sessions'[k]].down)
    BY <2>1
  <2>5. \A x \in Requests : /\ ses'[x].key = ses[x].key /\ ses'[x].down = ses[x].down
                            /\ ses'[x].from = ses[x].from
                            /\ ses'[x].run \in {ses[x].run, None}
    BY <2>1
  <2> QED BY <2>2, <2>3, <2>4, <2>5, EndingKeepsThrottled
<1> QED BY <1>3, <1>4 DEF Discard

LEMMA StopsKeepThrottled ==
  ASSUME IInv, IInv', Throttled,
         \/ \E s \in Requests : Ages(s)
         \/ \E e \in Requests : Crashes(e) \/ Reap(e)
         \/ BeginStop \/ Cancel \/ HaltAll \/ ClearAll
  PROVE  Throttled'
<1>1. /\ ses \in [Requests -> Session] /\ enc \in [Requests -> Encoder]
      /\ \A e \in Requests : DOMAIN enc[e] = {"st", "at", "open"}
  BY DEF IInv, TypeOK, Encoder
<1>2. \A e \in Requests : Alone(e) /\ enc[e].st = "paused" =>
        enc[e].open /\ enc[e].at + 1 - ses[req[e].s].down >= Gap
  BY DEF Throttled, Sound
<1>3. req' = req
  BY DEF Ages, Crashes, Reap, BeginStop, Cancel, HaltAll, ClearAll
<1>4. \A s \in Requests : /\ ses'[s].key = ses[s].key /\ ses'[s].down = ses[s].down
                          /\ ses'[s].from = ses[s].from
                          /\ ses'[s].run \in {ses[s].run, None}
  <2>1. CASE UNCHANGED ses
    BY <2>1
  <2>2. CASE \E s \in Requests : ses' = [ses EXCEPT ![s].fresh = FALSE]
    BY <1>1, <2>2 DEF Session
  <2>3. CASE HaltAll
    BY <1>1, <2>3, SMTT(30) DEF HaltAll, Session
  <2> QED BY <2>1, <2>2, <2>3 DEF Ages, Crashes, Reap, BeginStop, Cancel, ClearAll
<1>5. \A k \in Keys : sessions'[k] \in {sessions[k], None}
  BY DEF Ages, Crashes, Reap, BeginStop, Cancel, HaltAll, ClearAll
<1>6. \A e \in Requests : enc'[e].st \in {enc[e].st, "gone", "reaped"}
                          /\ (enc'[e].st \in {"gone", "reaped"} => enc[e].st # "none")
                          /\ (enc'[e].st \in Running => enc'[e] = enc[e])
  <2>1. \A e \in Requests : \/ Kill(enc, e)[e] = enc[e]
                            \/ enc[e].st # "none" /\ Kill(enc, e)[e].st = "gone"
    BY <1>1 DEF Kill, Running, Encoder
  <2>2. CASE UNCHANGED enc
    BY <1>1, <2>2 DEF Running, Encoder
  <2>3. CASE HaltAll \/ ClearAll
    <3>1. \A e \in Requests : enc'[e] = enc[e] \/ enc'[e] = Kill(enc, e)[e]
      BY <1>1, <2>3 DEF HaltAll, ClearAll
    <3> QED BY <2>1, <3>1 DEF Running
  <2>4. CASE \E e \in Requests : Crashes(e) \/ Reap(e)
    <3> PICK e \in Requests : Crashes(e) \/ Reap(e)
      BY <2>4
    <3>1. /\ enc[e].st # "none" /\ enc'[e].st \in {"gone", "reaped"}
          /\ \A x \in Requests \ {e} : enc'[x] = enc[x]
      BY <1>1, ZenonT(60) DEF Crashes, Reap, Running
    <3>2. \A x \in Requests : x # e => enc'[x] = enc[x]
      BY <3>1
    <3> HIDE <2>4
    <3> QED BY <1>1, <3>1, <3>2 DEF Running, Encoder
  <2> QED BY <2>2, <2>3, <2>4 DEF Ages, BeginStop, Cancel
<1>7. \A e \in Requests :
        /\ enc[e].st # "none" => enc'[e].st # "none"
        /\ req[e].pc = "starting" /\ enc'[e].st = "paused" => enc[e].st = "paused"
        /\ enc'[e].st \in Running =>
             /\ enc[e].st \in Running
             /\ enc'[e].at = enc[e].at /\ enc'[e].open = enc[e].open
        /\ Alone(e) /\ enc'[e].st = "paused" =>
             enc[e].open /\ enc[e].at + 1 - ses[req[e].s].down >= Gap
  BY <1>2, <1>6 DEF Running
<1>8. \A k \in Keys :
        \/ disk'[k] = disk[k]
        \/ disk'[k] = NoDirectory /\ sessions'[k] = None
        \/ sessions'[k] # None /\ disk'[k] = DeleteBehind(disk[k], ses[sessions'[k]].down)
  BY DEF Ages, Crashes, Reap, BeginStop, Cancel, HaltAll, ClearAll
<1> QED BY <1>3, <1>4, <1>5, <1>7, <1>8, EndingKeepsThrottled

----------------------------------------------------------------------------
(***************************************************************************)
(* The steps of an encoder.                                                *)
(***************************************************************************)

\* A step of a launched encoder e, on its own directory, disturbs no other that is alone.
LEMMA OwnStepDisturbsNoOther ==
  ASSUME IInv, IInv', Throttled, Persists, Accounted',
         UNCHANGED <<sessions, ses, req>>,
         NEW e \in Requests, enc[e].st # "none",
         \A x \in Requests : x # e => enc'[x] = enc[x],
         \A k \in Keys : k # KeyOf(e) => disk'[k] = disk[k],
         Alone(e)' => Sound(e)'
  PROVE  Throttled'
<1>1. ASSUME NEW x \in Requests, x # e, Alone(x)'
      PROVE  Undisturbed(x) /\ NoNewClaim(x)
  <2>1. enc'[x] = enc[x] /\ enc[x].st \in Running
    BY <1>1 DEF Alone
  <2>2. Alone(x) /\ req[x].s \in Requests /\ KeyOf(x) \in Keys
    BY <1>1, <2>1, AloneBefore DEF Throttled
  <2>3. KeyOf(e) # KeyOf(x)
    BY <1>1, <2>2 DEF Alone, FirstEncoder, KeyOf
  <2>4. disk'[KeyOf(x)] = disk[KeyOf(x)]
    BY <2>2, <2>3
  <2>5. Undisturbed(x)
    BY <2>1, <2>4 DEF Undisturbed
  <2>6. NoNewClaim(x)
    BY <2>1 DEF NoNewClaim
  <2> QED BY <2>5, <2>6
<1>2. \A x \in Requests : Alone(x)' => Sound(x)' \/ (Undisturbed(x) /\ NoNewClaim(x))
  BY <1>1
<1> QED BY <1>2, ThrottledAgain

\* Where the encoder e writes, if it writes.
LEMMA EncoderHasDirectory ==
  ASSUME IInv, Throttled, NEW e \in Requests, enc[e].st = "live"
  PROVE  /\ req[e].s \in Requests /\ KeyOf(e) \in Keys /\ EncDir(e) = disk[KeyOf(e)]
         /\ EncDir(e) \in Directory /\ enc[e] \in Encoder /\ ses[req[e].s] \in Session
         /\ enc[e].at \in Index
<1>1. req[e].s \in Requests /\ KeyOf(e) \in Keys
  BY RunningHasSession DEF Running, Throttled, Accounted
<1> QED BY <1>1 DEF IInv, TypeOK, Encoder, KeyOf, EncDir

\* The accounts survive an encoder's step.
LEMMA OwnStepKeepsAccounts ==
  ASSUME IInv, IInv', Throttled, UNCHANGED <<sessions, ses, req>>,
         NEW e \in Requests, enc[e].st = "live",
         \A x \in Requests : x # e => enc'[x] = enc[x],
         enc'[e].st \in {"live", "gone"},
         \A k \in Keys : k # KeyOf(e) => disk'[k] = disk[k],
         \A f \in disk'[KeyOf(e)].files : f.by = e \/ \E g \in EncDir(e).files : g.by = f.by
  PROVE  Persists /\ Accounted'
<1>1. Accounted /\ req' = req
  BY DEF Throttled
<1>2. \A s \in Requests : /\ ses'[s].key = ses[s].key /\ ses'[s].down = ses[s].down
                          /\ ses'[s].from = ses[s].from
                          /\ ses'[s].run \in {ses[s].run, None}
  OBVIOUS
<1>3. \A x \in Requests : /\ enc[x].st # "none" => enc'[x].st # "none"
                          /\ req[x].pc = "starting" /\ enc'[x].st = "paused"
                               => enc[x].st = "paused"
  OBVIOUS
<1>4. \A k \in Keys : \A f \in disk'[k].files :
        \/ \E g \in disk[k].files : g.by = f.by
        \/ f.by \in Requests /\ enc[f.by].st # "none" /\ KeyOf(f.by) = k
  BY EncoderHasDirectory
<1> QED BY <1>1, <1>2, <1>3, <1>4, AccountsKept

LEMMA OpensKeepsThrottled ==
  ASSUME IInv, IInv', Throttled, NEW e \in Requests, Opens(e)
  PROVE  Throttled'
<1> DEFINE k == KeyOf(e)
           s == req[e].s
<1>1. /\ enc[e].st = "live" /\ ~enc[e].open /\ UNCHANGED <<sessions, ses, req>>
  BY DEF Opens
<1>2. /\ s \in Requests /\ k \in Keys /\ EncDir(e) = disk[k]
      /\ disk[k] \in Directory /\ enc[e] \in Encoder /\ ses[s] \in Session
      /\ enc[e].at \in Index /\ enc' \in [Requests -> Encoder]
  BY <1>1, EncoderHasDirectory DEF IInv, TypeOK
<1>3. /\ enc \in [Requests -> Encoder] /\ disk \in [Keys -> Directory]
      /\ DOMAIN enc[e] = {"st", "at", "open"}
  BY DEF IInv, TypeOK, Encoder
<1>4. CASE EncDir(e).made
  <2>1. /\ enc' = [enc EXCEPT ![e].open = TRUE]
        /\ disk' = [disk EXCEPT ![k] = Open(@, enc[e].at, e)]
    BY <1>4 DEF Opens, KeyOf
  <2>2. /\ enc'[e].st = "live" /\ enc'[e].at = enc[e].at /\ enc'[e].open
        /\ \A x \in Requests : x # e => enc'[x] = enc[x]
    BY <1>1, <1>3, <2>1
  <2>3. /\ disk'[k] = Open(disk[k], enc[e].at, e)
        /\ \A kk \in Keys : kk # k => disk'[kk] = disk[kk]
    BY <1>2, <1>3, <2>1
  <2>4. \A f \in disk'[k].files : f.by = e \/ \E g \in disk[k].files : g.by = f.by
    BY <1>2, <2>3, OpenFields
  <2>5. Persists /\ Accounted'
    <3> HIDE DEF k, s
    <3>1. \A f \in disk'[KeyOf(e)].files : f.by = e \/ \E g \in EncDir(e).files : g.by = f.by
      BY <1>2, <2>4 DEF k
    <3> QED BY <1>1, <2>2, <2>3, <3>1, OwnStepKeepsAccounts DEF k
  <2>6. ASSUME Alone(e)' PROVE Sound(e)'
    <3>1. Alone(e)
      BY <1>1, <2>5, <2>6, AloneBefore DEF Running, Throttled
    <3>2. Own(disk[k], enc[e], ses[s])
      BY <1>2, <3>1 DEF Throttled, Sound
    <3>3. /\ Own(disk'[k], enc'[e], ses[s]) /\ Kept(disk'[k], enc'[e], ses[s])
          /\ \A n \in Index : Coming(n, disk[k], enc[e], ses[s])
                                => Coming(n, disk'[k], enc'[e], ses[s])
      BY <1>1, <1>2, <2>2, <2>3, <3>2, OwnOpens
    <3>4. \A r \in Requests : req[r].n \in Index
      BY DEF IInv, TypeOK, Request
    <3>5. EncDir(e)' = disk'[k] /\ (Reachable(e)' <=> Reachable(e))
      BY <1>1, <1>2 DEF EncDir, KeyOf, Reachable
    <3>6. \A r \in Requests :
            req[r].pc \in {"settling", "starting"} /\ req[r].s = s /\ Reachable(e)
              => Coming(req[r].n, disk[k], enc[e], ses[s])
      BY <1>2, <3>1 DEF Throttled, Sound
    <3> HIDE DEF k, s
    <3>7. \A r \in Requests :
            req[r].pc \in {"settling", "starting"} /\ req[r].s = s /\ Reachable(e)
              => Coming(req[r].n, disk'[k], enc'[e], ses[s])
      BY <3>3, <3>4, <3>6
    <3> QED BY <1>1, <2>2, <3>3, <3>5, <3>7 DEF Sound, s
  <2> QED BY <1>1, <2>2, <2>3, <2>5, <2>6, OwnStepDisturbsNoOther
<1>5. CASE ~EncDir(e).made
  <2>1. disk' = disk /\ enc' = [enc EXCEPT ![e].st = "gone"]
    BY <1>5 DEF Opens
  <2>2. enc'[e].st = "gone" /\ \A x \in Requests : x # e => enc'[x] = enc[x]
    BY <1>3, <2>1
  <2>3. \A f \in disk'[KeyOf(e)].files : f.by = e \/ \E g \in EncDir(e).files : g.by = f.by
    BY <1>2, <2>1
  <2>4. Persists /\ Accounted'
    BY <1>1, <2>1, <2>2, <2>3, OwnStepKeepsAccounts
  <2>5. ~Alone(e)'
    BY <2>2 DEF Alone, Running
  <2> QED BY <1>1, <2>1, <2>2, <2>4, <2>5, OwnStepDisturbsNoOther
<1> QED BY <1>4, <1>5

LEMMA AdvancesKeepsThrottled ==
  ASSUME IInv, IInv', Throttled, NEW e \in Requests, Advances(e)
  PROVE  Throttled'
<1> DEFINE k == KeyOf(e)
           s == req[e].s
           closed == Close(disk[k], enc[e].at, e)
           n == Following(e)
<1>1. /\ enc[e].st = "live" /\ enc[e].open /\ UNCHANGED <<sessions, ses, req>>
  BY DEF Advances
<1>2. /\ s \in Requests /\ k \in Keys /\ EncDir(e) = disk[k]
      /\ disk[k] \in Directory /\ enc[e] \in Encoder /\ ses[s] \in Session
      /\ enc[e].at \in Index /\ enc' \in [Requests -> Encoder]
  BY <1>1, EncoderHasDirectory DEF IInv, TypeOK
<1>3. /\ enc \in [Requests -> Encoder] /\ disk \in [Keys -> Directory]
      /\ DOMAIN enc[e] = {"st", "at", "open"}
  BY DEF IInv, TypeOK, Encoder
<1>4. closed \in Directory /\ \A f \in closed.files : \E g \in disk[k].files : g.by = f.by
  <2>1. closed \in Directory
    BY <1>2, DirectoryOperations
  <2>2. \A f \in closed.files : \E g \in disk[k].files : g.by = f.by
    BY <1>2, CloseFields
  <2> QED BY <2>1, <2>2
<1>5. CASE /\ enc' = [enc EXCEPT ![e].at = n]
           /\ disk' = [disk EXCEPT ![k] = Open(closed, n, e)]
  <2>1. /\ enc'[e].st = "live" /\ enc'[e].at = n /\ enc'[e].open
        /\ \A x \in Requests : x # e => enc'[x] = enc[x]
    BY <1>1, <1>3, <1>5
  <2>2. n \in Index /\ enc'[e] \in Encoder
    BY <1>2, <2>1 DEF Encoder
  <2>3. /\ disk'[k] = Open(closed, n, e)
        /\ \A kk \in Keys : kk # k => disk'[kk] = disk[kk]
    BY <1>2, <1>3, <1>5
  <2>4. \A f \in disk'[k].files : f.by = e \/ \E g \in disk[k].files : g.by = f.by
    <3>1. \A f \in disk'[k].files : f.by = e \/ f \in closed.files
      <4> HIDE DEF closed, n
      <4> QED BY <1>4, <2>2, <2>3, OpenFields
    <3> QED BY <1>4, <3>1
  <2>5. Persists /\ Accounted'
    <3>1. \A f \in disk'[KeyOf(e)].files : f.by = e \/ \E g \in EncDir(e).files : g.by = f.by
      BY <1>2, <2>4
    <3> QED BY <1>1, <2>1, <2>3, <3>1, OwnStepKeepsAccounts
  <2>6. ASSUME Alone(e)' PROVE Sound(e)'
    <3>1. Alone(e)
      BY <1>1, <2>5, <2>6, AloneBefore DEF Running, Throttled
    <3>2. Own(disk[k], enc[e], ses[s])
      BY <1>2, <3>1 DEF Throttled, Sound
    <3>3. /\ Own(disk'[k], enc'[e], ses[s]) /\ Kept(disk'[k], enc'[e], ses[s])
          /\ \A i \in Index : Coming(i, disk[k], enc[e], ses[s])
                                => Coming(i, disk'[k], enc'[e], ses[s])
      <4>1. enc'[e].at = IF enc[e].at = -1 THEN ses[s].from ELSE enc[e].at + 1
        BY <2>1 DEF Following
      <4>2. disk'[k] = Open(Close(disk[k], enc[e].at, e), enc'[e].at, e)
        BY <2>1, <2>3
      <4> HIDE DEF k, s, n, closed
      <4> QED BY <1>1, <1>2, <2>1, <2>2, <3>2, <4>1, <4>2, OwnAdvances
    <3>4. \A r \in Requests : req[r].n \in Index
      BY DEF IInv, TypeOK, Request
    <3>5. EncDir(e)' = disk'[k] /\ (Reachable(e)' <=> Reachable(e))
      BY <1>1, <1>2 DEF EncDir, KeyOf, Reachable
    <3>6. \A r \in Requests :
            req[r].pc \in {"settling", "starting"} /\ req[r].s = s /\ Reachable(e)
              => Coming(req[r].n, disk[k], enc[e], ses[s])
      BY <1>2, <3>1 DEF Throttled, Sound
    <3> HIDE DEF k, s
    <3>7. \A r \in Requests :
            req[r].pc \in {"settling", "starting"} /\ req[r].s = s /\ Reachable(e)
              => Coming(req[r].n, disk'[k], enc'[e], ses[s])
      BY <3>3, <3>4, <3>6
    <3> QED BY <1>1, <2>1, <3>3, <3>5, <3>7 DEF Sound, s
  <2> QED BY <1>1, <2>1, <2>3, <2>5, <2>6, OwnStepDisturbsNoOther
<1>6. CASE /\ enc' = [enc EXCEPT ![e].st = "gone", ![e].open = FALSE]
           /\ disk' = [disk EXCEPT ![k] = closed]
  <2>1. enc'[e].st = "gone" /\ \A x \in Requests : x # e => enc'[x] = enc[x]
    BY <1>3, <1>6
  <2>2. /\ disk'[k] = closed
        /\ \A kk \in Keys : kk # k => disk'[kk] = disk[kk]
    BY <1>2, <1>3, <1>6
  <2>3. \A f \in disk'[KeyOf(e)].files : f.by = e \/ \E g \in EncDir(e).files : g.by = f.by
    BY <1>2, <1>4, <2>2
  <2>4. Persists /\ Accounted'
    BY <1>1, <2>1, <2>2, <2>3, OwnStepKeepsAccounts
  <2>5. ~Alone(e)'
    BY <2>1 DEF Alone, Running
  <2> QED BY <1>1, <2>1, <2>2, <2>4, <2>5, OwnStepDisturbsNoOther
<1> QED BY <1>5, <1>6 DEF Advances, KeyOf

\* An encoder alone in its directory writes to the newest file there, so that nothing shows.
LEMMA WritesKeepsThrottled ==
  ASSUME IInv, IInv', Throttled, NEW e \in Requests, Writes(e)
  PROVE  Throttled'
<1> DEFINE k == KeyOf(e)
<1>1. /\ enc[e].st = "live" /\ UNCHANGED <<sessions, ses, req, enc>>
      /\ Exists(EncDir(e), enc[e].at) /\ Newest(EncDir(e)) # enc[e].at
      /\ disk' = [disk EXCEPT ![k] = Touch(@, enc[e].at)]
  BY DEF Writes, EncDir, Exists, KeyOf
<1>2. k \in Keys /\ EncDir(e) = disk[k] /\ disk[k] \in Directory /\ enc[e] \in Encoder
  BY <1>1, EncoderHasDirectory
<1>3. /\ disk'[k] = Touch(disk[k], enc[e].at)
      /\ \A kk \in Keys : kk # k => disk'[kk] = disk[kk]
  BY <1>1, <1>2 DEF IInv, TypeOK
<1>4. disk'[k].files = disk[k].files
  BY <1>2, <1>3 DEF Touch, Directory
<1>5. Persists /\ Accounted'
  <2>1. \A f \in disk'[KeyOf(e)].files : f.by = e \/ \E g \in EncDir(e).files : g.by = f.by
    BY <1>2, <1>4
  <2> QED BY <1>1, <1>3, <2>1, OwnStepKeepsAccounts
<1>6. ~Alone(e)'
  <2> SUFFICES ASSUME Alone(e)' PROVE FALSE
    OBVIOUS
  <2>1. Alone(e)
    BY <1>1, <1>5, AloneBefore DEF Running, Throttled
  <2>2. Own(disk[k], enc[e], ses[req[e].s])
    BY <1>2, <2>1 DEF Throttled, Sound
  <2> QED BY <1>1, <1>2, <2>2, NewestOfOwn
<1> QED BY <1>1, <1>3, <1>5, <1>6, OwnStepDisturbsNoOther

----------------------------------------------------------------------------
(***************************************************************************)
(* The steps of a request.                                                 *)
(***************************************************************************)

\* What all of them are: request r, for segment n of session s under key k, goes on or comes
\* in, and then the session may be new.
Moves(r, s, n, k) ==
  /\ req'[r].pc # "new" /\ req'[r].s = s /\ req'[r].n = n
  /\ \A q \in Requests : q # r => req'[q] = req[q]
  /\ \/ req[r].pc # "new" /\ req[r].s = s /\ req[r].n = n /\ ses[s].key = k
     \/ req[r].pc = "new" /\ sessions[k] = s
     \/ req[r].pc = "new" /\ s = r
  /\ \A kk \in Keys : \/ sessions'[kk] = sessions[kk]
                      \/ req[r].pc = "new" /\ kk = k /\ sessions'[kk] = s
  /\ ses'[s].key = k /\ ses'[s].down >= ses[s].down
  /\ req'[r].pc \in Waiting => n + 1 <= ses'[s].down
  /\ \A x \in Requests :
       /\ x # s => ses'[x].key = ses[x].key /\ ses'[x].down = ses[x].down
       /\ ses'[x].from <= ses'[x].down
       /\ ses'[x].run \in {ses[x].run, None} \/ (ses'[x].run = r /\ enc[r].st # "none")
  /\ \A e \in Requests :
       /\ enc[e].st # "none" => enc'[e].st # "none"
       /\ e # r /\ req[e].pc = "starting" => enc'[e].st # "paused"
  /\ req'[r].pc = "starting" => enc'[r].st \notin {"none", "paused"}
  /\ req'[r].pc = "halting" =>
       \E e \in Requests : req'[r].e = e /\ enc[e].st # "none" /\ req[e].s = s
  /\ req'[r].pc = "settling" =>
       \/ req[r].pc \in {"settling", "starting"}
       \/ \E x \in Requests : enc[x].st # "none" /\ KeyOf(x) = k
  /\ \A kk \in Keys : \A f \in disk'[kk].files : \E g \in disk[kk].files : g.by = f.by

LEMMA MovesKeepAccounts ==
  ASSUME IInv, IInv', Accounted, NEW r \in Requests, NEW s \in Requests, NEW n \in Index,
         NEW k \in Keys, Moves(r, s, n, k)
  PROVE  Persists /\ Accounted'
<1>1. \A q \in Requests : req[q].pc # "new" => req[q].s \in Requests
  BY DEF IInv, Order, RequestHasSession
<1>2. \A e \in Requests : enc[e].st # "none" => req[e].pc # "new"
  BY DEF IInv, Order, UnlaunchedHasNoEncoder
<1>3. \A x \in Requests : ses[x].down \in Int /\ ses'[x].down \in Int
  BY DEF IInv, TypeOK, Session
<1>4. \A q \in Requests : q # r => req'[q] = req[q]
  BY DEF Moves
<1>5. \A q \in Requests : req[q].pc # "new" /\ req[q].s = s => ses[s].key = k
  <2> SUFFICES ASSUME NEW q \in Requests, req[q].pc # "new", req[q].s = s
               PROVE  ses[s].key = k
    OBVIOUS
  <2>1. CASE req[r].pc = "new" /\ sessions[k] = s
    BY <2>1 DEF Accounted, Keyed
  <2>2. CASE req[r].pc = "new" /\ s = r
    BY <2>2 DEF Accounted, Keyed
  <2> QED BY <2>1, <2>2 DEF Moves
<1>6. Persists
  <2>1. ASSUME NEW q \in Requests, req[q].pc # "new"
        PROVE  /\ req'[q].pc # "new" /\ req'[q].s = req[q].s /\ req'[q].n = req[q].n
               /\ ses'[req[q].s].key = ses[req[q].s].key
    <3>1. req'[q].pc # "new" /\ req'[q].s = req[q].s /\ req'[q].n = req[q].n
      BY <2>1 DEF Moves
    <3>2. ses'[req[q].s].key = ses[req[q].s].key
      BY <1>1, <1>5, <2>1 DEF Moves
    <3> QED BY <3>1, <3>2
  <2>2. \A x \in Requests : ses'[x].down >= ses[x].down
    BY <1>3 DEF Moves
  <2>3. \A e \in Requests : enc[e].st # "none" => enc'[e].st # "none"
    BY DEF Moves
  <2> QED BY <2>1, <2>2, <2>3 DEF Persists
<1>7. Keyed'
  <2>1. \A q \in Requests : req'[q].pc # "new" =>
          req'[q].s \in Requests /\ ses'[req'[q].s].key \in Keys
    <3>1. req'[r].s = s /\ ses'[s].key = k
      BY DEF Moves
    <3>2. ASSUME NEW q \in Requests, q # r, req[q].pc # "new"
          PROVE  req'[q].s \in Requests /\ ses'[req'[q].s].key \in Keys
      BY <1>4, <1>6, <3>2 DEF Accounted, Keyed, Persists
    <3> QED BY <1>4, <3>1, <3>2
  <2>2. \A q, x \in Requests : req'[q].pc = "new" => req'[x].s # q
    <3> SUFFICES ASSUME NEW q \in Requests, NEW x \in Requests, req'[q].pc = "new"
                 PROVE  req'[x].s # q
      OBVIOUS
    <3>1. q # r /\ req[q].pc = "new"
      BY <1>4 DEF Moves
    <3>2. s # q
      BY <3>1 DEF Moves, Accounted, Keyed
    <3> QED BY <1>4, <3>1, <3>2 DEF Moves, Accounted, Keyed
  <2>3. \A x \in Requests, kk \in Keys : sessions'[kk] = x =>
          ses'[x].key = kk /\ req'[x].pc # "new"
    <3> SUFFICES ASSUME NEW x \in Requests, NEW kk \in Keys, sessions'[kk] = x
                 PROVE  ses'[x].key = kk /\ req'[x].pc # "new"
      OBVIOUS
    <3>1. CASE sessions[kk] = x
      <4>1. ses[x].key = kk /\ req[x].pc # "new"
        BY <3>1 DEF Accounted, Keyed
      <4>2. req'[x].pc # "new"
        BY <1>6, <4>1 DEF Persists
      <4>3. x = s => kk = k
        <5>1. CASE req[r].pc # "new"
          BY <4>1, <5>1 DEF Moves
        <5>2. CASE req[r].pc = "new" /\ sessions[k] = s
          BY <4>1, <5>2 DEF Accounted, Keyed
        <5>3. CASE req[r].pc = "new" /\ s = r
          BY <4>1, <5>3
        <5> QED BY <5>1, <5>2, <5>3 DEF Moves
      <4> QED BY <4>1, <4>2, <4>3 DEF Moves
    <3>2. CASE req[r].pc = "new" /\ kk = k /\ x = s
      <4>1. ses'[s].key = k
        BY DEF Moves
      <4>2. s = r \/ req[s].pc # "new"
        BY <3>2 DEF Moves, Accounted, Keyed
      <4>3. req'[s].pc # "new"
        BY <4>2, <1>6 DEF Persists, Moves
      <4> QED BY <3>2, <4>1, <4>3
    <3> QED BY <3>1, <3>2 DEF Moves
  <2> QED BY <2>1, <2>2, <2>3 DEF Keyed
<1>8. Launched'
  <2>1. \A e \in Requests : req'[e].pc = "starting" => enc'[e].st \notin {"none", "paused"}
    <3>1. \A e \in Requests : e # r /\ req[e].pc = "starting" =>
            enc'[e].st \notin {"none", "paused"}
      BY DEF Moves, Accounted, Launched
    <3>2. req'[r].pc = "starting" => enc'[r].st \notin {"none", "paused"}
      BY DEF Moves
    <3> QED BY <1>4, <3>1, <3>2
  <2>2. \A x, e \in Requests : ses'[x].run = e => enc'[e].st # "none"
    <3> SUFFICES ASSUME NEW x \in Requests, NEW e \in Requests, ses'[x].run = e
                 PROVE  enc[e].st # "none"
      BY DEF Moves
    <3> QED BY NamesAssumption DEF Moves, Accounted, Launched
  <2>3. \A q \in Requests : req'[q].pc = "halting" =>
          /\ req'[q].e \in Requests
          /\ enc'[req'[q].e].st # "none" /\ req'[req'[q].e].s = req'[q].s
    <3>1. ASSUME NEW q \in Requests, NEW e \in Requests, req'[q].e = e,
                 enc[e].st # "none", req[e].s = req'[q].s
          PROVE  enc'[req'[q].e].st # "none" /\ req'[req'[q].e].s = req'[q].s
      BY <1>2, <1>6, <3>1 DEF Persists
    <3>2. CASE req'[r].pc = "halting"
      <4>1. PICK e \in Requests : req'[r].e = e /\ enc[e].st # "none" /\ req[e].s = s
        BY <3>2 DEF Moves
      <4> QED BY <1>4, <3>1, <4>1 DEF Moves, Accounted, Launched
    <3>3. CASE req'[r].pc # "halting"
      BY <1>4, <3>1, <3>3 DEF Accounted, Launched
    <3> QED BY <3>2, <3>3
  <2> QED BY <2>1, <2>2, <2>3 DEF Launched
<1>9. Demanded'
  <2>1. \A q \in Requests : req'[q].pc \in Waiting => req'[q].n + 1 <= ses'[req'[q].s].down
    <3>1. req'[r].pc \in Waiting => req'[r].n + 1 <= ses'[req'[r].s].down
      BY DEF Moves
    <3>2. ASSUME NEW q \in Requests, q # r, req[q].pc \in Waiting
          PROVE  req'[q].n + 1 <= ses'[req'[q].s].down
      <4>1. req[q].pc # "new"
        BY <3>2 DEF Waiting, InBegin
      <4>2. /\ req[q].s \in Requests /\ req'[q] = req[q] /\ req[q].n \in Int
            /\ req[q].n + 1 <= ses[req[q].s].down
        BY <1>1, <1>4, <3>2, <4>1, NumbersAssumption
        DEF Accounted, Demanded, IInv, TypeOK, Request, Index, First
      <4>3. ses'[req[q].s].down >= ses[req[q].s].down
        BY <1>6, <4>2 DEF Persists
      <4> QED BY <1>3, <4>2, <4>3
    <3> QED BY <1>4, <3>1, <3>2
  <2>2. \A x \in Requests : ses'[x].from <= ses'[x].down
    BY DEF Moves
  <2> QED BY <2>1, <2>2 DEF Demanded
<1>10. \A e \in Requests : enc[e].st # "none" => enc'[e].st # "none" /\ KeyOf(e)' = KeyOf(e)
  BY <1>2, <1>6 DEF KeyOf, Persists
<1>11. FilesHaveWriters'
  <2> SUFFICES ASSUME NEW kk \in Keys, NEW f \in disk'[kk].files
               PROVE  enc'[f.by].st # "none" /\ KeyOf(f.by)' = kk
    BY DEF FilesHaveWriters, KeyOf
  <2>1. f.by \in Requests
    BY DEF IInv, TypeOK, Directory, File
  <2>2. enc[f.by].st # "none" /\ KeyOf(f.by) = kk
    BY DEF Accounted, FilesHaveWriters, Moves
  <2> QED BY <1>10, <2>1, <2>2
<1>12. WaitsHaveEncoders'
  <2> SUFFICES ASSUME NEW q \in Requests, req'[q].pc = "settling"
               PROVE  \E x \in Requests : enc'[x].st # "none" /\ KeyOf(x)' = KeyOf(q)'
    BY DEF WaitsHaveEncoders, KeyOf
  <2>1. CASE req[q].pc = "settling"
    <3>1. KeyOf(q)' = KeyOf(q)
      BY <1>6, <2>1 DEF KeyOf, Persists
    <3>2. PICK x \in Requests : enc[x].st # "none" /\ KeyOf(x) = KeyOf(q)
      BY <2>1 DEF Accounted, WaitsHaveEncoders
    <3> QED BY <1>10, <3>1, <3>2
  <2>2. CASE req[q].pc = "starting"
    BY <1>10, <2>2 DEF Accounted, Launched
  <2>3. CASE q = r /\ \E x \in Requests : enc[x].st # "none" /\ KeyOf(x) = k
    <3>1. KeyOf(q)' = k
      BY <2>3 DEF KeyOf, Moves
    <3> QED BY <1>10, <2>3, <3>1
  <2> QED BY <1>4, <2>1, <2>2, <2>3 DEF Moves
<1> QED BY <1>6, <1>7, <1>8, <1>9, <1>11, <1>12 DEF Accounted

\* A request's step starves nobody if it makes nobody wait, launches only into an empty
\* directory, changes no directory that an encoder has to itself, and pauses with a lead.
LEMMA MovesKeepThrottled ==
  ASSUME IInv, IInv', Throttled, NEW r \in Requests, NEW s \in Requests, NEW n \in Index,
         NEW k \in Keys, Moves(r, s, n, k),
         \A e \in Requests :
           /\ enc[e].st \notin Running /\ Alone(e)' => Sound(e)'
           /\ enc[e].st \in Running /\ enc'[e].st \in Running =>
                /\ enc'[e].at = enc[e].at /\ enc'[e].open = enc[e].open
                /\ ses'[req[e].s].from = ses[req[e].s].from
           /\ Alone(e) /\ Alone(e)' =>
                /\ disk'[KeyOf(e)].files = disk[KeyOf(e)].files
                /\ disk'[KeyOf(e)].newer = disk[KeyOf(e)].newer
           /\ /\ Alone(e) /\ Alone(e)' /\ req[e].s = s /\ sessions[k] = s
              /\ req'[r].pc \in {"settling", "starting"}
              /\ req[r].pc \notin {"settling", "starting"}
              => Coming(n, disk[k], enc[e], ses[s])
           /\ Alone(e) /\ enc'[e].st = "paused" =>
                \/ enc[e].st = "paused" /\ ses'[req[e].s].down = ses[req[e].s].down
                \/ enc[e].open /\ enc[e].at + 1 - ses'[req[e].s].down >= Gap
  PROVE  Throttled'
<1>1. Persists /\ Accounted'
  BY MovesKeepAccounts DEF Throttled
<1>2. ASSUME NEW e \in Requests, enc[e].st \in Running, Alone(e)'
      PROVE  Undisturbed(e) /\ NoNewClaim(e)
  <2>1. /\ Alone(e) /\ req'[e].s = req[e].s /\ KeyOf(e)' = KeyOf(e)
        /\ req[e].s \in Requests /\ KeyOf(e) \in Keys
    BY <1>1, <1>2, AloneBefore DEF Throttled
  <2>2. enc'[e].st \in Running
    BY <1>2 DEF Alone
  <2>3. req[e].s = s => KeyOf(e) = k
    <3>1. CASE req[r].pc = "new" /\ sessions[k] = s
      BY <3>1 DEF Throttled, Accounted, Keyed, KeyOf
    <3>2. CASE req[r].pc = "new" /\ s = r
      BY <3>2 DEF Throttled, Accounted, Keyed
    <3> QED BY <3>1, <3>2 DEF Moves, KeyOf
  <2>4. sessions'[KeyOf(e)] = req[e].s => sessions[KeyOf(e)] = req[e].s
    <3>1. req[r].pc = "new" => req[e].s # r
      BY DEF Throttled, Accounted, Keyed
    <3> QED BY <2>1, <3>1 DEF Moves
  <2>5. Undisturbed(e)
    BY <1>2, <2>1, <2>2, <2>4 DEF Undisturbed
  <2>6. NoNewClaim(e)
    <3>1. ASSUME NEW q \in Requests, req'[q].pc \in {"settling", "starting"},
                 req'[q].s = req'[e].s, sessions'[KeyOf(e)'] = req'[e].s
          PROVE  \/ req[q].pc \in {"settling", "starting"}
                 \/ Coming(req'[q].n, EncDir(e), enc[e], ses[req[e].s])
      <4>1. CASE q # r
        BY <3>1, <4>1 DEF Moves
      <4>2. CASE q = r
        <5>1. req[e].s = s /\ KeyOf(e) = k /\ sessions[k] = s /\ req'[q].n = n
          BY <2>1, <2>3, <2>4, <3>1, <4>2 DEF Moves
        <5>2. EncDir(e) = disk[k]
          BY <5>1 DEF EncDir, KeyOf
        <5> QED BY <1>2, <2>1, <3>1, <4>2, <5>1, <5>2
      <4> QED BY <4>1, <4>2
    <3>2. enc'[e].st = "paused" =>
            \/ enc[e].st = "paused" /\ ses'[req[e].s].down = ses[req[e].s].down
            \/ enc'[e].open /\ enc'[e].at + 1 - ses'[req[e].s].down >= Gap
      BY <1>2, <2>1, <2>2
    <3> QED BY <3>1, <3>2 DEF NoNewClaim
  <2> QED BY <2>5, <2>6
<1>3. \A e \in Requests : Alone(e)' => Sound(e)' \/ (Undisturbed(e) /\ NoNewClaim(e))
  BY <1>2
<1> QED BY <1>1, <1>3, ThrottledAgain

\* The session and the key of a request that has come in.
LEMMA RequestHasKey ==
  ASSUME IInv, Throttled, NEW r \in Requests, req[r].pc # "new"
  PROVE  /\ req[r].s \in Requests /\ req[r].n \in Index /\ KeyOf(r) \in Keys
         /\ Dir(req[r].s) = disk[KeyOf(r)]
BY DEF IInv, TypeOK, Request, Throttled, Accounted, Keyed, KeyOf, Dir

\* A file in a directory has an encoder to its key.
LEMMA FileHasEncoder ==
  ASSUME IInv, Throttled, NEW k \in Keys, NEW n, Exists(disk[k], n)
  PROVE  \E x \in Requests : enc[x].st # "none" /\ KeyOf(x) = k
<1>1. PICK f \in disk[k].files : f.n = n
  BY DEF Exists
<1>2. f.by \in Requests
  BY DEF IInv, TypeOK, Directory, File
<1>3. enc[f.by].st # "none" /\ KeyOf(f.by) = k
  BY DEF Throttled, Accounted, FilesHaveWriters
<1> QED BY <1>2, <1>3

\* A request that goes on without touching an encoder or a directory, to an answer or to a
\* segment that is there, starves nobody.
LEMMA GoingOnKeepsThrottled ==
  ASSUME IInv, IInv', Throttled, NEW r \in Requests, req[r].pc # "new",
         UNCHANGED <<sessions, enc, disk>>,
         \A q \in Requests : q # r => req'[q] = req[q],
         req'[r].s = req[r].s, req'[r].n = req[r].n,
         req'[r].pc \in {"settling", "reaping"} \union Outcomes,
         req'[r].pc \in Waiting => req[r].pc \in Waiting,
         req'[r].pc = "settling" =>
           req[r].pc \in {"settling", "starting"} \/ Exists(Dir(req[r].s), req[r].n),
         \A x \in Requests :
           /\ ses'[x].key = ses[x].key /\ ses'[x].down = ses[x].down
           /\ ses'[x].from = ses[x].from
           /\ ses'[x].run \in {ses[x].run, None} \/ (ses'[x].run = r /\ enc[r].st # "none")
  PROVE  Throttled'
<1> DEFINE s == req[r].s
           n == req[r].n
           k == KeyOf(r)
<1>1. s \in Requests /\ n \in Index /\ k \in Keys /\ Dir(s) = disk[k]
  BY RequestHasKey
<1>2. \A x \in Requests : ses[x].down \in Int
  BY DEF IInv, TypeOK, Session
<1>3. Moves(r, s, n, k)
  <2>1. /\ req'[r].pc \notin {"new", "starting", "halting"}
        /\ req'[r].s = s /\ req'[r].n = n /\ ses[s].key = k
    BY DEF Outcomes, KeyOf
  <2>2. req'[r].pc \in Waiting => n + 1 <= ses'[s].down
    BY <1>1 DEF Throttled, Accounted, Demanded
  <2>3. \A x \in Requests :
          /\ x # s => ses'[x].key = ses[x].key /\ ses'[x].down = ses[x].down
          /\ ses'[x].from <= ses'[x].down
          /\ ses'[x].run \in {ses[x].run, None} \/ (ses'[x].run = r /\ enc[r].st # "none")
    BY DEF Throttled, Accounted, Demanded
  <2>4. \A e \in Requests :
          /\ enc[e].st # "none" => enc'[e].st # "none"
          /\ e # r /\ req[e].pc = "starting" => enc'[e].st # "paused"
    BY DEF Throttled, Accounted, Launched
  <2>5. req'[r].pc = "settling" =>
          \/ req[r].pc \in {"settling", "starting"}
          \/ \E x \in Requests : enc[x].st # "none" /\ KeyOf(x) = k
    BY <1>1, FileHasEncoder
  <2>6. /\ ses'[s].key = k /\ ses'[s].down >= ses[s].down
        /\ \A kk \in Keys : \A f \in disk'[kk].files : \E g \in disk[kk].files : g.by = f.by
        /\ sessions' = sessions
    BY <1>1, <1>2, <2>1
  <2> HIDE DEF s, n, k
  <2> QED BY <2>1, <2>2, <2>3, <2>4, <2>5, <2>6 DEF Moves
<1>4. \A e \in Requests :
        /\ enc[e].st \notin Running /\ Alone(e)' => Sound(e)'
        /\ enc[e].st \in Running /\ enc'[e].st \in Running =>
             /\ enc'[e].at = enc[e].at /\ enc'[e].open = enc[e].open
             /\ ses'[req[e].s].from = ses[req[e].s].from
        /\ Alone(e) /\ Alone(e)' =>
             /\ disk'[KeyOf(e)].files = disk[KeyOf(e)].files
             /\ disk'[KeyOf(e)].newer = disk[KeyOf(e)].newer
        /\ /\ Alone(e) /\ Alone(e)' /\ req[e].s = s /\ sessions[k] = s
           /\ req'[r].pc \in {"settling", "starting"}
           /\ req[r].pc \notin {"settling", "starting"}
           => Coming(n, disk[k], enc[e], ses[s])
        /\ Alone(e) /\ enc'[e].st = "paused" =>
             \/ enc[e].st = "paused" /\ ses'[req[e].s].down = ses[req[e].s].down
             \/ enc[e].open /\ enc[e].at + 1 - ses'[req[e].s].down >= Gap
  <2> SUFFICES ASSUME NEW e \in Requests
      PROVE
        /\ enc[e].st \notin Running /\ Alone(e)' => Sound(e)'
        /\ enc[e].st \in Running /\ enc'[e].st \in Running =>
             /\ enc'[e].at = enc[e].at /\ enc'[e].open = enc[e].open
             /\ ses'[req[e].s].from = ses[req[e].s].from
        /\ Alone(e) /\ Alone(e)' =>
             /\ disk'[KeyOf(e)].files = disk[KeyOf(e)].files
             /\ disk'[KeyOf(e)].newer = disk[KeyOf(e)].newer
        /\ /\ Alone(e) /\ Alone(e)' /\ req[e].s = s /\ sessions[k] = s
           /\ req'[r].pc \in {"settling", "starting"}
           /\ req[r].pc \notin {"settling", "starting"}
           => Coming(n, disk[k], enc[e], ses[s])
        /\ Alone(e) /\ enc'[e].st = "paused" =>
             \/ enc[e].st = "paused" /\ ses'[req[e].s].down = ses[req[e].s].down
             \/ enc[e].open /\ enc[e].at + 1 - ses'[req[e].s].down >= Gap
    OBVIOUS
  <2>1. enc[e].st \in Running => req[e].s \in Requests
    BY RunningHasSession DEF Throttled, Accounted
  <2>2. ~(enc[e].st \notin Running /\ Alone(e)')
    BY DEF Alone
  <2>3. req'[r].pc \notin {"starting"}
    BY DEF Outcomes
  <2>4. /\ req'[r].pc \in {"settling", "starting"}
        /\ req[r].pc \notin {"settling", "starting"}
        => Coming(n, disk[k], enc[e], ses[s])
    BY <1>1, <2>3 DEF Coming
  <2>5. Alone(e) => enc[e].st \in Running
    BY DEF Alone
  <2> HIDE DEF s, n, k
  <2> QED BY <2>1, <2>2, <2>4, <2>5
<1> QED BY <1>1, <1>3, <1>4, MovesKeepThrottled

LEMMA StartedKeepsThrottled ==
  ASSUME IInv, IInv', Throttled, NEW r \in Requests, Started(r)
  PROVE  Throttled'
<1>1. /\ req[r].pc = "starting" /\ req[r].s \in Requests /\ enc[r].st # "none"
      /\ UNCHANGED <<sessions, enc, disk>>
  BY RequestHasKey DEF Started, Throttled, Accounted, Launched
<1>2. /\ req'[r].pc = "settling" /\ req'[r].s = req[r].s /\ req'[r].n = req[r].n
      /\ \A q \in Requests : q # r => req'[q] = req[q]
  BY DEF Started, IInv, TypeOK, Request
<1>3. \A x \in Requests :
        /\ ses'[x].key = ses[x].key /\ ses'[x].down = ses[x].down
        /\ ses'[x].from = ses[x].from
        /\ ses'[x].run = ses[x].run \/ ses'[x].run = r
  <2>1. PICK s \in Requests : ses' = [ses EXCEPT ![s].run = r, ![s].lock = None]
    BY <1>1 DEF Started
  <2>2. DOMAIN ses = Requests /\ DOMAIN ses[s] = {"key", "run", "lock", "fresh", "down", "from"}
    BY DEF IInv, TypeOK, Session
  <2>3. ses' = [ses EXCEPT ![s] = [ses[s] EXCEPT !.run = r, !.lock = None]]
    BY <2>1, <2>2
  <2> QED BY <2>2, <2>3
<1> QED BY <1>1, <1>2, <1>3, GoingOnKeepsThrottled DEF Waiting, InBegin, Outcomes

LEMMA SettledKeepsThrottled ==
  ASSUME IInv, IInv', Throttled, NEW r \in Requests,
         SettledWhileProducing(r) \/ SettledAfterProduction(r) \/ Reaped(r)
  PROVE  Throttled'
<1>1. /\ req[r].pc \in {"settling", "reaping"} /\ UNCHANGED <<sessions, enc, disk>>
  BY DEF SettledWhileProducing, SettledAfterProduction, Reaped
<1>2. \A d, n : Outcome(d, n) \in Outcomes
  BY DEF Outcome, Outcomes
<1>3. /\ req'[r].pc \in {"reaping"} \union Outcomes
      /\ req'[r].s = req[r].s /\ req'[r].n = req[r].n
      /\ \A q \in Requests : q # r => req'[q] = req[q]
  <2>1. DOMAIN req[r] = {"pc", "s", "n", "e", "saw"} /\ DOMAIN req = Requests
    BY DEF IInv, TypeOK, Request
  <2>2. CASE SettledWhileProducing(r)
    BY <1>2, <2>1, <2>2 DEF SettledWhileProducing
  <2>3. CASE SettledAfterProduction(r)
    <3> DEFINE d == Dir(req[r].s)
    <3>1. CASE ses[req[r].s].run = None
      <4> DEFINE pc == IF Exists(d, req[r].n) THEN Outcome(d, req[r].n) ELSE "failed"
      <4>1. pc \in Outcomes
        BY <1>2 DEF Outcomes
      <4>2. req' = [req EXCEPT ![r].pc = pc]
        BY <2>3, <3>1 DEF SettledAfterProduction
      <4> HIDE DEF pc
      <4> QED BY <2>1, <4>1, <4>2
    <3>2. CASE ses[req[r].s].run # None
      <4> DEFINE saw == Exists(d, req[r].n)
      <4>1. req' = [req EXCEPT ![r].pc = "reaping", ![r].e = ses[req[r].s].run,
                               ![r].saw = saw]
        BY <2>3, <3>2 DEF SettledAfterProduction
      <4> HIDE DEF saw
      <4> QED BY <2>1, <4>1
    <3> QED BY <3>1, <3>2
  <2>4. CASE Reaped(r)
    <3>1. PICK pc \in Outcomes :
            req' = [req EXCEPT ![r].pc = pc, ![r].e = None, ![r].saw = FALSE]
      BY <1>2, <2>4 DEF Reaped, Outcomes
    <3> QED BY <2>1, <3>1
  <2> QED BY <2>2, <2>3, <2>4
<1>4. \A x \in Requests :
        /\ ses'[x].key = ses[x].key /\ ses'[x].down = ses[x].down
        /\ ses'[x].from = ses[x].from
        /\ ses'[x].run \in {ses[x].run, None}
  <2>1. ses' = ses \/ \E s \in Requests : ses' = [ses EXCEPT ![s].run = None]
    BY <1>1, RequestHasKey DEF SettledWhileProducing, SettledAfterProduction, Reaped
  <2> QED BY <2>1 DEF IInv, TypeOK, Session
<1> QED BY <1>1, <1>3, <1>4, GoingOnKeepsThrottled DEF Waiting, InBegin, Outcomes

----------------------------------------------------------------------------
(***************************************************************************)
(* _begin and the throttle.                                                *)
(***************************************************************************)

\* Request r is about to ask session s, under key k, for segment n; S and E are the sessions
\* and the encoders once its position has been noted and the session throttled.
Asks(r, s, n, k, S, E) ==
  /\ req[r].pc \in {"new", "locking", "halting"}
  /\ \/ req[r].pc # "new" /\ req[r].s = s /\ req[r].n = n /\ ses[s].key = k
     \/ req[r].pc = "new" /\ sessions[k] = s
     \/ req[r].pc = "new" /\ s = r
  /\ \A kk \in Keys : \/ sessions'[kk] = sessions[kk]
                      \/ req[r].pc = "new" /\ kk = k /\ sessions'[kk] = s
  /\ S \in [Requests -> Session] /\ E \in [Requests -> Encoder]
  /\ S[s].key = k /\ S[s].down >= ses[s].down /\ n + 1 <= S[s].down
  /\ \A x \in Requests :
       /\ x # s => S[x].key = ses[x].key /\ S[x].down = ses[x].down
       /\ S[x].from = ses[x].from /\ S[x].run = ses[x].run
  /\ \A e \in Requests :
       /\ E[e].at = enc[e].at /\ E[e].open = enc[e].open
       /\ E[e].st \in Running <=> enc[e].st \in Running
       /\ E[e].st = "none" <=> enc[e].st = "none"
       /\ req[e].pc = "starting" => E[e].st # "paused"
       /\ Alone(e) /\ E[e].st = "paused" =>
            enc[e].open /\ enc[e].at + 1 - S[req[e].s].down >= Gap

\* What the request is told to wait for is coming, and somebody has been started to bring it.
Promised(s, n, k) ==
  /\ \E x \in Requests : enc[x].st # "none" /\ KeyOf(x) = k
  /\ \A e \in Requests : Alone(e) /\ req[e].s = s /\ sessions[k] = s =>
       Coming(n, disk[k], enc[e], ses[s])

\* A request that waits, settles for what is coming, or halts the session's encoder.
LEMMA AskingKeepsThrottled ==
  ASSUME IInv, IInv', Throttled, NEW r \in Requests, NEW s \in Requests, NEW n \in Index,
         NEW k \in Keys, NEW S, NEW E, Asks(r, s, n, k, S, E),
         disk' = disk,
         \A q \in Requests : q # r => req'[q] = req[q],
         req'[r].s = s, req'[r].n = n,
         req'[r].pc \in {"locking", "settling", "halting"},
         req'[r].pc = "settling" => Promised(s, n, k),
         req'[r].pc = "halting" =>
           \E e \in Requests : req'[r].e = e /\ enc[e].st # "none" /\ req[e].s = s,
         \A x \in Requests : /\ ses'[x].key = S[x].key /\ ses'[x].down = S[x].down
                             /\ ses'[x].from = S[x].from
                             /\ ses'[x].run \in {S[x].run, None},
         \A e \in Requests :
           /\ enc'[e].at = E[e].at /\ enc'[e].open = E[e].open
           /\ enc'[e].st = E[e].st \/ (enc'[e].st = "gone" /\ E[e].st \in Running)
  PROVE  Throttled'
<1>1. \A x \in Requests : ses[x].down \in Int /\ S[x].down \in Int /\ ses[x].from <= ses[x].down
  BY DEF IInv, TypeOK, Session, Asks, Throttled, Accounted, Demanded
<1>2. \A x \in Requests : ses'[x].from <= ses'[x].down
  <2> SUFFICES ASSUME NEW x \in Requests PROVE S[x].from <= S[x].down
    OBVIOUS
  <2>1. S[x].from = ses[x].from /\ S[x].down >= ses[x].down
    BY <1>1 DEF Asks
  <2>2. S[x].from \in Int
    BY DEF Asks, Session
  <2> QED BY <1>1, <2>1, <2>2
<1>3. Moves(r, s, n, k)
  <2>1. /\ req'[r].pc \notin {"new", "starting"} /\ req'[r].s = s /\ req'[r].n = n
        /\ \A q \in Requests : q # r => req'[q] = req[q]
    OBVIOUS
  <2>2. /\ ses'[s].key = k /\ ses'[s].down >= ses[s].down
        /\ n + 1 <= ses'[s].down
    BY DEF Asks
  <2>3. \A x \in Requests :
          /\ x # s => ses'[x].key = ses[x].key /\ ses'[x].down = ses[x].down
          /\ ses'[x].from <= ses'[x].down
          /\ ses'[x].run \in {ses[x].run, None} \/ (ses'[x].run = r /\ enc[r].st # "none")
    BY <1>2 DEF Asks
  <2>4. \A e \in Requests :
          /\ enc[e].st # "none" => enc'[e].st # "none"
          /\ e # r /\ req[e].pc = "starting" => enc'[e].st # "paused"
    BY DEF Asks
  <2>5. req'[r].pc = "settling" =>
          \/ req[r].pc \in {"settling", "starting"}
          \/ \E x \in Requests : enc[x].st # "none" /\ KeyOf(x) = k
    BY DEF Promised
  <2>6. \A kk \in Keys : \A f \in disk'[kk].files : \E g \in disk[kk].files : g.by = f.by
    OBVIOUS
  <2>7. \A kk \in Keys : \/ sessions'[kk] = sessions[kk]
                         \/ req[r].pc = "new" /\ kk = k /\ sessions'[kk] = s
    BY DEF Asks
  <2>8. \/ req[r].pc # "new" /\ req[r].s = s /\ req[r].n = n /\ ses[s].key = k
        \/ req[r].pc = "new" /\ sessions[k] = s
        \/ req[r].pc = "new" /\ s = r
    BY DEF Asks
  <2> QED BY <2>1, <2>2, <2>3, <2>4, <2>5, <2>6, <2>7, <2>8 DEF Moves
<1>4. ASSUME NEW e \in Requests
      PROVE
        /\ enc[e].st \notin Running /\ Alone(e)' => Sound(e)'
        /\ enc[e].st \in Running /\ enc'[e].st \in Running =>
             /\ enc'[e].at = enc[e].at /\ enc'[e].open = enc[e].open
             /\ ses'[req[e].s].from = ses[req[e].s].from
        /\ Alone(e) /\ Alone(e)' =>
             /\ disk'[KeyOf(e)].files = disk[KeyOf(e)].files
             /\ disk'[KeyOf(e)].newer = disk[KeyOf(e)].newer
        /\ /\ Alone(e) /\ Alone(e)' /\ req[e].s = s /\ sessions[k] = s
           /\ req'[r].pc \in {"settling", "starting"}
           /\ req[r].pc \notin {"settling", "starting"}
           => Coming(n, disk[k], enc[e], ses[s])
        /\ Alone(e) /\ enc'[e].st = "paused" =>
             \/ enc[e].st = "paused" /\ ses'[req[e].s].down = ses[req[e].s].down
             \/ enc[e].open /\ enc[e].at + 1 - ses'[req[e].s].down >= Gap
  <2>1. enc[e].st \in Running => req[e].s \in Requests
    BY RunningHasSession DEF Throttled, Accounted
  <2>2. enc'[e].st \in Running => enc[e].st \in Running
    BY DEF Asks, Running
  <2>3. enc[e].st \notin Running /\ Alone(e)' => Sound(e)'
    BY <2>2 DEF Alone
  <2>4. enc[e].st \in Running /\ enc'[e].st \in Running =>
             /\ enc'[e].at = enc[e].at /\ enc'[e].open = enc[e].open
             /\ ses'[req[e].s].from = ses[req[e].s].from
    BY <2>1 DEF Asks
  <2>5. /\ Alone(e) /\ req[e].s = s /\ sessions[k] = s
        /\ req'[r].pc \in {"settling", "starting"}
        => Coming(n, disk[k], enc[e], ses[s])
    BY DEF Promised
  <2>6. Alone(e) /\ enc'[e].st = "paused" =>
          enc[e].open /\ enc[e].at + 1 - ses'[req[e].s].down >= Gap
    BY <2>1 DEF Asks, Alone
  <2> QED BY <2>3, <2>4, <2>5, <2>6
<1> QED BY <1>3, <1>4, MovesKeepThrottled

\* No encoder runs for a session that points at none and that is not starting one.
LEMMA NoneRunning ==
  ASSUME IInv, Throttled, NEW r \in Requests, req[r].pc # "starting", NEW s \in Requests,
         ses[s].run = None, ses[s].lock \in {r, None},
         NEW e \in Requests, enc[e].st \in Running
  PROVE  req[e].s # s
BY RunningHasSession, NamesAssumption DEF Throttled, Accounted

\* What a launch, successful or not, leaves.
LEMMA LaunchBrings ==
  ASSUME IInv, NEW r \in Requests, NEW s \in Requests, NEW n \in Index, NEW k \in Keys,
         NEW S, NEW E, Asks(r, s, n, k, S, E), NEW d \in Directory,
         Launch(r, s, n, S, E, d)
  PROVE  LET from == IF n < 0 THEN 0 ELSE n
         IN  /\ \A q \in Requests : q # r => req'[q] = req[q] /\ enc'[q] = E[q]
             /\ req'[r].s = s /\ req'[r].n = n
             /\ \/ /\ req'[r].pc = "starting" /\ enc'[r].st = "live" /\ ~enc'[r].open
                   /\ enc'[r].at = IF Fmp4 THEN -1 ELSE from
                \/ req'[r].pc = "failed" /\ enc'[r] = E[r]
             /\ ses'[s].from = from
             /\ \A x \in Requests : /\ ses'[x].key = S[x].key /\ ses'[x].down = S[x].down
                                    /\ ses'[x].run = S[x].run
                                    /\ x # s => ses'[x].from = S[x].from
             /\ disk'[k].files = d.files /\ disk'[k].newer = d.newer
             /\ \A kk \in Keys : kk # k => disk'[kk] = disk[kk]
<1> DEFINE from == IF n < 0 THEN 0 ELSE n
<1>1. /\ S \in [Requests -> Session] /\ E \in [Requests -> Encoder] /\ S[s].key = k
      /\ req \in [Requests -> Request] /\ disk \in [Keys -> Directory]
  BY DEF Asks, IInv, TypeOK
<1>2. /\ disk'[k].files = d.files /\ disk'[k].newer = d.newer
      /\ \A kk \in Keys : kk # k => disk'[kk] = disk[kk]
  <2>1. disk' = [disk EXCEPT ![k] = [d EXCEPT !.made = TRUE]]
    BY <1>1 DEF Launch
  <2>2. [d EXCEPT !.made = TRUE].files = d.files /\ [d EXCEPT !.made = TRUE].newer = d.newer
    BY DEF Directory
  <2> QED BY <1>1, <2>1, <2>2
<1>3. ASSUME NEW l, ses' = [S EXCEPT ![s].from = from, ![s].lock = l]
      PROVE  /\ ses'[s].from = from
             /\ \A x \in Requests : /\ ses'[x].key = S[x].key /\ ses'[x].down = S[x].down
                                    /\ ses'[x].run = S[x].run
                                    /\ x # s => ses'[x].from = S[x].from
  <2> HIDE DEF from
  <2>1. ses' = [S EXCEPT ![s] = [S[s] EXCEPT !.from = from, !.lock = l]]
    BY <1>1, <1>3
  <2>2. DOMAIN S[s] = {"key", "run", "lock", "fresh", "down", "from"}
    BY <1>1 DEF Session
  <2> QED BY <1>1, <2>1, <2>2
<1>4. CASE /\ ses' = [S EXCEPT ![s].from = from, ![s].lock = r]
           /\ enc' = [E EXCEPT ![r] = [st |-> "live", open |-> FALSE,
                                       at |-> IF Fmp4 THEN -1 ELSE from]]
           /\ req' = [req EXCEPT ![r] = [pc |-> "starting", s |-> s, n |-> n,
                                         e |-> None, saw |-> FALSE]]
  <2>1. /\ req'[r].s = s /\ req'[r].n = n /\ req'[r].pc = "starting"
        /\ \A q \in Requests : q # r => req'[q] = req[q] /\ enc'[q] = E[q]
    BY <1>1, <1>4
  <2>2. enc'[r].st = "live" /\ ~enc'[r].open /\ enc'[r].at = IF Fmp4 THEN -1 ELSE from
    BY <1>1, <1>4
  <2> HIDE DEF from
  <2> QED BY <1>2, <1>3, <1>4, <2>1, <2>2 DEF from
<1>5. CASE /\ ses' = [S EXCEPT ![s].from = from, ![s].lock = None]
           /\ enc' = E
           /\ req' = [req EXCEPT ![r] = [pc |-> "failed", s |-> s, n |-> n,
                                         e |-> None, saw |-> FALSE]]
  <2>1. /\ req'[r].s = s /\ req'[r].n = n /\ req'[r].pc = "failed"
        /\ \A q \in Requests : q # r => req'[q] = req[q]
    BY <1>1, <1>5
  <2> HIDE DEF from
  <2> QED BY <1>2, <1>3, <1>5, <2>1 DEF from
<1> QED BY <1>4, <1>5 DEF Launch

\* A launch into a directory that no running encoder has to itself, or that it leaves as it
\* is, starves nobody: what is launched starts at the segment asked for or before it.
LEMMA LaunchKeepsThrottled ==
  ASSUME IInv, IInv', Throttled, NEW r \in Requests, NEW s \in Requests, NEW n \in Index,
         NEW k \in Keys, NEW S, NEW E, Asks(r, s, n, k, S, E),
         ses[s].run = None, ses[s].lock \in {r, None},
         NEW d \in Directory, d.files \subseteq disk[k].files,
         \/ \A e \in Requests : Alone(e) => KeyOf(e) # k
         \/ d.files = disk[k].files /\ d.newer = disk[k].newer,
         Launch(r, s, n, S, E, d)
  PROVE  Throttled'
<1> DEFINE from == IF n < 0 THEN 0 ELSE n
<1>1. /\ \A q \in Requests : q # r => req'[q] = req[q] /\ enc'[q] = E[q]
      /\ req'[r].s = s /\ req'[r].n = n
      /\ \/ /\ req'[r].pc = "starting" /\ enc'[r].st = "live" /\ ~enc'[r].open
            /\ enc'[r].at = IF Fmp4 THEN -1 ELSE from
         \/ req'[r].pc = "failed" /\ enc'[r] = E[r]
      /\ ses'[s].from = from
      /\ \A x \in Requests : /\ ses'[x].key = S[x].key /\ ses'[x].down = S[x].down
                             /\ ses'[x].run = S[x].run
                             /\ x # s => ses'[x].from = S[x].from
      /\ disk'[k].files = d.files /\ disk'[k].newer = d.newer
      /\ \A kk \in Keys : kk # k => disk'[kk] = disk[kk]
  BY LaunchBrings
<1>2. /\ req[r].pc \in {"new", "locking", "halting"} /\ enc[r].st = "none"
  BY DEF Asks, IInv, Order, UnlaunchedHasNoEncoder
<1>3. \A e \in Requests : enc[e].st \in Running =>
        e # r /\ req[e].s \in Requests /\ req[e].s # s
  <2> SUFFICES ASSUME NEW e \in Requests, enc[e].st \in Running
               PROVE  e # r /\ req[e].s \in Requests /\ req[e].s # s
    OBVIOUS
  <2>1. e # r
    BY <1>2 DEF Running
  <2>2. req[e].s \in Requests
    BY RunningHasSession DEF Throttled, Accounted
  <2>3. req[r].pc # "starting"
    BY <1>2
  <2> QED BY <2>1, <2>2, <2>3, NoneRunning
<1>4. /\ from \in Int /\ from <= n + 1 /\ n \in Int /\ n >= -1
      /\ (n < 0 => Fmp4) /\ (n >= 0 => from = n)
  BY NumbersAssumption DEF Index, First
<1>5. \A x \in Requests : ses[x].down \in Int /\ S[x].down \in Int /\ ses[x].from <= ses[x].down
                          /\ S[x].from \in Int
  BY DEF IInv, TypeOK, Session, Asks, Throttled, Accounted, Demanded
<1> HIDE DEF from
<1>6. \A x \in Requests : ses'[x].from <= ses'[x].down
  <2> SUFFICES ASSUME NEW x \in Requests PROVE ses'[x].from <= ses'[x].down
    OBVIOUS
  <2>1. CASE x = s
    <3>1. n + 1 <= S[s].down
      BY DEF Asks
    <3> QED BY <1>1, <1>4, <1>5, <2>1, <3>1
  <2>2. CASE x # s
    <3>1. S[x].down = ses[x].down /\ S[x].from = ses[x].from
      BY <2>2 DEF Asks
    <3> QED BY <1>1, <1>5, <2>2, <3>1
  <2> QED BY <2>1, <2>2
<1>7. Moves(r, s, n, k)
  <2>1. /\ req'[r].pc \notin {"new", "halting", "settling"} /\ req'[r].s = s /\ req'[r].n = n
        /\ \A q \in Requests : q # r => req'[q] = req[q]
    BY <1>1
  <2>2. /\ ses'[s].key = k /\ ses'[s].down >= ses[s].down
        /\ n + 1 <= ses'[s].down
    BY <1>1 DEF Asks
  <2>3. \A x \in Requests :
          /\ x # s => ses'[x].key = ses[x].key /\ ses'[x].down = ses[x].down
          /\ ses'[x].from <= ses'[x].down
          /\ ses'[x].run \in {ses[x].run, None} \/ (ses'[x].run = r /\ enc[r].st # "none")
    BY <1>1, <1>6 DEF Asks
  <2>4. \A e \in Requests :
          /\ enc[e].st # "none" => enc'[e].st # "none"
          /\ e # r /\ req[e].pc = "starting" => enc'[e].st # "paused"
    BY <1>1, <1>2 DEF Asks
  <2>5. req'[r].pc = "starting" => enc'[r].st \notin {"none", "paused"}
    BY <1>1
  <2>6. \A kk \in Keys : \A f \in disk'[kk].files : \E g \in disk[kk].files : g.by = f.by
    BY <1>1
  <2>7. \A kk \in Keys : \/ sessions'[kk] = sessions[kk]
                         \/ req[r].pc = "new" /\ kk = k /\ sessions'[kk] = s
    BY DEF Asks
  <2>8. \/ req[r].pc # "new" /\ req[r].s = s /\ req[r].n = n /\ ses[s].key = k
        \/ req[r].pc = "new" /\ sessions[k] = s
        \/ req[r].pc = "new" /\ s = r
    BY DEF Asks
  <2> QED BY <2>1, <2>2, <2>3, <2>4, <2>5, <2>6, <2>7, <2>8 DEF Moves
<1>8. Persists /\ Accounted'
  BY <1>7, MovesKeepAccounts DEF Throttled
<1>9. ASSUME req'[r].pc = "starting", Alone(r)' PROVE Sound(r)'
  <2>1. KeyOf(r)' = k /\ EncDir(r)' = disk'[k]
    BY <1>1 DEF KeyOf, EncDir, Asks
  <2>2. ASSUME NEW x \in Requests, enc[x].st # "none", KeyOf(x) = k PROVE FALSE
    <3>1. x # r /\ req[x].pc # "new"
      BY <1>2, <2>2 DEF IInv, Order, UnlaunchedHasNoEncoder
    <3>2. KeyOf(x)' = k /\ enc'[x].st # "none"
      BY <1>8, <2>2, <3>1 DEF Persists, KeyOf
    <3> QED BY <1>9, <2>1, <3>1, <3>2 DEF Alone, FirstEncoder, KeyOf
  <2>3. disk'[k].files = {}
    <3> SUFFICES ASSUME NEW f \in disk'[k].files PROVE FALSE
      OBVIOUS
    <3>1. f \in disk[k].files
      BY <1>1
    <3>2. f.by \in Requests /\ enc[f.by].st # "none" /\ KeyOf(f.by) = k
      BY <3>1 DEF IInv, TypeOK, Directory, File, Throttled, Accounted, FilesHaveWriters
    <3> QED BY <2>2, <3>2
  <2>4. /\ enc'[r].st = "live" /\ ~enc'[r].open
        /\ enc'[r].at = -1 \/ enc'[r].at = from
        /\ enc'[r].at <= n
    BY <1>1, <1>4, <1>9
  <2>5. ASSUME NEW q \in Requests, req'[q].pc \in {"settling", "starting"}, req'[q].s = s
        PROVE  q = r
    <3> SUFFICES ASSUME q # r PROVE FALSE
      OBVIOUS
    <3>1. req'[q] = req[q] /\ req[q].pc \in {"settling", "starting"}
      BY <1>1, <2>5
    <3>2. KeyOf(q) = k
      BY <1>1, <1>8, <2>5, <3>1 DEF Persists, KeyOf, Asks
    <3>3. CASE req[q].pc = "settling"
      BY <2>2, <3>2, <3>3 DEF Throttled, Accounted, WaitsHaveEncoders
    <3>4. CASE req[q].pc = "starting"
      BY <2>2, <3>2, <3>4 DEF Throttled, Accounted, Launched
    <3> QED BY <3>1, <3>3, <3>4
  <2>6. Own(disk'[k], enc'[r], ses'[s])
    BY <1>1, <1>4, <2>3, <2>4 DEF Own
  <2>7. Kept(disk'[k], enc'[r], ses'[s])
    BY <2>4 DEF Kept
  <2>8. Coming(n, disk'[k], enc'[r], ses'[s])
    BY <2>4 DEF Coming
  <2> QED BY <1>1, <2>1, <2>4, <2>5, <2>6, <2>7, <2>8 DEF Sound
<1>10. ASSUME NEW e \in Requests
      PROVE
        /\ enc[e].st \notin Running /\ Alone(e)' => Sound(e)'
        /\ enc[e].st \in Running /\ enc'[e].st \in Running =>
             /\ enc'[e].at = enc[e].at /\ enc'[e].open = enc[e].open
             /\ ses'[req[e].s].from = ses[req[e].s].from
        /\ Alone(e) /\ Alone(e)' =>
             /\ disk'[KeyOf(e)].files = disk[KeyOf(e)].files
             /\ disk'[KeyOf(e)].newer = disk[KeyOf(e)].newer
        /\ /\ Alone(e) /\ Alone(e)' /\ req[e].s = s /\ sessions[k] = s
           /\ req'[r].pc \in {"settling", "starting"}
           /\ req[r].pc \notin {"settling", "starting"}
           => Coming(n, disk[k], enc[e], ses[s])
        /\ Alone(e) /\ enc'[e].st = "paused" =>
             \/ enc[e].st = "paused" /\ ses'[req[e].s].down = ses[req[e].s].down
             \/ enc[e].open /\ enc[e].at + 1 - ses'[req[e].s].down >= Gap
  <2>1. enc[e].st \notin Running /\ Alone(e)' => Sound(e)'
    <3>1. CASE e = r
      BY <1>1, <1>2, <1>9, <3>1 DEF Alone, Asks, Running
    <3>2. CASE e # r
      BY <1>1, <3>2 DEF Alone, Asks
    <3> QED BY <3>1, <3>2
  <2>2. enc[e].st \in Running =>
             /\ enc'[e].at = enc[e].at /\ enc'[e].open = enc[e].open
             /\ ses'[req[e].s].from = ses[req[e].s].from
    BY <1>1, <1>3 DEF Asks
  <2>3. Alone(e) => enc[e].st \in Running /\ KeyOf(e) \in Keys
    BY RunningHasSession DEF Alone, Throttled, Accounted
  <2>4. Alone(e) => /\ disk'[KeyOf(e)].files = disk[KeyOf(e)].files
                    /\ disk'[KeyOf(e)].newer = disk[KeyOf(e)].newer
    BY <1>1, <2>3
  <2>5. ~(Alone(e) /\ req[e].s = s)
    BY <1>3, <2>3
  <2>6. Alone(e) /\ enc'[e].st = "paused" =>
          enc[e].open /\ enc[e].at + 1 - ses'[req[e].s].down >= Gap
    BY <1>1, <1>3, <2>3 DEF Asks
  <2> QED BY <2>1, <2>2, <2>4, <2>5, <2>6
<1> QED BY <1>7, <1>10, MovesKeepThrottled

\* A request that finds the segment missing and the lock free starves nobody: if it settles
\* for the encoder there is, that encoder is before the segment and on its way.
LEMMA BeginKeepsThrottled ==
  ASSUME IInv, IInv', Throttled, NEW r \in Requests, NEW s \in Requests, NEW n \in Index,
         NEW k \in Keys, NEW S, NEW E, Asks(r, s, n, k, S, E),
         req[r].pc \in {"new", "locking"}, Unlocked(s), ~Exists(disk[k], n),
         Begin(r, s, n, S, E)
  PROVE  Throttled'
<1> DEFINE current == ProducingIndex(s)
           old == ses[s].run
<1>1. /\ S \in [Requests -> Session] /\ E \in [Requests -> Encoder] /\ S[s].key = k
      /\ req \in [Requests -> Request] /\ disk[k] \in Directory
      /\ ses[s].lock = None
  BY DEF Asks, IInv, TypeOK, Unlocked
<1>2. old # None => /\ old \in Requests /\ enc[old].st # "none" /\ req[old].s = s
                    /\ KeyOf(old) = k /\ ses[s].key = k
  <2> SUFFICES ASSUME old # None
               PROVE  /\ old \in Requests /\ enc[old].st # "none" /\ req[old].s = s
                      /\ KeyOf(old) = k /\ ses[s].key = k
    OBVIOUS
  <2>1. /\ old \in Requests /\ req[old].s = s /\ req[old].pc # "new"
        /\ enc[old].st # "none"
    BY DEF IInv, TypeOK, Session, Order, RunIsRecorded, Throttled, Accounted, Launched
  <2>2. ~(req[r].pc = "new" /\ s = r)
    BY <2>1 DEF Throttled, Accounted, Keyed
  <2>3. ses[s].key = k
    BY <2>2 DEF Asks, Throttled, Accounted, Keyed
  <2> QED BY <2>1, <2>3 DEF KeyOf
<1>3. CASE ~Restarts(n, current)
  <2>1. /\ ses' = S /\ enc' = E /\ disk' = disk
        /\ req' = [req EXCEPT ![r] = [pc |-> "settling", s |-> s, n |-> n,
                                      e |-> None, saw |-> FALSE]]
    BY <1>3 DEF Begin
  <2>2. /\ req'[r].s = s /\ req'[r].n = n /\ req'[r].pc = "settling"
        /\ \A q \in Requests : q # r => req'[q] = req[q]
    BY <1>1, <2>1
  <2>3. n # -1 /\ current # NoIndex /\ ~(n < current)
    BY <1>3 DEF Restarts
  <2>4. old # None /\ Newest(Dir(s)) = current
    BY <2>3 DEF ProducingIndex, Producing
  <2>5. Dir(s) = disk[k] /\ \E x \in Requests : enc[x].st # "none" /\ KeyOf(x) = k
    BY <1>2, <2>4 DEF Dir
  <2>6. ASSUME NEW e \in Requests, Alone(e), req[e].s = s, sessions[k] = s
        PROVE  Coming(n, disk[k], enc[e], ses[s])
    <3>1. enc[e].st \in Running /\ enc[e] \in Encoder /\ ses[s] \in Session
      BY <2>6 DEF Alone, IInv, TypeOK
    <3>2. ses[s].key = k
      BY <1>2, <2>4
    <3>3. /\ Own(disk[k], enc[e], ses[s])
          /\ Kept(disk[k], enc[e], ses[s])
      BY <2>6, <3>2 DEF Throttled, Sound, EncDir, Reachable, KeyOf
    <3>4. /\ n \in Int /\ n >= 0 /\ enc[e].at \in Int /\ enc[e].at >= -1
          /\ ses[s].down \in Nat /\ Keep \in Nat
      BY <2>3, <3>1, NumbersAssumption DEF Index, First, Encoder, Session
    <3>5. CASE Exists(disk[k], enc[e].at)
      <4>1. current = enc[e].at
        BY <1>1, <2>4, <2>5, <3>1, <3>3, <3>5, NewestOfOwn
      <4>2. enc[e].at < n
        <5>1. enc[e].at # n
          BY <3>5
        <5> QED BY <2>3, <3>4, <4>1, <5>1
      <4> QED BY <3>4, <4>2 DEF Coming
    <3>6. CASE ~Exists(disk[k], enc[e].at)
      <4>1. disk[k].files # {}
        BY <2>3, <2>4, <2>5 DEF Newest
      <4>2. enc[e].open
        BY <3>3, <4>1 DEF Own
      <4>3. Deleted(enc[e].at, ses[s])
        BY <3>3, <3>6, <4>2 DEF Kept
      <4>4. CASE n <= enc[e].at
        BY <3>4, <4>3, <4>4 DEF Deleted, Coming
      <4>5. CASE enc[e].at < n
        BY <3>4, <4>5 DEF Coming
      <4> QED BY <3>4, <4>4, <4>5
    <3> QED BY <3>5, <3>6
  <2>7. Promised(s, n, k)
    BY <2>5, <2>6 DEF Promised
  <2> QED BY <2>1, <2>2, <2>7, AskingKeepsThrottled
<1>4. CASE Restarts(n, current) /\ old = None
  <2>1. Launch(r, s, n, S, E, disk[k])
    BY <1>1, <1>4 DEF Begin, Halted
  <2> QED BY <1>1, <1>4, <2>1, LaunchKeepsThrottled
<1>5. CASE Restarts(n, current) /\ old # None
  <2>1. /\ ses' = [S EXCEPT ![s].lock = r, ![s].run = None]
        /\ enc' = Kill(E, old) /\ disk' = disk
        /\ req' = [req EXCEPT ![r] = [pc |-> "halting", s |-> s, n |-> n,
                                      e |-> old, saw |-> current # NoIndex]]
    BY <1>5 DEF Begin, Halted
  <2>2. /\ req'[r].s = s /\ req'[r].n = n /\ req'[r].pc = "halting" /\ req'[r].e = old
        /\ \A q \in Requests : q # r => req'[q] = req[q]
    BY <1>1, <2>1
  <2>3. \A x \in Requests : /\ ses'[x].key = S[x].key /\ ses'[x].down = S[x].down
                            /\ ses'[x].from = S[x].from
                            /\ ses'[x].run \in {S[x].run, None}
    <3>1. DOMAIN S[s] = {"key", "run", "lock", "fresh", "down", "from"}
      BY <1>1 DEF Session
    <3>2. ses' = [S EXCEPT ![s] = [S[s] EXCEPT !.lock = r, !.run = None]]
      BY <1>1, <2>1
    <3> QED BY <1>1, <3>1, <3>2
  <2>4. \A e \in Requests :
           /\ enc'[e].at = E[e].at /\ enc'[e].open = E[e].open
           /\ enc'[e].st = E[e].st \/ (enc'[e].st = "gone" /\ E[e].st \in Running)
    BY <1>1, <2>1, KillFields
  <2>5. \E e \in Requests : req'[r].e = e /\ enc[e].st # "none" /\ req[e].s = s
    BY <1>2, <1>5, <2>2
  <2> HIDE DEF old, current
  <2> QED BY <2>1, <2>2, <2>3, <2>4, <2>5, AskingKeepsThrottled
<1> QED BY <1>3, <1>4, <1>5

\* _segment: a request comes in.
LEMMA SegmentKeepsThrottled ==
  ASSUME IInv, IInv', Throttled, NEW r \in Requests, Segment(r)
  PROVE  Throttled'
<1>1. PICK k \in Keys, n \in Index :
       LET s == IF sessions[k] = None THEN r ELSE sessions[k]
           S == [ses EXCEPT ![s].key = k, ![s].fresh = TRUE,
                            ![s].down = Furthest(s, n)]
           E == Throttle(S, {s})
           free == /\ Unlocked(s)
                   /\ \A q \in Requests :
                        req[q].pc = "locking" => req[q].s # s
       IN  /\ sessions' = [sessions EXCEPT ![k] = s]
           /\ IF Exists(disk[k], n) \/ ~free
              THEN /\ ses' = S /\ enc' = E
                   /\ req' = [req EXCEPT ![r] =
                        [pc |-> IF Exists(disk[k], n) THEN "settling"
                                                      ELSE "locking",
                         s |-> s, n |-> n, e |-> None, saw |-> FALSE]]
                   /\ UNCHANGED <<ledger, disk>>
              ELSE Begin(r, s, n, S, E)
  BY DEF Segment
<1> DEFINE s == IF sessions[k] = None THEN r ELSE sessions[k]
           S == [ses EXCEPT ![s].key = k, ![s].fresh = TRUE, ![s].down = Furthest(s, n)]
           E == Throttle(S, {s})
<1>2. /\ req[r].pc = "new" /\ s \in Requests /\ (sessions[k] = s \/ s = r)
      /\ sessions' = [sessions EXCEPT ![k] = s]
      /\ sessions \in [Keys -> Requests \union {None}]
      /\ ses \in [Requests -> Session] /\ req \in [Requests -> Request]
  BY <1>1 DEF Segment, IInv, TypeOK
<1>3. /\ n \in Int /\ n + 1 <= LastIndex + 1 /\ n + 1 \in Nat
      /\ \A x \in Requests : ses[x].down \in 0 .. LastIndex + 1
      /\ Furthest(s, n) \in 0 .. LastIndex + 1
      /\ Furthest(s, n) >= ses[s].down /\ n + 1 <= Furthest(s, n)
  BY <1>2, NumbersAssumption DEF Index, First, Session, Furthest
<1>4. /\ S \in [Requests -> Session]
      /\ S[s].key = k /\ S[s].down = Furthest(s, n)
      /\ \A x \in Requests :
           /\ x # s => S[x].key = ses[x].key /\ S[x].down = ses[x].down
           /\ S[x].from = ses[x].from /\ S[x].run = ses[x].run
  <2> DEFINE T == [ses[s] EXCEPT !.key = k, !.fresh = TRUE, !.down = Furthest(s, n)]
  <2> HIDE DEF s
  <2>1. S = [ses EXCEPT ![s] = T]
    BY <1>2
  <2>2. /\ T \in Session /\ T.key = k /\ T.down = Furthest(s, n)
        /\ T.from = ses[s].from /\ T.run = ses[s].run
    BY <1>2, <1>3 DEF Session
  <2> HIDE DEF T, S
  <2> QED BY <1>2, <2>1, <2>2
<1>5. \/ /\ Exists(disk[k], n) \/ ~(Unlocked(s) /\ \A q \in Requests :
                                       req[q].pc = "locking" => req[q].s # s)
         /\ ses' = S /\ enc' = E /\ disk' = disk
         /\ req' = [req EXCEPT ![r] =
                      [pc |-> IF Exists(disk[k], n) THEN "settling" ELSE "locking",
                       s |-> s, n |-> n, e |-> None, saw |-> FALSE]]
      \/ Unlocked(s) /\ ~Exists(disk[k], n) /\ Begin(r, s, n, S, E)
  BY <1>1
<1> HIDE DEF S
<1>6. ASSUME NEW e \in Requests
      PROVE  /\ E[e].at = enc[e].at /\ E[e].open = enc[e].open
             /\ E[e].st = enc[e].st \/ enc[e].st \in Running
             /\ req[e].pc = "starting" => E[e] = enc[e]
             /\ Alone(e) /\ E[e].st = "paused" =>
                  enc[e].open /\ enc[e].at + 1 - S[req[e].s].down >= Gap
  <2>1. \A x \in Requests : /\ S[x].run = ses[x].run
                            /\ S[x].down \in Nat /\ S[x].down >= ses[x].down
                            /\ x \notin {s} => S[x].down = ses[x].down
    <3> HIDE DEF s
    <3>1. \A x \in Requests : ses[x].down \in Nat
      BY <1>3
    <3>2. S[s].down \in Nat /\ S[s].down >= ses[s].down
      BY <1>3, <1>4
    <3> QED BY <1>4, <3>1, <3>2
  <2> HIDE DEF s
  <2> QED BY <2>1, ThrottleWantsLead
<1>7. SameRunning(E)
  BY ThrottleSignalsOnly DEF IInv
<1> HIDE DEF E, s
<1>8. Asks(r, s, n, k, S, E)
  <2>1. \A kk \in Keys : sessions'[kk] = sessions[kk] \/ (kk = k /\ sessions'[kk] = s)
    BY <1>2
  <2>2. \A e \in Requests :
          /\ E[e].st \in Running <=> enc[e].st \in Running
          /\ E[e].st = "none" <=> enc[e].st = "none"
    BY <1>7 DEF SameRunning
  <2>3. \A e \in Requests : req[e].pc = "starting" => E[e].st # "paused"
    BY <1>6 DEF Throttled, Accounted, Launched
  <2> QED BY <1>2, <1>3, <1>4, <1>6, <1>7, <2>1, <2>2, <2>3 DEF Asks, SameRunning
<1>9. CASE Unlocked(s) /\ ~Exists(disk[k], n) /\ Begin(r, s, n, S, E)
  BY <1>2, <1>8, <1>9, BeginKeepsThrottled
<1>10. CASE /\ ses' = S /\ enc' = E /\ disk' = disk
            /\ req' = [req EXCEPT ![r] =
                         [pc |-> IF Exists(disk[k], n) THEN "settling" ELSE "locking",
                          s |-> s, n |-> n, e |-> None, saw |-> FALSE]]
  <2>1. /\ req'[r].s = s /\ req'[r].n = n
        /\ req'[r].pc = IF Exists(disk[k], n) THEN "settling" ELSE "locking"
        /\ \A q \in Requests : q # r => req'[q] = req[q]
    BY <1>2, <1>10
  <2>2. Exists(disk[k], n) => Promised(s, n, k)
    BY FileHasEncoder DEF Promised, Coming
  <2>3. req'[r].pc \in {"locking", "settling", "halting"}
    BY <2>1
  <2>4. req'[r].pc = "settling" => Promised(s, n, k)
    BY <2>1, <2>2
  <2>5. req'[r].pc # "halting"
    BY <2>1
  <2> QED BY <1>2, <1>8, <1>10, <2>1, <2>3, <2>4, <2>5, AskingKeepsThrottled
<1> QED BY <1>5, <1>9, <1>10

\* A request that is in the lock's way asks with the sessions and the encoders as they are.
LEMMA AsksAsItIs ==
  ASSUME IInv, Throttled, NEW r \in Requests, req[r].pc \in {"locking", "halting"},
         UNCHANGED sessions
  PROVE  Asks(r, req[r].s, req[r].n, KeyOf(r), ses, enc)
<1>1. req[r].s \in Requests
  BY RequestHasKey
<1>2. req[r].n + 1 <= ses[req[r].s].down
  BY DEF Throttled, Accounted, Demanded, Waiting, InBegin
<1>3. \A x \in Requests : ses[x].down \in Int
  BY DEF IInv, TypeOK, Session
<1>4. \A e \in Requests : Alone(e) /\ enc[e].st = "paused" =>
        enc[e].open /\ enc[e].at + 1 - ses[req[e].s].down >= Gap
  BY DEF Throttled, Sound
<1>5. \A e \in Requests : req[e].pc = "starting" => enc[e].st # "paused"
  BY DEF Throttled, Accounted, Launched
<1> QED BY <1>1, <1>2, <1>3, <1>4, <1>5 DEF Asks, KeyOf, IInv, TypeOK

\* _segment, with the lock: a request looks again.
LEMMA EnterKeepsThrottled ==
  ASSUME IInv, IInv', Throttled, NEW r \in Requests, Enter(r)
  PROVE  Throttled'
<1> DEFINE s == req[r].s
           n == req[r].n
           k == KeyOf(r)
<1>1. req[r].pc = "locking" /\ Unlocked(s) /\ UNCHANGED sessions
  BY DEF Enter
<1>2. s \in Requests /\ n \in Index /\ k \in Keys /\ Dir(s) = disk[k]
  BY <1>1, RequestHasKey
<1>3. CASE Exists(Dir(s), n)
  <2>1. req' = [req EXCEPT ![r].pc = "settling"] /\ UNCHANGED <<sessions, ses, enc, disk>>
    BY <1>3 DEF Enter
  <2>2. /\ req'[r].pc = "settling" /\ req'[r].s = s /\ req'[r].n = n
        /\ \A q \in Requests : q # r => req'[q] = req[q]
    BY <2>1 DEF IInv, TypeOK, Request
  <2> QED BY <1>1, <1>3, <2>1, <2>2, GoingOnKeepsThrottled DEF Waiting
<1>4. CASE ~Exists(Dir(s), n)
  <2>1. Begin(r, s, n, ses, enc)
    BY <1>4 DEF Enter
  <2>2. Asks(r, s, n, k, ses, enc)
    BY <1>1, AsksAsItIs
  <2>3. ~Exists(disk[k], n)
    BY <1>2, <1>4
  <2> HIDE DEF s, n, k
  <2> QED BY <1>1, <1>2, <2>1, <2>2, <2>3, BeginKeepsThrottled
<1> QED BY <1>3, <1>4

\* _begin after its first await: whatever file is deleted there, no running encoder has that
\* directory to itself, because the one that was halted has been launched in it too.
LEMMA SpawnKeepsThrottled ==
  ASSUME IInv, IInv', Throttled, NEW r \in Requests, Spawn(r)
  PROVE  Throttled'
<1> DEFINE s == req[r].s
           n == req[r].n
           k == KeyOf(r)
           d == IF req[r].saw THEN Unlink(Dir(s), {Newest(Dir(s))}) ELSE Dir(s)
<1>1. req[r].pc = "halting" /\ Finished(req[r].e) /\ UNCHANGED sessions
  BY DEF Spawn
<1>2. s \in Requests /\ n \in Index /\ k \in Keys /\ Dir(s) = disk[k]
  BY <1>1, RequestHasKey
<1>3. Launch(r, s, n, ses, enc, d)
  BY DEF Spawn
<1>4. ses[s].lock = r /\ ses[s].run = None
  BY <1>1, <1>2, NamesAssumption DEF IInv, Order, LockIsHeldInBegin, LockedHasNoEncoder, InBegin
<1>5. disk[k] \in Directory
  BY <1>2 DEF IInv, TypeOK
<1>6. d \in Directory /\ d.files \subseteq disk[k].files
  <2>1. \A R : Unlink(disk[k], R) \in Directory /\ Unlink(disk[k], R).files \subseteq disk[k].files
    BY <1>5, UnlinkFields DEF Unlink, Directory
  <2> QED BY <1>2, <1>5, <2>1
<1>7. \A e \in Requests : Alone(e) => KeyOf(e) # k
  <2> SUFFICES ASSUME NEW e \in Requests, Alone(e), KeyOf(e) = k PROVE FALSE
    OBVIOUS
  <2>1. PICK old \in Requests : /\ old = req[r].e /\ enc[old].st # "none"
                                /\ req[old].s = s
    BY <1>1 DEF Throttled, Accounted, Launched
  <2>2. old = e
    BY <2>1 DEF Alone, FirstEncoder, KeyOf
  <2>3. enc[old].st = "reaped"
    BY <1>1, <2>1, NamesAssumption DEF Finished
  <2> QED BY <2>2, <2>3 DEF Alone, Running
<1>8. Asks(r, s, n, k, ses, enc)
  BY <1>1, AsksAsItIs
<1> HIDE DEF s, n, k, d
<1> QED BY <1>2, <1>3, <1>4, <1>6, <1>7, <1>8, LaunchKeepsThrottled

LEMMA InitThrottled == Init => Throttled
<1> SUFFICES ASSUME Init PROVE Throttled
  OBVIOUS
<1>1. Accounted
  BY NamesAssumption
  DEF Init, Accounted, Keyed, Launched, Demanded, FilesHaveWriters, WaitsHaveEncoders,
      NoDirectory, Waiting, InBegin
<1>2. \A e \in Requests : ~Alone(e)
  BY DEF Init, Alone, Running
<1> QED BY <1>1, <1>2 DEF Throttled

LEMMA StepKeepsThrottled == IInv /\ IInv' /\ Throttled /\ [Next]_vars => Throttled'
<1> SUFFICES ASSUME IInv, IInv', Throttled, [Next]_vars PROVE Throttled'
  OBVIOUS
<1>1. InUse \subseteq Requests
  BY DEF InUse, IInv, TypeOK
<1>2. ASSUME NEW r \in Requests, Segment(r) \/ RequestStep(r) PROVE Throttled'
  BY <1>2, SegmentKeepsThrottled, EnterKeepsThrottled, SpawnKeepsThrottled,
     StartedKeepsThrottled, SettledKeepsThrottled
  DEF RequestStep
<1>3. ASSUME NEW c \in Stops, Stop(c) PROVE Throttled'
  <2>1. PICK p \in Plays : Discard(c, {s \in InUse : PlayOf[ses[s].key] = p}, {})
    BY <1>3 DEF Stop
  <2>2. {s \in InUse : PlayOf[ses[s].key] = p} \in SUBSET Requests
    BY <1>1
  <2> QED BY <1>3, <2>1, <2>2, DiscardKeepsThrottled DEF Stop, Killers
<1>4. ASSUME NEW c \in Killers, Discarded(c) PROVE Throttled'
  <2>1. killer[c].todo \in SUBSET Requests
    BY DEF IInv, TypeOK, Killer
  <2> QED BY <1>4, <2>1, DiscardKeepsThrottled DEF Discarded
<1>5. CASE Sweep
  <2>1. Stale \in SUBSET Requests
    BY <1>1 DEF Stale
  <2> QED BY <1>5, <2>1, DiscardKeepsThrottled DEF Sweep, Killers
<1>6. ASSUME NEW e \in Requests, EncoderStep(e) \/ Writes(e) PROVE Throttled'
  BY <1>6, OpensKeepsThrottled, AdvancesKeepsThrottled, WritesKeepsThrottled DEF EncoderStep
<1>7. CASE \/ \E s \in Requests : Ages(s)
           \/ \E e \in Requests : Crashes(e) \/ Reap(e)
           \/ BeginStop \/ Cancel \/ HaltAll \/ ClearAll
  BY <1>7, StopsKeepThrottled
<1>8. CASE UNCHANGED vars
  <2>1. UNCHANGED <<sessions, ses, req, enc, disk>>
    BY <1>8 DEF vars
  <2>2. \A e \in Requests : Alone(e) /\ enc[e].st = "paused" =>
          enc[e].open /\ enc[e].at + 1 - ses[req[e].s].down >= Gap
    BY DEF Throttled, Sound
  <2>3. \A e \in Requests : req[e].pc = "starting" => enc[e].st # "paused"
    BY DEF Throttled, Accounted, Launched
  <2> QED BY <2>1, <2>2, <2>3, EndingKeepsThrottled
<1> QED BY <1>2, <1>3, <1>4, <1>5, <1>6, <1>7, <1>8 DEF Next

\* An encoder that the throttle has paused leads the client by the gap, and no request waits
\* for a segment that it would have written.
THEOREM PausesAreHarmless == Spec => []PausesStarveNobody
<1>1. ASSUME IInv, Throttled PROVE PausesStarveNobody
  <2>1. PausedOnlyWhenAhead
    BY <1>1 DEF PausedOnlyWhenAhead, Throttled, Sound, Alone, Running
  <2>2. PausedOwesNothing
    <3> SUFFICES ASSUME NEW r \in Requests, req[r].pc = "settling",
                        NEW s, s = req[r].s, NEW e, e = ses[s].run, e # None,
                        enc[e].st = "paused", FirstEncoder(e)
                 PROVE  /\ req[r].n < enc[e].at
                        /\ sessions[ses[s].key] = s /\ req[r].n \notin 0 .. ses[s].from - 1
                             => \/ Exists(Dir(s), req[r].n)
                                \/ SegmentDeletion /\ req[r].n \in 0 .. ses[s].down - Keep
      BY DEF PausedOwesNothing
    <3>1. s \in Requests /\ req[r].n \in Int /\ ses[s].down \in Nat
      BY <1>1, RequestHasKey, NumbersAssumption DEF IInv, TypeOK, Session, Request, Index, First
    <3>2. e \in Requests /\ req[e].s = s /\ enc[e].at \in Int
      BY <1>1, <3>1, NumbersAssumption
      DEF IInv, TypeOK, Session, Encoder, Index, First, Order, RunIsRecorded
    <3>3. Alone(e) /\ Sound(e)
      BY <1>1, <3>2 DEF Alone, Running, Throttled
    <3>4. req[r].n + 1 <= ses[s].down
      BY <1>1, SMTT(30) DEF Throttled, Accounted, Demanded, Waiting
    <3>5. enc[e].open /\ enc[e].at + 1 - ses[s].down >= Gap
      BY <3>2, <3>3 DEF Sound
    <3>6. req[r].n < enc[e].at
      BY <3>1, <3>2, <3>4, <3>5, NumbersAssumption, SMTT(30)
    <3>7. sessions[ses[s].key] = s => Coming(req[r].n, Dir(s), enc[e], ses[s])
      BY <3>2, <3>3 DEF Sound, Reachable, KeyOf, EncDir, Dir
    <3> QED BY <3>1, <3>2, <3>6, <3>7 DEF Coming, Deleted
  <2> QED BY <2>1, <2>2 DEF PausesStarveNobody
<1>2. Spec => [](IInv /\ Throttled)
  BY InitThrottled, InitEstablishesInvariant, StepKeepsInvariant, StepKeepsThrottled, PTL DEF Spec
<1> QED BY <1>1, <1>2, PTL

----------------------------------------------------------------------------
(***************************************************************************)
(* Finished files.  Past compares a segment with the newest file of the    *)
(* directory, which is a CHOOSE: that it chooses a file at all takes that  *)
(* the modification times order the files (Dated).                         *)
(***************************************************************************)

\* What an encoder that runs has written ends with the one file that it has not closed.
Written ==
  \A k \in Keys : \A f \in disk[k].files : enc[f.by].st \in Running =>
    /\ f.n <= enc[f.by].at
    /\ f.whole \/ f.n = enc[f.by].at

\* No two files have the same index, and each has an age, the newer the smaller.
Dated(d) ==
  /\ \A f, g \in d.files : f.n = g.n => f = g
  /\ \E age \in [Index -> Nat] : \A f, g \in d.files : f # g =>
       /\ age[f.n] # age[g.n]
       /\ age[f.n] < age[g.n] => <<g.n, f.n>> \in d.newer

Tidy == Written /\ \A k \in Keys : Dated(disk[k])

\* The files of d2 are among those of d, in the same order.
Within(d2, d) ==
  /\ d2.files \subseteq d.files
  /\ \A f, g \in d2.files : <<f.n, g.n>> \in d.newer => <<f.n, g.n>> \in d2.newer

\* A set of ages has a smallest one.
LEMMA SmallestAge ==
  ASSUME NEW T \in SUBSET Nat, T # {}
  PROVE  \E x \in T : \A y \in T : x <= y
<1>1. PICK x \in T : \A y \in T : ~(<<y, x>> \in OpToRel(<, Nat))
  <2>1. \E x \in T : \A y \in T : ~(<<y, x>> \in OpToRel(<, Nat))
    BY NatLessThanWellFounded, WFMin
  <2> QED BY <2>1
<1>2. \A y \in T : y < x => <<y, x>> \in OpToRel(<, Nat)
  BY Zenon DEF OpToRel
<1>3. \A y \in T : ~(y < x)
  BY <1>1, <1>2
<1> QED BY <1>3

\* There is a newest file.
LEMMA NewestIsAFile ==
  ASSUME NEW d \in Directory, Dated(d), d.files # {}
  PROVE  \E f \in d.files : f.n = Newest(d)
<1> DEFINE P(f) == \A g \in d.files \ {f} : <<g.n, f.n>> \in d.newer
           new == CHOOSE f \in d.files : P(f)
<1>1. PICK age \in [Index -> Nat] : \A f, g \in d.files : f # g =>
        /\ age[f.n] # age[g.n]
        /\ age[f.n] < age[g.n] => <<g.n, f.n>> \in d.newer
  BY DEF Dated
<1>2. \A f \in d.files : f.n \in Index
  BY DEF Directory, File
<1>3. PICK f \in d.files : \A g \in d.files : age[f.n] <= age[g.n]
  <2> DEFINE T == {age[f.n] : f \in d.files}
  <2>1. T \in SUBSET Nat /\ T # {}
    BY <1>2
  <2> HIDE DEF T
  <2>2. PICK x \in T : \A y \in T : x <= y
    BY <2>1, SmallestAge
  <2> QED BY <2>2 DEF T
<1>4. P(f)
  <2> SUFFICES ASSUME NEW g \in d.files, g # f PROVE <<g.n, f.n>> \in d.newer
    OBVIOUS
  <2>1. age[f.n] \in Nat /\ age[g.n] \in Nat /\ age[f.n] <= age[g.n] /\ age[f.n] # age[g.n]
    BY <1>1, <1>2, <1>3
  <2> QED BY <1>1, <2>1
<1>5. new \in d.files
  BY <1>4
<1>6. Newest(d) = new.n
  BY DEF Newest
<1> HIDE DEF new
<1> QED BY <1>5, <1>6

LEMMA DatedWithin ==
  ASSUME NEW d \in Directory, NEW d2 \in Directory, Dated(d), Within(d2, d)
  PROVE  Dated(d2)
<1>1. PICK age \in [Index -> Nat] : \A f, g \in d.files : f # g =>
        /\ age[f.n] # age[g.n]
        /\ age[f.n] < age[g.n] => <<g.n, f.n>> \in d.newer
  BY DEF Dated
<1>2. \A f, g \in d2.files : f # g =>
        /\ age[f.n] # age[g.n]
        /\ age[f.n] < age[g.n] => <<g.n, f.n>> \in d2.newer
  BY <1>1 DEF Within
<1>3. \A f, g \in d2.files : f.n = g.n => f = g
  BY DEF Dated, Within
<1> QED BY <1>2, <1>3 DEF Dated

\* A write to n, if it is all that changes but for n's own file, leaves the rest in order.
LEMMA DatedWrite ==
  ASSUME NEW d \in Directory, NEW d2 \in Directory, Dated(d), NEW n \in Index,
         \A f, g \in d2.files : f.n = g.n => f = g,
         \A f \in d2.files : f.n # n => \E g \in d.files : g.n = f.n,
         \A f, g \in d2.files :
           /\ f.n # n /\ g.n # n /\ <<f.n, g.n>> \in d.newer => <<f.n, g.n>> \in d2.newer
           /\ f.n # n /\ g.n = n => <<f.n, g.n>> \in d2.newer
  PROVE  Dated(d2)
<1>1. PICK age \in [Index -> Nat] : \A f, g \in d.files : f # g =>
        /\ age[f.n] # age[g.n]
        /\ age[f.n] < age[g.n] => <<g.n, f.n>> \in d.newer
  BY DEF Dated
<1> DEFINE a == [i \in Index |-> IF i = n THEN 0 ELSE age[i] + 1]
<1>2. a \in [Index -> Nat]
  OBVIOUS
<1>3. \A f \in d2.files : f.n \in Index /\ age[f.n] \in Nat
  BY DEF Directory, File
<1>4. ASSUME NEW f \in d2.files, NEW g \in d2.files, f # g
      PROVE  /\ a[f.n] # a[g.n]
             /\ a[f.n] < a[g.n] => <<g.n, f.n>> \in d2.newer
  <2>1. f.n # g.n
    BY <1>4
  <2>2. CASE f.n = n
    BY <1>3, <2>1, <2>2
  <2>3. CASE g.n = n
    BY <1>3, <2>1, <2>3
  <2>4. CASE f.n # n /\ g.n # n
    <3>1. PICK f0 \in d.files, g0 \in d.files : f0.n = f.n /\ g0.n = g.n
      BY <2>4
    <3>2. /\ age[f.n] # age[g.n]
          /\ age[f.n] < age[g.n] => <<g.n, f.n>> \in d.newer
      BY <1>1, <2>1, <3>1
    <3> QED BY <1>3, <2>4, <3>2
  <2> QED BY <2>2, <2>3, <2>4
<1> HIDE DEF a
<1> QED BY <1>2, <1>4 DEF Dated

\* Steps that neither write a file nor move a running encoder.
LEMMA TidyKept ==
  ASSUME TypeOK, TypeOK', FilesHaveWriters, Tidy,
         \A k \in Keys : Within(disk'[k], disk[k]),
         \A e \in Requests : enc'[e].st \in Running =>
           \/ enc[e].st = "none"
           \/ enc[e].st \in Running /\ enc'[e].at = enc[e].at
  PROVE  Tidy'
<1>1. ASSUME NEW k \in Keys PROVE Dated(disk'[k])
  BY DatedWithin DEF Tidy, TypeOK
<1>2. ASSUME NEW k \in Keys, NEW f \in disk'[k].files, enc'[f.by].st \in Running
      PROVE  f.n <= enc'[f.by].at /\ (f.whole \/ f.n = enc'[f.by].at)
  <2>1. f \in disk[k].files /\ f.by \in Requests
    BY DEF Within, TypeOK, Directory, File
  <2>2. enc[f.by].st # "none"
    BY <2>1 DEF FilesHaveWriters
  <2> QED BY <1>2, <2>1, <2>2 DEF Tidy, Written
<1> QED BY <1>1, <1>2 DEF Tidy, Written

\* Taking files out of a directory, or all of them, leaves the rest in order.
LEMMA WithinLess ==
  ASSUME NEW d \in Directory
  PROVE  /\ Within(d, d) /\ Within(NoDirectory, d)
         /\ \A R : Within(Unlink(d, R), d)
         /\ \A down : Within(DeleteBehind(d, down), d)
<1>1. Within(d, d) /\ Within(NoDirectory, d)
  BY DEF Within, NoDirectory
<1>2. ASSUME NEW R PROVE Within(Unlink(d, R), d)
  BY UnlinkFields DEF Within
<1>3. \A down : Within(DeleteBehind(d, down), d)
  BY <1>1, <1>2 DEF DeleteBehind
<1> QED BY <1>1, <1>2, <1>3

\* The kill paths.
LEMMA DiscardKeepsTidy ==
  ASSUME IInv, IInv', FilesHaveWriters, Tidy, NEW c \in Killers, NEW todo, NEW gone,
         Discard(c, todo, gone)
  PROVE  Tidy'
<1>1. /\ disk \in [Keys -> Directory] /\ enc \in [Requests -> Encoder] /\ TypeOK /\ TypeOK'
  BY DEF IInv, TypeOK
<1>2. ASSUME NEW k \in Keys PROVE Within(disk'[k], disk[k])
  <2>1. \/ disk'[k] = disk[k] \/ disk'[k] = NoDirectory
        \/ \E down : disk'[k] = DeleteBehind(disk[k], down)
    BY <1>2 DEF Discard, DiscardNext, DiscardRest
  <2> QED BY <1>1, <2>1, WithinLess
<1>3. ASSUME NEW e \in Requests
      PROVE  /\ enc'[e].at = enc[e].at
             /\ enc'[e].st \in Running => enc[e].st \in Running
  <2>1. CASE \E x : enc' = Kill(enc, x)
    BY <1>1, <2>1, KillFields DEF Running
  <2>2. CASE \E S : enc' = Throttle(ses, S)
    BY <1>1, <2>2 DEF Throttle, Encoder
  <2>3. CASE enc' = enc
    BY <2>3
  <2> QED BY <2>1, <2>2, <2>3 DEF Discard, DiscardNext, DiscardRest
<1> QED BY <1>1, <1>2, <1>3, TidyKept

\* What leaves the directories alone and starts or moves no encoder.
LEMMA StopsKeepTidy ==
  ASSUME IInv, IInv', FilesHaveWriters, Tidy,
         \/ \E s \in Requests : Ages(s)
         \/ \E e \in Requests : Crashes(e) \/ Reap(e)
         \/ \E r \in Requests : Started(r) \/ SettledWhileProducing(r)
                                \/ SettledAfterProduction(r) \/ Reaped(r)
         \/ BeginStop \/ Cancel \/ HaltAll \/ ClearAll
         \/ UNCHANGED vars
  PROVE  Tidy'
<1>1. /\ disk \in [Keys -> Directory] /\ enc \in [Requests -> Encoder] /\ TypeOK /\ TypeOK'
      /\ \A e \in Requests : DOMAIN enc[e] = {"st", "at", "open"}
  BY DEF IInv, TypeOK, Encoder
<1>2. ASSUME NEW k \in Keys PROVE Within(disk'[k], disk[k])
  <2>1. disk'[k] = disk[k] \/ disk'[k] = NoDirectory
    BY <1>2, ZenonT(60) DEF Ages, Crashes, Reap, Started, SettledWhileProducing, SettledAfterProduction,
       Reaped, BeginStop, Cancel, HaltAll, ClearAll, vars
  <2> QED BY <1>1, <2>1, WithinLess, SMTT(30)
<1>3. ASSUME NEW x \in Requests, enc'[x].st \in Running
      PROVE  enc[x].st \in Running /\ enc'[x].at = enc[x].at
  <2>1. \A e \in Requests : Kill(enc, e)[e] = enc[e] \/ Kill(enc, e)[e].st = "gone"
    BY <1>1 DEF Kill, Running, Encoder
  <2>2. CASE UNCHANGED enc
    BY <1>3, <2>2
  <2>3. CASE HaltAll \/ ClearAll
    <3>1. enc'[x] = enc[x] \/ enc'[x] = Kill(enc, x)[x]
      BY <1>1, <2>3 DEF HaltAll, ClearAll
    <3> QED BY <1>3, <2>1, <3>1 DEF Running
  <2>4. CASE \E e \in Requests : Crashes(e) \/ Reap(e)
    <3>1. PICK e \in Requests : Crashes(e) \/ Reap(e)
      BY <2>4
    <3>2. enc'[e].st \in {"gone", "reaped"} /\ (x # e => enc'[x] = enc[x])
      BY <1>1, <3>1, ZenonT(60) DEF Crashes, Reap
    <3> QED BY <1>3, <3>2 DEF Running
  <2> QED BY <2>2, <2>3, <2>4 DEF Ages, Started, SettledWhileProducing,
        SettledAfterProduction, Reaped, BeginStop, Cancel, vars
<1> QED BY <1>1, <1>2, <1>3, TidyKept

\* A launch: the new encoder has written nothing.
LEMMA LaunchKeepsTidy ==
  ASSUME IInv, IInv', FilesHaveWriters, Tidy,
         NEW r \in Requests, enc[r].st = "none", NEW s \in Requests, NEW n, NEW k \in Keys,
         NEW S \in [Requests -> Session], S[s].key = k, NEW E \in [Requests -> Encoder],
         \A e \in Requests : /\ E[e].at = enc[e].at
                             /\ E[e].st \in Running => enc[e].st \in Running,
         NEW d \in Directory, Within(d, disk[k]), Launch(r, s, n, S, E, d)
  PROVE  Tidy'
<1>1. disk \in [Keys -> Directory] /\ TypeOK /\ TypeOK'
  BY DEF IInv, TypeOK
<1>2. ASSUME NEW kk \in Keys PROVE Within(disk'[kk], disk[kk])
  <2>1. disk' = [disk EXCEPT ![k] = [d EXCEPT !.made = TRUE]]
    BY DEF Launch
  <2>2. [d EXCEPT !.made = TRUE].files = d.files /\ [d EXCEPT !.made = TRUE].newer = d.newer
    BY DEF Directory
  <2>3. kk # k => disk'[kk] = disk[kk]
    BY <1>1, <2>1
  <2>4. disk'[k].files = d.files /\ disk'[k].newer = d.newer
    BY <1>1, <2>1, <2>2
  <2>5. Within(disk'[k], disk[k])
    BY <2>4 DEF Within
  <2> QED BY <1>1, <2>3, <2>5, WithinLess
<1>3. \A e \in Requests : e # r => enc'[e] = E[e]
  BY DEF Launch
<1>4. ASSUME NEW e \in Requests, enc'[e].st \in Running
      PROVE  \/ enc[e].st = "none"
             \/ enc[e].st \in Running /\ enc'[e].at = enc[e].at
  BY <1>3, <1>4
<1> QED BY <1>1, <1>2, <1>4, TidyKept

\* Everything _begin may do.
LEMMA BeginKeepsTidy ==
  ASSUME IInv, IInv', FilesHaveWriters, Tidy,
         NEW r \in Requests, enc[r].st = "none", NEW s \in Requests, NEW n, NEW k \in Keys,
         NEW S \in [Requests -> Session], S[s].key = k, NEW E \in [Requests -> Encoder],
         \A e \in Requests : /\ E[e].at = enc[e].at
                             /\ E[e].st \in Running => enc[e].st \in Running,
         Begin(r, s, n, S, E)
  PROVE  Tidy'
<1>1. disk \in [Keys -> Directory] /\ TypeOK /\ TypeOK'
  BY DEF IInv, TypeOK
<1>2. CASE Launch(r, s, n, S, E, disk[k])
  BY <1>1, <1>2, WithinLess, LaunchKeepsTidy
<1>3. CASE UNCHANGED disk /\ \E x : enc' = Kill(E, x) \/ enc' = E
  <2>1. \A e \in Requests :
          /\ enc'[e].at = enc[e].at
          /\ enc'[e].st \in Running => enc[e].st \in Running
    BY <1>3, KillFields DEF Running
  <2>2. \A kk \in Keys : Within(disk'[kk], disk[kk])
    BY <1>1, <1>3, WithinLess
  <2> QED BY <1>1, <2>1, <2>2, TidyKept
<1> QED BY <1>2, <1>3 DEF Begin

\* _segment, up to its first await, and once it has the lock.
LEMMA AskingKeepsTidy ==
  ASSUME IInv, IInv', Accounted, Tidy, NEW r \in Requests,
         Segment(r) \/ Enter(r) \/ Spawn(r)
  PROVE  Tidy'
<1>1. /\ ses \in [Requests -> Session] /\ enc \in [Requests -> Encoder]
      /\ sessions \in [Keys -> Requests \union {None}]
      /\ disk \in [Keys -> Directory] /\ TypeOK /\ TypeOK' /\ FilesHaveWriters
  BY DEF IInv, TypeOK, Accounted
<1>2. \A k \in Keys : Within(disk[k], disk[k])
  BY <1>1, WithinLess
<1>3. req[r].pc \in {"new", "locking", "halting"} /\ enc[r].st = "none"
  BY DEF IInv, Order, UnlaunchedHasNoEncoder, Segment, Enter, Spawn
<1>4. CASE Segment(r)
  <2>0. PICK k \in Keys, n \in Index :
         LET s == IF sessions[k] = None THEN r ELSE sessions[k]
             S == [ses EXCEPT ![s].key = k, ![s].fresh = TRUE,
                              ![s].down = Furthest(s, n)]
             E == Throttle(S, {s})
             free == /\ Unlocked(s)
                     /\ \A q \in Requests :
                          req[q].pc = "locking" => req[q].s # s
         IN  /\ sessions' = [sessions EXCEPT ![k] = s]
             /\ IF Exists(disk[k], n) \/ ~free
                THEN /\ ses' = S /\ enc' = E
                     /\ req' = [req EXCEPT ![r] =
                          [pc |-> IF Exists(disk[k], n) THEN "settling"
                                                        ELSE "locking",
                           s |-> s, n |-> n, e |-> None, saw |-> FALSE]]
                     /\ UNCHANGED <<ledger, disk>>
                ELSE Begin(r, s, n, S, E)
    BY <1>4 DEF Segment
  <2> DEFINE s == IF sessions[k] = None THEN r ELSE sessions[k]
             S == [ses EXCEPT ![s].key = k, ![s].fresh = TRUE, ![s].down = Furthest(s, n)]
             E == Throttle(S, {s})
  <2>1. (ses' = S /\ enc' = E /\ UNCHANGED disk) \/ Begin(r, s, n, S, E)
    BY <2>0
  <2>2. s \in Requests
    BY <1>1
  <2>3. S \in [Requests -> Session] /\ S[s].key = k
    <3> HIDE DEF s
    <3>1. Furthest(s, n) \in 0 .. LastIndex + 1
      BY <1>1, <2>2, NumbersAssumption DEF Furthest, Index, First, Session
    <3>2. S = [ses EXCEPT ![s] = [ses[s] EXCEPT !.key = k, !.fresh = TRUE,
                                                !.down = Furthest(s, n)]]
      BY <1>1, <2>2
    <3>3. /\ [ses[s] EXCEPT !.key = k, !.fresh = TRUE, !.down = Furthest(s, n)] \in Session
          /\ [ses[s] EXCEPT !.key = k, !.fresh = TRUE, !.down = Furthest(s, n)].key = k
      BY <1>1, <2>2, <3>1 DEF Session
    <3> HIDE DEF S
    <3> QED BY <1>1, <2>2, <3>2, <3>3
  <2> HIDE DEF S
  <2>4. E \in [Requests -> Encoder]
    BY <1>1, ThrottleSignalsOnly DEF SameRunning
  <2>5. \A e \in Requests : /\ E[e].at = enc[e].at
                            /\ E[e].st \in Running => enc[e].st \in Running
    BY <1>1 DEF Throttle, Encoder
  <2>6. (ses' = S /\ enc' = E /\ UNCHANGED disk) \/ Begin(r, s, n, S, E)
    BY <2>1 DEF S
  <2> HIDE DEF s, E
  <2>7. CASE enc' = E /\ UNCHANGED disk
    BY <1>1, <1>2, <2>5, <2>7, TidyKept
  <2>8. CASE Begin(r, s, n, S, E)
    BY <1>1, <1>3, <2>2, <2>3, <2>4, <2>5, <2>8, BeginKeepsTidy
  <2> QED BY <2>6, <2>7, <2>8, SMTT(30)
<1>5. CASE Enter(r)
  <2>1. CASE UNCHANGED <<enc, disk>>
    BY <1>1, <1>2, <2>1, TidyKept
  <2>2. CASE Begin(r, req[r].s, req[r].n, ses, enc)
    <3>1. req[r].s \in Requests /\ ses[req[r].s].key \in Keys
      BY <1>5 DEF Enter, Accounted, Keyed
    <3> QED BY <1>1, <1>3, <2>2, <3>1, BeginKeepsTidy
  <2> QED BY <1>5, <2>1, <2>2 DEF Enter
<1>6. CASE Spawn(r)
  <2> DEFINE d == IF req[r].saw THEN Unlink(Dir(req[r].s), {Newest(Dir(req[r].s))})
                  ELSE Dir(req[r].s)
  <2>1. Launch(r, req[r].s, req[r].n, ses, enc, d)
    BY <1>6 DEF Spawn
  <2>2. req[r].s \in Requests /\ KeyOf(r) \in Keys /\ Dir(req[r].s) = disk[KeyOf(r)]
    BY <1>6 DEF Spawn, Accounted, Keyed, KeyOf, Dir
  <2>3. disk[KeyOf(r)] \in Directory
    BY <1>1, <2>2
  <2>4. d \in Directory /\ Within(d, disk[KeyOf(r)])
    <3>1. \A R : Unlink(disk[KeyOf(r)], R) \in Directory
      BY <2>3 DEF Unlink, Directory
    <3> QED BY <1>2, <2>2, <2>3, <3>1, WithinLess
  <2> HIDE DEF d
  <2> QED BY <1>1, <1>3, <2>1, <2>2, <2>4, LaunchKeepsTidy DEF KeyOf
<1> QED BY <1>4, <1>5, <1>6

\* What an encoder does to the directory it writes to.
LEMMA OpenKeepsDated ==
  ASSUME NEW d \in Directory, Dated(d), NEW n \in Index, NEW e \in Requests
  PROVE  Dated(Open(d, n, e))
<1> DEFINE new == [n |-> n, by |-> e, whole |-> FALSE]
           d2 == Open(d, n, e)
<1>1. /\ d2.files = {f \in d.files : f.n # n} \union {new}
      /\ d2.newer = {p \in d.newer : p[1] # n} \union
                    {<<f.n, n>> : f \in {g \in d.files : g.n # n}}
      /\ d2 \in Directory
  BY OpenFields, DirectoryOperations
<1>2. new.n = n
  OBVIOUS
<1> HIDE DEF new, d2
<1>3. \A f, g \in d2.files : f.n = g.n => f = g
  BY <1>1, <1>2 DEF Dated
<1>4. \A f \in d2.files : f.n # n => \E g \in d.files : g.n = f.n
  BY <1>1, <1>2
<1>5. \A f, g \in d2.files :
        /\ f.n # n /\ g.n # n /\ <<f.n, g.n>> \in d.newer => <<f.n, g.n>> \in d2.newer
        /\ f.n # n /\ g.n = n => <<f.n, g.n>> \in d2.newer
  BY <1>1, <1>2
<1> QED BY <1>1, <1>3, <1>4, <1>5, DatedWrite DEF d2

LEMMA CloseKeepsDated ==
  ASSUME NEW d \in Directory, Dated(d), NEW n \in Index, NEW e \in Requests
  PROVE  Dated(Close(d, n, e))
<1> DEFINE c == Close(d, n, e)
<1>1. PICK age \in [Index -> Nat] : \A f, g \in d.files : f # g =>
        /\ age[f.n] # age[g.n]
        /\ age[f.n] < age[g.n] => <<g.n, f.n>> \in d.newer
  BY DEF Dated
<1>2. \A g \in c.files : \E f \in d.files :
        /\ g.n = f.n
        /\ g = IF f.n = n /\ f.by = e THEN [f EXCEPT !.whole = TRUE] ELSE f
  BY CloseFields
<1>3. c.newer = d.newer
  BY CloseFields
<1> HIDE DEF c
<1>4. ASSUME NEW f \in c.files, NEW g \in c.files, f.n = g.n PROVE f = g
  <2>1. PICK f0 \in d.files :
          /\ f.n = f0.n
          /\ f = IF f0.n = n /\ f0.by = e THEN [f0 EXCEPT !.whole = TRUE] ELSE f0
    BY <1>2
  <2>2. PICK g0 \in d.files :
          /\ g.n = g0.n
          /\ g = IF g0.n = n /\ g0.by = e THEN [g0 EXCEPT !.whole = TRUE] ELSE g0
    BY <1>2
  <2>3. f0 = g0
    BY <1>4, <2>1, <2>2 DEF Dated
  <2> QED BY <2>1, <2>2, <2>3
<1>5. ASSUME NEW f \in c.files, NEW g \in c.files, f # g
      PROVE  /\ age[f.n] # age[g.n]
             /\ age[f.n] < age[g.n] => <<g.n, f.n>> \in c.newer
  <2>1. PICK f0 \in d.files, g0 \in d.files : f0.n = f.n /\ g0.n = g.n
    BY <1>2
  <2>2. f0 # g0
    BY <1>4, <1>5, <2>1
  <2> QED BY <1>1, <1>3, <2>1, <2>2
<1>6. \A f, g \in c.files : f # g =>
        /\ age[f.n] # age[g.n]
        /\ age[f.n] < age[g.n] => <<g.n, f.n>> \in c.newer
  BY <1>5
<1> QED BY <1>4, <1>6 DEF Dated, c

LEMMA TouchKeepsDated ==
  ASSUME NEW d \in Directory, Dated(d), NEW n \in Index
  PROVE  Touch(d, n).files = d.files /\ Dated(Touch(d, n))
<1> DEFINE d2 == Touch(d, n)
<1>1. /\ d2.files = d.files
      /\ d2.newer = {p \in d.newer : p[1] # n} \union
                    {<<f.n, n>> : f \in {g \in d.files : g.n # n}}
      /\ d2 \in Directory
  BY DEF Touch, Directory, File
<1> HIDE DEF d2
<1>2. \A f, g \in d2.files : f.n = g.n => f = g
  BY <1>1 DEF Dated
<1>3. \A f, g \in d2.files :
        /\ f.n # n /\ g.n # n /\ <<f.n, g.n>> \in d.newer => <<f.n, g.n>> \in d2.newer
        /\ f.n # n /\ g.n = n => <<f.n, g.n>> \in d2.newer
  BY <1>1
<1>4. Dated(d2)
  BY <1>1, <1>2, <1>3, DatedWrite, SMTT(30)
<1> QED BY <1>1, <1>4 DEF d2

\* A running encoder closes what it has written and opens the next, further on.
LEMMA EncoderKeepsTidy ==
  ASSUME IInv, IInv', Accounted, Tidy, NEW e \in Requests,
         Opens(e) \/ Advances(e) \/ Writes(e)
  PROVE  Tidy'
<1> DEFINE k == KeyOf(e)
           at == enc[e].at
           n == Following(e)
           closed == Close(disk[k], at, e)
<1>1. enc[e].st = "live" /\ UNCHANGED <<ses, req>>
  BY DEF Opens, Advances, Writes
<1>2. /\ req[e].s \in Requests /\ k \in Keys /\ EncDir(e) = disk[k]
      /\ enc \in [Requests -> Encoder] /\ disk \in [Keys -> Directory]
      /\ disk[k] \in Directory /\ Dated(disk[k]) /\ at \in Index
      /\ enc'[e] \in Encoder /\ TypeOK /\ TypeOK' /\ FilesHaveWriters
  BY <1>1, RunningHasSession DEF Running, IInv, TypeOK, Encoder, EncDir, KeyOf, Accounted, Tidy
<1>3. DOMAIN enc[e] = {"st", "at", "open"}
  BY <1>2 DEF Encoder
<1>4. ASSUME \A x \in Requests : x # e => enc'[x] = enc[x],
             \A kk \in Keys : kk # k => disk'[kk] = disk[kk],
             Dated(disk'[k]),
             \A f \in disk'[k].files : f.by # e => f \in disk[k].files,
             enc'[e].st \in Running => \A f \in disk'[k].files : f.by = e =>
                                         f.n <= enc'[e].at /\ (f.whole \/ f.n = enc'[e].at)
      PROVE  Tidy'
  <2>1. ASSUME NEW kk \in Keys PROVE Dated(disk'[kk])
    BY <1>4 DEF Tidy
  <2>2. ASSUME NEW kk \in Keys, NEW f \in disk'[kk].files, enc'[f.by].st \in Running
        PROVE  f.n <= enc'[f.by].at /\ (f.whole \/ f.n = enc'[f.by].at)
    <3>1. f.by \in Requests
      BY <1>2 DEF TypeOK, Directory, File
    <3>2. CASE kk = k /\ f.by = e
      BY <1>4, <2>2, <3>2
    <3>3. CASE ~(kk = k /\ f.by = e)
      <4>1. f \in disk[kk].files
        BY <1>4, <3>3
      <4>2. f.by # e
        BY <3>3, <4>1 DEF Accounted, FilesHaveWriters
      <4> QED BY <1>4, <2>2, <3>1, <4>1, <4>2 DEF Tidy, Written
    <3> QED BY <3>2, <3>3
  <2> QED BY <2>1, <2>2 DEF Tidy, Written
<1>5. \A f \in disk[k].files : f.by = e => f.n <= at /\ (f.whole \/ f.n = at)
  BY <1>1, <1>2 DEF Tidy, Written, Running
<1>6. CASE Opens(e)
  <2>1. CASE UNCHANGED disk /\ enc' = [enc EXCEPT ![e].st = "gone"]
    <3>1. enc'[e].st = "gone" /\ \A x \in Requests : x # e => enc'[x] = enc[x]
      BY <1>2, <1>3, <2>1
    <3> QED BY <1>2, <1>4, <2>1, <3>1 DEF Running
  <2>2. CASE /\ enc' = [enc EXCEPT ![e].open = TRUE]
             /\ disk' = [disk EXCEPT ![k] = Open(@, at, e)]
    <3>1. enc'[e].at = at /\ \A x \in Requests : x # e => enc'[x] = enc[x]
      BY <1>2, <1>3, <2>2
    <3>2. /\ disk'[k] = Open(disk[k], at, e)
          /\ \A kk \in Keys : kk # k => disk'[kk] = disk[kk]
      BY <1>2, <2>2
    <3>3. Dated(disk'[k])
      BY <1>2, <3>2, OpenKeepsDated
    <3>4. /\ \A f \in disk'[k].files : f.by # e => f \in disk[k].files
          /\ \A f \in disk'[k].files : f.by = e => f.n <= at /\ (f.whole \/ f.n = at)
      <4>1. [n |-> at, by |-> e, whole |-> FALSE].n = at
            /\ [n |-> at, by |-> e, whole |-> FALSE].by = e
        OBVIOUS
      <4>2. at \in Int
        BY <1>2, NumbersAssumption DEF Index, First
      <4>3. \A f \in disk'[k].files : \/ f \in disk[k].files
                                      \/ f = [n |-> at, by |-> e, whole |-> FALSE]
        BY <1>2, <3>2, OpenFields
      <4> QED BY <1>5, <4>1, <4>2, <4>3
    <3> HIDE DEF k, at
    <3> QED BY <1>4, <3>1, <3>2, <3>3, <3>4
  <2> QED BY <1>6, <2>1, <2>2 DEF Opens, KeyOf
<1>7. CASE Writes(e)
  <2>1. disk' = [disk EXCEPT ![k] = Touch(@, at)] /\ enc' = enc
    BY <1>7 DEF Writes, KeyOf
  <2>2. /\ disk'[k] = Touch(disk[k], at)
        /\ \A kk \in Keys : kk # k => disk'[kk] = disk[kk]
    BY <1>2, <2>1
  <2>3. disk'[k].files = disk[k].files /\ Dated(disk'[k])
    BY <1>2, <2>2, TouchKeepsDated, SMTT(30)
  <2> QED BY <1>4, <1>5, <2>1, <2>2, <2>3
<1>8. CASE Advances(e)
  <2>1. /\ Dated(closed) /\ closed \in Directory
        /\ \A f \in closed.files : f.by # e => f \in disk[k].files
        /\ \A f \in closed.files : f.by = e => f.n <= at /\ f.whole
    <3>1. \A f \in disk[k].files : [f EXCEPT !.whole = TRUE].by = f.by
                                   /\ [f EXCEPT !.whole = TRUE].n = f.n
                                   /\ [f EXCEPT !.whole = TRUE].whole
      BY <1>2 DEF Directory, File
    <3>2. \A g \in closed.files : \E f \in disk[k].files :
            /\ g.n = f.n /\ g.by = f.by
            /\ g = IF f.n = at /\ f.by = e THEN [f EXCEPT !.whole = TRUE] ELSE f
      BY <1>2, CloseFields
    <3>3. Dated(closed) /\ closed \in Directory
      BY <1>2, CloseKeepsDated, DirectoryOperations
    <3> HIDE DEF closed, k, at
    <3>4. ASSUME NEW g \in closed.files
          PROVE  /\ g.by # e => g \in disk[k].files
                 /\ g.by = e => g.n <= at /\ g.whole
      <4>1. PICK f \in disk[k].files :
              /\ g.n = f.n /\ g.by = f.by
              /\ g = IF f.n = at /\ f.by = e THEN [f EXCEPT !.whole = TRUE] ELSE f
        BY <3>2
      <4>2. CASE f.n = at /\ f.by = e
        BY <1>5, <3>1, <4>1, <4>2
      <4>3. CASE ~(f.n = at /\ f.by = e)
        BY <1>5, <4>1, <4>3
      <4> QED BY <4>2, <4>3
    <3> QED BY <3>3, <3>4
  <2>2. CASE /\ enc' = [enc EXCEPT ![e].st = "gone", ![e].open = FALSE]
             /\ disk' = [disk EXCEPT ![k] = closed]
    <3>1. enc'[e].st = "gone" /\ \A x \in Requests : x # e => enc'[x] = enc[x]
      BY <1>2, <1>3, <2>2
    <3>2. disk'[k] = closed /\ \A kk \in Keys : kk # k => disk'[kk] = disk[kk]
      BY <1>2, <2>2
    <3> HIDE DEF closed, k, at, n
    <3> QED BY <1>4, <2>1, <3>1, <3>2 DEF Running
  <2>3. CASE /\ enc' = [enc EXCEPT ![e].at = n]
             /\ disk' = [disk EXCEPT ![k] = Open(closed, n, e)]
    <3>1. enc'[e].at = n /\ \A x \in Requests : x # e => enc'[x] = enc[x]
      BY <1>2, <1>3, <2>3
    <3>2. /\ disk'[k] = Open(closed, n, e)
          /\ \A kk \in Keys : kk # k => disk'[kk] = disk[kk]
      BY <1>2, <2>3
    <3>3. n \in Index
      BY <1>2, <3>1 DEF Encoder
    <3>4. n \in Int /\ at \in Int /\ at <= n
      BY <1>2, <3>3, NumbersAssumption DEF Following, IInv, TypeOK, Session, Index, First
    <3> HIDE DEF closed, n
    <3>5. Dated(disk'[k])
      BY <2>1, <3>2, <3>3, OpenKeepsDated
    <3>6. \A f \in disk'[k].files : \/ f \in closed.files
                                    \/ f = [n |-> n, by |-> e, whole |-> FALSE]
      BY <2>1, <3>2, <3>3, OpenFields
    <3>7. \A f \in closed.files : f.n \in Int
      BY <2>1, NumbersAssumption DEF Directory, File, Index, First
    <3>8. /\ [n |-> n, by |-> e, whole |-> FALSE].n = n
          /\ [n |-> n, by |-> e, whole |-> FALSE].by = e
      OBVIOUS
    <3> HIDE DEF k, at
    <3>9. /\ \A f \in disk'[k].files : f.by # e => f \in disk[k].files
          /\ \A f \in disk'[k].files : f.by = e => f.n <= n /\ (f.whole \/ f.n = n)
      <4>1. \A f \in disk'[k].files : f.by # e => f \in disk[k].files
        BY <2>1, <3>6, <3>8
      <4>2. ASSUME NEW f \in disk'[k].files, f.by = e
            PROVE  f.n <= n /\ (f.whole \/ f.n = n)
        <5>1. CASE f \in closed.files
          BY <2>1, <3>4, <3>7, <4>2, <5>1
        <5>2. CASE f = [n |-> n, by |-> e, whole |-> FALSE]
          BY <3>4, <3>8, <5>2
        <5> QED BY <3>6, <5>1, <5>2
      <4> QED BY <4>1, <4>2
    <3> QED BY <1>4, <3>1, <3>2, <3>5, <3>9
  <2> QED BY <1>8, <2>2, <2>3 DEF Advances, KeyOf
<1> QED BY <1>6, <1>7, <1>8

LEMMA InitTidy == Init => Tidy
<1> SUFFICES ASSUME Init PROVE Tidy
  OBVIOUS
<1>1. \A k \in Keys : disk[k].files = {}
  BY DEF Init, NoDirectory
<1>2. [i \in Index |-> 0] \in [Index -> Nat]
  OBVIOUS
<1> QED BY <1>1, <1>2 DEF Tidy, Written, Dated

LEMMA StepKeepsTidy == IInv /\ IInv' /\ Accounted /\ Tidy /\ [Next]_vars => Tidy'
<1> SUFFICES ASSUME IInv, IInv', Accounted, Tidy, [Next]_vars PROVE Tidy'
  OBVIOUS
<1>1. FilesHaveWriters
  BY DEF Accounted
<1>2. ASSUME NEW r \in Requests, Segment(r) \/ RequestStep(r) PROVE Tidy'
  BY <1>1, <1>2, AskingKeepsTidy, StopsKeepTidy DEF RequestStep
<1>3. ASSUME NEW c \in Killers, NEW todo, NEW gone, Discard(c, todo, gone) PROVE Tidy'
  BY <1>1, <1>3, DiscardKeepsTidy
<1>4. CASE \/ \E c \in Stops : Stop(c)
           \/ \E c \in Killers : Discarded(c)
           \/ Sweep
  <2>1. ASSUME NEW c \in Stops, Stop(c) PROVE Tidy'
    BY <1>3, <2>1 DEF Stop, Killers
  <2>2. ASSUME NEW c \in Killers, Discarded(c) PROVE Tidy'
    BY <1>3, <2>2 DEF Discarded
  <2>3. CASE Sweep
    BY <1>3, <2>3 DEF Sweep, Killers
  <2> QED BY <1>4, <2>1, <2>2, <2>3
<1>5. ASSUME NEW e \in Requests, EncoderStep(e) \/ Writes(e) PROVE Tidy'
  BY <1>5, EncoderKeepsTidy DEF EncoderStep
<1>6. CASE \/ \E s \in Requests : Ages(s)
           \/ \E e \in Requests : Crashes(e) \/ Reap(e)
           \/ BeginStop \/ Cancel \/ HaltAll \/ ClearAll \/ UNCHANGED vars
  BY <1>1, <1>6, StopsKeepTidy
<1> QED BY <1>2, <1>4, <1>5, <1>6 DEF Next

\* A request is handed a segment only by the steps that wait for it.
LEMMA WhoHandsOut ==
  ASSUME IInv, [Next]_vars, NEW r \in Requests,
         req[r].pc \notin Outcomes, req'[r].pc = "partial"
  PROVE  SettledWhileProducing(r) \/ SettledAfterProduction(r) \/ Reaped(r)
<1>1. req \in [Requests -> Request]
      /\ \A q \in Requests : DOMAIN req[q] = {"pc", "s", "n", "e", "saw"}
  BY DEF IInv, TypeOK, Request
<1>2. req'[r] # req[r]
  BY DEF Outcomes
<1>3. ASSUME NEW q \in Requests, NEW s, NEW n, NEW S, NEW E, NEW d, Launch(q, s, n, S, E, d)
      PROVE  FALSE
  <2>1. q # r => req'[r] = req[r]
    BY <1>1, <1>3 DEF Launch
  <2>2. req'[q].pc \in {"starting", "failed"}
    BY <1>1, <1>3 DEF Launch
  <2> QED BY <1>2, <2>1, <2>2
<1>4. ASSUME NEW q \in Requests, NEW s, NEW n, NEW S, NEW E, Begin(q, s, n, S, E)
      PROVE  FALSE
  <2>1. CASE Launch(q, s, n, S, E, disk[S[s].key])
    BY <1>3, <2>1
  <2>2. CASE \E pc \in {"settling", "halting"} : \E x, saw :
               req' = [req EXCEPT ![q] = [pc |-> pc, s |-> s, n |-> n, e |-> x, saw |-> saw]]
    <3>1. q # r => req'[r] = req[r]
      BY <1>1, <2>2
    <3>2. req'[q].pc \in {"settling", "halting"}
      BY <1>1, <2>2
    <3> QED BY <1>2, <3>1, <3>2
  <2> QED BY <1>4, <2>1, <2>2 DEF Begin
<1>5. ASSUME NEW q \in Requests, Segment(q) PROVE FALSE
  <2>1. CASE \E s, n, S, E : Begin(q, s, n, S, E)
    BY <1>4, <2>1
  <2>2. CASE \E pc \in {"settling", "locking"} : \E s, n :
               req' = [req EXCEPT ![q] = [pc |-> pc, s |-> s, n |-> n,
                                          e |-> None, saw |-> FALSE]]
    <3>1. q # r => req'[r] = req[r]
      BY <1>1, <2>2
    <3>2. req'[q].pc \in {"settling", "locking"}
      BY <1>1, <2>2
    <3> QED BY <1>2, <3>1, <3>2
  <2> QED BY <1>5, <2>1, <2>2 DEF Segment
<1>6. ASSUME NEW q \in Requests, Enter(q) \/ Spawn(q) \/ Started(q) PROVE FALSE
  <2>1. CASE \E s, n, S, E : Begin(q, s, n, S, E)
    BY <1>4, <2>1
  <2>2. CASE \E s, n, S, E, d : Launch(q, s, n, S, E, d)
    BY <1>3, <2>2
  <2>3. CASE req' = [req EXCEPT ![q].pc = "settling"]
    <3>1. q # r => req'[r] = req[r]
      BY <1>1, <2>3
    <3>2. req'[q].pc = "settling"
      BY <1>1, <2>3
    <3> QED BY <1>2, <3>1, <3>2
  <2> QED BY <1>6, <2>1, <2>2, <2>3 DEF Enter, Spawn, Started
<1>7. ASSUME NEW q \in Requests, q # r,
             SettledWhileProducing(q) \/ SettledAfterProduction(q) \/ Reaped(q)
      PROVE  FALSE
  <2>1. req'[r] = req[r]
    BY <1>1, <1>7 DEF SettledWhileProducing, SettledAfterProduction, Reaped
  <2> QED BY <1>2, <2>1
<1>8. req' # req
  BY <1>2, SMTT(30)
<1>9. \E q \in Requests : Segment(q) \/ RequestStep(q)
  BY <1>8 DEF Next, vars, Stop, Discarded, Ages, Sweep, EncoderStep, Opens, Advances, Writes,
     Crashes, Reap, BeginStop, Cancel, HaltAll, ClearAll
<1> QED BY <1>5, <1>6, <1>7, <1>9 DEF RequestStep

\* A segment that production is past is finished, if the encoder producing it is the one it
\* is past (_settled): that encoder has closed all its files but its last, so a later file is
\* another's.
LEMMA PastIsFinished ==
  ASSUME IInv, Accounted, Tidy, NEW r \in Requests, SettledWhileProducing(r), HandedUnfinished(r)
  PROVE  \E g \in Dir(req[r].s).files : g.n > req[r].n /\ g.by # ses[req[r].s].run
<1> DEFINE s == req[r].s
           n == req[r].n
           e == ses[s].run
           d == Dir(s)
           f == [n |-> n, by |-> e, whole |-> FALSE]
<1>1. /\ e # None /\ enc[e].st \in Running /\ f \in d.files /\ Past(d, n)
      /\ req[r].pc = "settling"
  BY DEF HandedUnfinished, SettledWhileProducing
<1>2. s \in Requests /\ e \in Requests /\ req[e].s = s /\ n \in Int
  BY <1>1, NumbersAssumption
  DEF IInv, TypeOK, Request, Session, Index, First, Order, RequestHasSession, RunIsRecorded
<1>3. PICK k \in Keys : d = disk[k] /\ d \in Directory
  BY <1>1 DEF Accounted, Keyed, Dir, IInv, TypeOK
<1>4. f.n = enc[e].at
  BY <1>1, <1>3 DEF Tidy, Written
<1>5. \A g \in d.files : g.by = e => g.n <= n
  BY <1>1, <1>3, <1>4 DEF Tidy, Written
<1>6. PICK g \in d.files : g.n > n
  <2>1. CASE Exists(d, n + 1)
    BY <1>2, <2>1 DEF Exists
  <2>2. CASE n < Newest(d)
    <3>1. PICK g \in d.files : g.n = Newest(d)
      BY <1>1, <1>3, NewestIsAFile DEF Tidy
    <3> QED BY <2>2, <3>1
  <2> QED BY <1>1, <2>1, <2>2 DEF Past
<1>7. g.n \in Int
  BY <1>3, NumbersAssumption DEF Directory, File, Index, First
<1> QED BY <1>2, <1>5, <1>6, <1>7

THEOREM OwnFilesAreFinished == Spec => OwnFileIsFinished
<1> DEFINE Step == \A r \in Requests : HandedUnfinished(r) =>
             \/ req[r].pc = "reaping"
             \/ \E g \in Dir(req[r].s).files :
                  g.n > req[r].n /\ g.by # ses[req[r].s].run
<1>1. ASSUME IInv, Accounted, Tidy, [Next]_vars PROVE Step
  <2> SUFFICES ASSUME NEW r \in Requests, HandedUnfinished(r)
               PROVE  \/ req[r].pc = "reaping"
                      \/ \E g \in Dir(req[r].s).files :
                           g.n > req[r].n /\ g.by # ses[req[r].s].run
    OBVIOUS
  <2>1. SettledWhileProducing(r) \/ SettledAfterProduction(r) \/ Reaped(r)
    BY <1>1, WhoHandsOut DEF HandedUnfinished
  <2>2. CASE SettledWhileProducing(r)
    BY <1>1, <2>2, PastIsFinished
  <2>3. CASE Reaped(r)
    BY <2>3 DEF Reaped
  <2>4. CASE SettledAfterProduction(r)
    BY <2>4 DEF SettledAfterProduction, HandedUnfinished, Producing, Running
  <2> QED BY <2>1, <2>2, <2>3, <2>4
<1>2. Spec => [](IInv /\ Accounted /\ Tidy)
  <2>1. Throttled => Accounted
    BY DEF Throttled
  <2>2. Init => IInv /\ Throttled /\ Tidy
    BY InitEstablishesInvariant, InitThrottled, InitTidy
  <2>3. IInv /\ Throttled /\ Tidy /\ [Next]_vars => (IInv /\ Throttled /\ Tidy)'
    BY <2>1, StepKeepsInvariant, StepKeepsThrottled, StepKeepsTidy
  <2> QED BY <2>1, <2>2, <2>3, PTL DEF Spec
<1> HIDE DEF Step
<1>3. Spec => [][Step]_vars
  <2>1. IInv /\ Accounted /\ Tidy /\ [Next]_vars => [Step]_vars
    BY <1>1
  <2> QED BY <1>2, <2>1, PTL DEF Spec
<1> QED BY <1>3 DEF Step, OwnFileIsFinished

=============================================================================
