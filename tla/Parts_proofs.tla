---------------------------- MODULE Parts_proofs ----------------------------
(***************************************************************************)
(* Proofs about the parts that MCParts puts side by side.                  *)
(*                                                                         *)
(* The productions: for any number of requests of any mix of kinds, a      *)
(* subtitle is extracted once, nothing outlives its request, and what is   *)
(* served is whole.                                                        *)
(*                                                                         *)
(* The playlists: for any items, and any users who see any of them, the    *)
(* ordinals stay without a gap, a move lands where it was asked for, and   *)
(* no other entry changes sides with a neighbour.                          *)
(*                                                                         *)
(* And side by side each part behaves as it does by itself.                *)
(***************************************************************************)
EXTENDS MCParts, ItemMetadata_proofs, Scanner_proofs, FiniteSetTheorems,
        WellFoundedInduction, TLAPS

----------------------------------------------------------------------------
(* The productions.                                                        *)

ProductionSpec == ProductionInit /\ [][ProductionNext]_productionVars

\* The requests that have found the lock of an artefact and not left it.
Callers(n) == {r \in Requests : kind[r] = n /\ entered[r] # Nothing}

\* The types; the count of a lock has no bound here, which follows from what it counts.
Types ==
  /\ kind \in [Requests -> Kinds]
  /\ kind \in Mixes
  /\ at \in [Requests -> {"new", "locking", "launching", "producing", "streaming",
                          "finishing", "judging", "answered"}]
  /\ encoder \in [Requests -> {"none", "running", "ended", "failed", "killed"}]
  /\ wrote \in [Requests -> {"nothing", "part", "whole"}]
  /\ live \subseteq Requests
  /\ stored \in [Kinds -> {"nothing", "part", "whole"}]
  /\ abandoned \subseteq Requests

LockTypes ==
  /\ locks \in [Kinds -> Requests \union {Nothing}]
  /\ waiting \in [Kinds -> Nat]
  /\ entered \in [Requests -> Requests \union {Nothing}]
  /\ holder \in [Requests -> Requests \union {Nothing}]

\* Only an extraction waits for a lock.  All who extract have found one and the same, the
\* one that the table has, and who is past it holds it.
Locking ==
  \A r \in Requests :
    /\ (entered[r] # Nothing) <=> (Extraction(r) /\ at[r] \notin {"new", "answered"})
    /\ at[r] = "locking" => Extraction(r)
    /\ entered[r] # Nothing => entered[r] = locks["extraction"]
    /\ Extraction(r) /\ at[r] \notin {"new", "locking", "answered"} =>
         holder[locks["extraction"]] = r /\ stored["extraction"] = "nothing"

\* The count of a lock is the number of its callers, and it is kept while there are any.
Counting ==
  \A n \in Kinds : /\ waiting[n] = Cardinality(Callers(n))
                   /\ (locks[n] = Nothing) <=> (waiting[n] = 0)

\* What an encoder has come to, by where its request is.
Encoding ==
  \A r \in Requests :
    /\ at[r] \in {"new", "locking", "launching"} => encoder[r] = "none"
    /\ encoder[r] = "none" => wrote[r] = "nothing"
    /\ encoder[r] = "ended" => wrote[r] # "part"
    /\ at[r] \in {"judging", "answered"} => encoder[r] # "running"
    /\ r \in live => at[r] \in {"producing", "streaming", "finishing"}
    /\ Extraction(r) => at[r] # "streaming"
    /\ Extraction(r) /\ at[r] = "finishing" /\ encoder[r] = "running" => r \in abandoned
    /\ Extraction(r) /\ encoder[r] = "killed" => r \in abandoned

Locked == LockTypes /\ Locking /\ Counting

ProductionInv == Types /\ Locked /\ Encoding /\ ServedWhole

----------------------------------------------------------------------------
\* The callers of an artefact are finitely many, and no more than the requests.
LEMMA CallersAreFew ==
  ASSUME NEW n
  PROVE  /\ IsFiniteSet(Callers(n))
         /\ Cardinality(Callers(n)) \in Nat
         /\ Cardinality(Requests) \in Nat
         /\ Cardinality(Callers(n)) <= Cardinality(Requests)
<1>1. Callers(n) \subseteq Requests
  BY DEF Callers
<1>2. QED
  BY <1>1, RequestsAssumption, FS_Subset, FS_CardinalityType

\* One caller who leaves makes the count one less, and the last makes it none.
LEMMA OneCallerLess ==
  ASSUME NEW n, NEW r \in Callers(n)
  PROVE  /\ Cardinality(Callers(n)) \in Nat \ {0}
         /\ Cardinality(Callers(n) \ {r}) = Cardinality(Callers(n)) - 1
         /\ Cardinality(Callers(n)) = 1 => Callers(n) = {r}
<1> DEFINE S == Callers(n)
<1>1. IsFiniteSet(S) /\ Cardinality(S) \in Nat
  BY CallersAreFew
<1> HIDE DEF S
<1>2. r \in S
  BY DEF S
<1>3. IsFiniteSet(S \ {r}) /\ Cardinality(S \ {r}) = Cardinality(S) - 1
  BY <1>1, <1>2, FS_RemoveElement
<1>4. Cardinality(S) # 0
  BY <1>1, <1>2, FS_EmptySet
<1>5. Cardinality(S) = 1 => S \ {r} = {}
  BY <1>1, <1>3, FS_EmptySet
<1>6. /\ Cardinality(S) \in Nat \ {0}
      /\ Cardinality(S \ {r}) = Cardinality(S) - 1
      /\ Cardinality(S) = 1 => S = {r}
  BY <1>1, <1>2, <1>3, <1>4, <1>5
<1>7. QED
  BY <1>6 DEF S

\* `_locked` on its way in: the lock is found or made, and counted.
LEMMA EnteringCounts ==
  ASSUME Types, Locked, NEW r \in Requests, EnterLock(r)
  PROVE  Locked'
<1> USE DEF Kinds, Locked, LockTypes
<1>1. /\ kind' = kind /\ kind[r] = "extraction" /\ at[r] = "new"
      /\ at' = [at EXCEPT ![r] = "locking"]
      /\ holder' = holder /\ stored' = stored
  BY DEF EnterLock, Goes, Extraction, encoderVars
<1> DEFINE lock == IF locks["extraction"] = Nothing THEN r ELSE locks["extraction"]
<1>2. /\ locks' = [locks EXCEPT !["extraction"] = lock]
      /\ waiting' = [waiting EXCEPT !["extraction"] = @ + 1]
      /\ entered' = [entered EXCEPT ![r] = lock]
  BY <1>1 DEF EnterLock
<1>3. lock \in Requests /\ lock # Nothing /\ entered[r] = Nothing
  BY <1>1, NothingAssumption DEF Types, Locking, Extraction
<1>4. \A s \in Requests : entered[s] # Nothing => locks["extraction"] # Nothing
  BY DEF Locking
<1>5. Locking'
  BY <1>1, <1>2, <1>3, <1>4 DEF Locking, Types, Extraction
<1>6. Callers("extraction")' = Callers("extraction") \union {r}
      /\ r \notin Callers("extraction")
  BY <1>1, <1>2, <1>3 DEF Callers, Types
<1>7. \A n \in Kinds \ {"extraction"} : Callers(n)' = Callers(n)
  BY <1>1, <1>2, <1>3 DEF Callers, Types
<1>8. Cardinality(Callers("extraction"))' = Cardinality(Callers("extraction")) + 1
  BY <1>6, CallersAreFew, FS_AddElement
<1>9. Counting'
  BY <1>2, <1>3, <1>7, <1>8, CallersAreFew DEF Counting, Types
<1>10. LockTypes'
  BY <1>1, <1>2, <1>3 DEF LockTypes
<1>11. QED
  BY <1>5, <1>9, <1>10

\* `_locked` on its way out: the lock is let go by who holds it, or by who found that
\* there is nothing left to do.
LEMMA LeavingCounts ==
  ASSUME Types, Locked, NEW r \in Requests, LeaveLock(r),
         kind' = kind, Extraction(r), at[r] \notin {"new", "answered"},
         at[r] = "locking" => holder[entered[r]] = Nothing,
         at' = [at EXCEPT ![r] = "answered"]
  PROVE  Locked'
<1> USE DEF Kinds, Locked, LockTypes
<1>1. kind[r] = "extraction" /\ entered[r] # Nothing
      /\ entered[r] = locks["extraction"]
  BY DEF Extraction, Locking
<1>2. /\ waiting' = [waiting EXCEPT !["extraction"] = @ - 1]
      /\ locks' = [locks EXCEPT !["extraction"] =
                     IF waiting["extraction"] = 1 THEN Nothing ELSE @]
      /\ entered' = [entered EXCEPT ![r] = Nothing]
  BY <1>1 DEF LeaveLock
<1>3. /\ Callers("extraction")' = Callers("extraction") \ {r}
      /\ r \in Callers("extraction")
  BY <1>1, <1>2 DEF Callers, Types
<1>4. \A n \in Kinds \ {"extraction"} : Callers(n)' = Callers(n)
  BY <1>1, <1>2 DEF Callers, Types
<1>5. /\ Cardinality(Callers("extraction"))' = Cardinality(Callers("extraction")) - 1
      /\ Cardinality(Callers("extraction")) \in Nat \ {0}
  BY <1>3, OneCallerLess
<1>6. waiting["extraction"] = 1 => \A s \in Requests \ {r} : entered[s] = Nothing
  <2>1. SUFFICES ASSUME waiting["extraction"] = 1
                 PROVE  \A s \in Requests \ {r} : entered[s] = Nothing
    OBVIOUS
  <2>2. Cardinality(Callers("extraction")) = 1
    BY <2>1 DEF Counting
  <2>3. Callers("extraction") = {r}
    BY <2>2, <1>3, OneCallerLess
  <2>4. QED
    BY <2>3 DEF Callers, Locking, Extraction
<1>7. \A s \in Requests \ {r} :
        Extraction(s) => at[s] \in {"new", "locking", "answered"}
  <2>1. CASE at[r] = "locking"
    BY <2>1, <1>1, NothingAssumption DEF Locking
  <2>2. CASE at[r] # "locking"
    BY <2>2, <1>1 DEF Locking
  <2>3. QED
    BY <2>1, <2>2
<1>8. Locking'
  BY <1>1, <1>2, <1>6, <1>7 DEF Locking, Types, Extraction
<1>9. Counting'
  BY <1>1, <1>2, <1>4, <1>5, CallersAreFew DEF Counting, Types
<1>10. LockTypes'
  <2>1. waiting["extraction"] - 1 \in Nat
    BY <1>5 DEF Counting
  <2>2. holder' = [holder EXCEPT ![entered[r]] = Nothing]
    BY DEF LeaveLock
  <2>3. QED
    BY <1>2, <2>1, <2>2 DEF LockTypes
<1>11. QED
  BY <1>8, <1>9, <1>10

\* Where nobody comes to a lock or leaves it, and no extraction is published, the facts
\* about the locks stay as they are.
LEMMA LocksStand ==
  ASSUME Types, Locked, NEW r \in Requests, UNCHANGED <<kind, lockVars>>,
         NEW next, at' = [at EXCEPT ![r] = next], next # "locking",
         Extraction(r) => /\ at[r] \notin {"new", "locking", "answered"}
                          /\ next \notin {"new", "answered"},
         stored'["extraction"] = stored["extraction"]
  PROVE  Locked'
<1>1. Locking'
  BY DEF Locked, Locking, Types, Extraction, lockVars
<1>2. Counting'
  BY DEF Locked, Counting, Callers, lockVars
<1>3. LockTypes'
  BY DEF Locked, LockTypes, lockVars
<1>4. QED
  BY <1>1, <1>2, <1>3 DEF Locked

\* The same for a step that no handler takes.
LEMMA LocksRest ==
  ASSUME Locked, UNCHANGED <<kind, at, lockVars, stored>>
  PROVE  Locked'
<1>1. Locking'
  BY DEF Locked, Locking, Extraction, lockVars
<1>2. Counting'
  BY DEF Locked, Counting, Callers, lockVars
<1>3. LockTypes'
  BY DEF Locked, LockTypes, lockVars
<1>4. QED
  BY <1>1, <1>2, <1>3 DEF Locked

\* What is given up with `Gone` leaves the lock it holds, if it has one.
LEMMA GoingLeaves ==
  ASSUME Types, Locked, NEW r \in Requests, Gone(r), kind' = kind,
         at[r] \in {"launching", "judging"},
         ~Extraction(r) => stored'["extraction"] = stored["extraction"]
  PROVE  Locked'
<1>1. CASE Extraction(r)
  BY <1>1, LeavingCounts DEF Gone, Goes
<1>2. CASE ~Extraction(r)
  BY <1>2, LocksStand DEF Gone, Goes
<1>3. QED
  BY <1>1, <1>2

\* What has been stored in part keeps the request it was left by.
LEMMA ServedStands ==
  ASSUME ServedWhole, stored' = stored, kind' = kind,
         abandoned \subseteq abandoned',
         \A r \in Requests : encoder[r] = "failed" => encoder'[r] = "failed"
  PROVE  ServedWhole'
BY DEF ServedWhole, Extraction

----------------------------------------------------------------------------
\* Every step of a handler or of an encoder keeps what the invariant says.
LEMMA LockStepsKeepInv ==
  ASSUME ProductionInv, NEW r \in Requests, EnterLock(r) \/ TakeLock(r)
  PROVE  ProductionInv'
<1> USE DEF ProductionInv
<1>1. CASE EnterLock(r)
  <2>1. Locked'
    BY <1>1, EnteringCounts
  <2>2. Types' /\ Encoding'
    BY <1>1 DEF EnterLock, Goes, Types, Encoding, Extraction, encoderVars
  <2>3. ServedWhole'
    BY <1>1, ServedStands DEF EnterLock, encoderVars
  <2>4. QED
    BY <2>1, <2>2, <2>3
<1>2. CASE TakeLock(r)
  <2>1. /\ kind' = kind /\ at[r] = "locking" /\ holder[entered[r]] = Nothing
        /\ UNCHANGED <<encoderVars, live, stored, abandoned>>
    BY <1>2 DEF TakeLock, LeaveLock
  <2>2. /\ Extraction(r) /\ kind[r] = "extraction"
        /\ entered[r] # Nothing /\ entered[r] \in Requests
        /\ entered[r] = locks["extraction"]
    BY <2>1 DEF Extraction, Locked, LockTypes, Locking, Types, Counting, Kinds
  <2>3. ServedWhole'
    BY <2>1, ServedStands DEF encoderVars
  <2>4. CASE stored[kind[r]] = "nothing"
    <3>1. /\ holder' = [holder EXCEPT ![entered[r]] = r]
          /\ at' = [at EXCEPT ![r] = "launching"]
          /\ UNCHANGED <<locks, waiting, entered>>
      BY <1>2, <2>4 DEF TakeLock, Goes
    <3>2. \A s \in Requests : Extraction(s) => at[s] \in {"new", "locking", "answered"}
      BY <2>1, <2>2, NothingAssumption DEF Locked, Locking
    <3>3. Locking'
      BY <2>1, <2>2, <2>4, <3>1, <3>2 DEF Locked, LockTypes, Locking, Types, Extraction
    <3>4. Counting'
      BY <2>1, <3>1 DEF Locked, Counting, Callers
    <3>5. LockTypes'
      BY <2>2, <3>1 DEF Locked, LockTypes
    <3>6. Types' /\ Encoding'
      BY <2>1, <3>1 DEF Types, Encoding, Extraction, encoderVars
    <3>7. QED
      BY <2>3, <3>3, <3>4, <3>5, <3>6 DEF Locked
  <2>5. CASE stored[kind[r]] # "nothing"
    <3>1. LeaveLock(r) /\ at' = [at EXCEPT ![r] = "answered"]
      BY <1>2, <2>5 DEF TakeLock, Goes
    <3>2. Locked'
      BY <2>1, <2>2, <3>1, LeavingCounts
    <3>3. Types' /\ Encoding'
      BY <2>1, <3>1 DEF Types, Encoding, Extraction, encoderVars
    <3>4. QED
      BY <2>3, <3>2, <3>3
  <2>6. QED
    BY <2>4, <2>5
<1>3. QED
  BY <1>1, <1>2

LEMMA BeginningKeepsInv ==
  ASSUME ProductionInv, NEW r \in Requests, Begin(r) \/ Launch(r) \/ LaunchFails(r)
  PROVE  ProductionInv'
<1> USE DEF ProductionInv
<1>1. CASE Begin(r)
  <2>1. PICK next \in {"answered", "launching"} : at' = [at EXCEPT ![r] = next]
    BY <1>1 DEF Begin, Goes
  <2>2. /\ at[r] = "new" /\ ~Extraction(r)
        /\ UNCHANGED <<kind, encoderVars, live, stored, lockVars, abandoned>>
    BY <1>1 DEF Begin
  <2>3. Locked'
    BY <2>1, <2>2, LocksStand
  <2>4. Types' /\ Encoding'
    BY <2>1, <2>2 DEF Types, Encoding, Extraction, encoderVars
  <2>5. ServedWhole'
    BY <2>2, ServedStands DEF encoderVars
  <2>6. QED
    BY <2>3, <2>4, <2>5
<1>2. CASE Launch(r)
  <2>1. Locked'
    BY <1>2, LocksStand DEF Launch, Goes
  <2>2. Types' /\ Encoding'
    BY <1>2 DEF Launch, Goes, Types, Encoding, Extraction
  <2>3. ServedWhole'
    <3>1. \A s \in Requests : encoder[s] = "failed" => encoder'[s] = "failed"
      BY <1>2 DEF Launch, Types, Encoding
    <3>2. QED
      BY <1>2, <3>1, ServedStands DEF Launch
  <2>4. QED
    BY <2>1, <2>2, <2>3
<1>3. CASE LaunchFails(r)
  <2>1. Locked'
    BY <1>3, GoingLeaves DEF LaunchFails
  <2>2. Types' /\ Encoding'
    BY <1>3 DEF LaunchFails, Gone, Goes, Types, Encoding, Extraction, encoderVars
  <2>3. ServedWhole'
    BY <1>3, ServedStands DEF LaunchFails, encoderVars
  <2>4. QED
    BY <2>1, <2>2, <2>3
<1>4. QED
  BY <1>1, <1>2, <1>3

LEMMA WaitingKeepsInv ==
  ASSUME ProductionInv, NEW r \in Requests,
         Exited(r) \/ TimeOut(r) \/ FirstBlock(r) \/ BodyEnds(r) \/ Finish(r)
  PROVE  ProductionInv'
<1> USE DEF ProductionInv
<1>1. CASE Exited(r) \/ TimeOut(r)
  <2>1. Locked'
    BY <1>1, LocksStand DEF Exited, TimeOut, Goes
  <2>2. Types' /\ Encoding'
    BY <1>1 DEF Exited, TimeOut, Goes, Types, Encoding, Extraction, encoderVars
  <2>3. ServedWhole'
    BY <1>1, ServedStands DEF Exited, TimeOut, encoderVars
  <2>4. QED
    BY <2>1, <2>2, <2>3
<1>2. CASE FirstBlock(r)
  <2>1. PICK next \in {"finishing", "streaming"} : at' = [at EXCEPT ![r] = next]
    BY <1>2 DEF FirstBlock, Goes
  <2>2. /\ at[r] = "producing" /\ kind[r] = "stream" /\ ~Extraction(r)
        /\ UNCHANGED <<kind, encoderVars, live, stored, lockVars, abandoned>>
    BY <1>2 DEF FirstBlock, Extraction
  <2>3. Locked'
    BY <2>1, <2>2, LocksStand
  <2>4. Types' /\ Encoding'
    BY <2>1, <2>2 DEF Types, Encoding, Extraction, encoderVars
  <2>5. ServedWhole'
    BY <2>2, ServedStands DEF encoderVars
  <2>6. QED
    BY <2>3, <2>4, <2>5
<1>3. CASE BodyEnds(r)
  <2>1. Locked'
    BY <1>3, LocksStand DEF BodyEnds, Goes
  <2>2. Types' /\ Encoding'
    BY <1>3 DEF BodyEnds, Goes, Types, Encoding, Extraction, encoderVars
  <2>3. ServedWhole'
    BY <1>3, ServedStands DEF BodyEnds, encoderVars
  <2>4. QED
    BY <2>1, <2>2, <2>3
<1>4. CASE Finish(r)
  <2>1. Locked'
    BY <1>4, LocksStand DEF Finish, Goes
  <2>2. Types' /\ Encoding'
    BY <1>4 DEF Finish, Goes, Types, Encoding, Extraction
  <2>3. ServedWhole'
    <3>1. \A s \in Requests : encoder[s] = "failed" => encoder'[s] = "failed"
      BY <1>4 DEF Finish, Types
    <3>2. QED
      BY <1>4, <3>1, ServedStands DEF Finish
  <2>4. QED
    BY <2>1, <2>2, <2>3
<1>5. QED
  BY <1>1, <1>2, <1>3, <1>4

\* What a request publishes is whole, or it is an extraction that failed or that was
\* given up: its encoder no longer runs, and one that ended by itself wrote it all.
LEMMA JudgingKeepsInv ==
  ASSUME ProductionInv, NEW r \in Requests, Publish(r) \/ GiveUp(r)
  PROVE  ProductionInv'
<1> USE DEF ProductionInv
<1>1. at[r] = "judging" /\ Gone(r) /\ UNCHANGED <<kind, encoderVars, live, abandoned>>
  BY DEF Publish, GiveUp
<1>2. ~Extraction(r) => stored'["extraction"] = stored["extraction"]
  BY DEF Publish, GiveUp, Extraction, Types, Kinds
<1>3. Locked'
  BY <1>1, <1>2, GoingLeaves
<1>4. Encoding'
  BY <1>1 DEF Gone, Goes, Types, Encoding, Extraction, encoderVars
<1>5. stored' \in [Kinds -> {"nothing", "part", "whole"}]
  BY DEF Publish, GiveUp, Types
<1>6. Types'
  BY <1>1, <1>5 DEF Gone, Goes, Types, encoderVars
<1>7. ServedWhole'
  <2>1. CASE GiveUp(r)
    BY <2>1, ServedStands DEF GiveUp, encoderVars
  <2>2. CASE Publish(r)
    <3>1. /\ stored' = [stored EXCEPT ![kind[r]] = wrote[r]]
          /\ Publishable(r) /\ kind[r] # "stream" /\ kind[r] \in Kinds
      BY <2>2 DEF Publish, Types
    <3>2. wrote[r] = "part" =>
            Extraction(r) /\ (encoder[r] = "failed" \/ r \in abandoned)
      BY <1>1, <3>1 DEF Publishable, Extraction, Encoding, Types, Kinds
    <3>3. QED
      BY <1>1, <3>1, <3>2 DEF ServedWhole, Extraction, encoderVars, Types
  <2>3. QED
    BY <2>1, <2>2
<1>8. QED
  BY <1>3, <1>4, <1>6, <1>7

LEMMA EncodersKeepInv ==
  ASSUME ProductionInv, NEW r \in Requests, Writes(r) \/ Ends(r) \/ Fails(r)
  PROVE  ProductionInv'
<1> USE DEF ProductionInv
<1>1. UNCHANGED <<kind, at, lockVars, stored, live, abandoned>>
  BY DEF Writes, Ends, Fails
<1>2. Locked'
  BY <1>1, LocksRest
<1>3. Types' /\ Encoding'
  BY <1>1 DEF Writes, Ends, Fails, Types, Encoding, Extraction
<1>4. \A s \in Requests : encoder[s] = "failed" => encoder'[s] = "failed"
  BY DEF Writes, Ends, Fails, Types
<1>5. ServedWhole'
  BY <1>1, <1>4, ServedStands
<1>6. QED
  BY <1>2, <1>3, <1>5

\* No step breaks the invariant.
LEMMA StepKeepsInv ==
  ASSUME ProductionInv, [ProductionNext]_productionVars
  PROVE  ProductionInv'
<1>1. CASE UNCHANGED productionVars
  <2>1. Locked'
    BY <1>1, LocksRest DEF ProductionInv, productionVars, lockVars
  <2>2. Types' /\ Encoding' /\ ServedWhole'
    BY <1>1 DEF ProductionInv, productionVars, Types, Encoding, ServedWhole, Extraction
  <2>3. QED
    BY <2>1, <2>2 DEF ProductionInv
<1>2. ASSUME NEW r \in Requests, HandlerOf(r) \/ Writes(r) \/ Ends(r) \/ Fails(r)
      PROVE  ProductionInv'
  BY <1>2, LockStepsKeepInv, BeginningKeepsInv, WaitingKeepsInv, JudgingKeepsInv,
     EncodersKeepInv DEF HandlerOf
<1>3. QED
  BY <1>1, <1>2 DEF ProductionNext

\* Nobody has come yet, and nothing has been produced.
LEMMA StartHasInv == ASSUME ProductionInit PROVE ProductionInv
<1>1. Types
  BY MixesAssumption DEF ProductionInit, Types
<1>2. LockTypes /\ Locking /\ Encoding /\ ServedWhole
  BY DEF ProductionInit, LockTypes, Locking, Encoding, ServedWhole, Extraction, Kinds
<1>3. \A n : Callers(n) = {}
  BY DEF ProductionInit, Callers
<1>4. Counting
  BY <1>3, FS_EmptySet DEF ProductionInit, Counting
<1>5. QED
  BY <1>1, <1>2, <1>4 DEF ProductionInv, Locked

\* The invariant holds in every state of every behaviour.
LEMMA ProductionInvHolds == ProductionSpec => []ProductionInv
<1>1. ProductionInit => ProductionInv
  BY StartHasInv
<1>2. ProductionInv /\ [ProductionNext]_productionVars => ProductionInv'
  BY StepKeepsInv
<1>3. QED
  BY <1>1, <1>2, PTL DEF ProductionSpec

----------------------------------------------------------------------------
\* The variables keep their types, and a lock never counts more callers than there are
\* requests.
THEOREM ProductionTypes == ProductionSpec => []ProductionTypeOK
<1>1. ProductionInv => ProductionTypeOK
  <2>1. SUFFICES ASSUME ProductionInv PROVE ProductionTypeOK
    OBVIOUS
  <2>2. waiting \in [Kinds -> 0..Cardinality(Requests)]
    BY <2>1, CallersAreFew DEF ProductionInv, Locked, LockTypes, Counting
  <2>3. QED
    BY <2>1, <2>2 DEF ProductionInv, Locked, LockTypes, Types, ProductionTypeOK
<1>2. QED
  BY <1>1, ProductionInvHolds, PTL

\* However many requests ask for a subtitle, one extraction of it runs, and none is begun
\* over one that is there (`_locked` and `_extracted` of media/extract.py).
THEOREM SubtitlesAreExtractedOnce == ProductionSpec => []OneExtractionPerArtefact
<1>1. ProductionInv => OneExtractionPerArtefact
  BY DEF ProductionInv, Locked, Locking, OneExtractionPerArtefact, Producing, Extraction
<1>2. QED
  BY <1>1, ProductionInvHolds, PTL

\* An answered request leaves no encoder running or listed, and a lock is forgotten with
\* its last caller and not before (`ProductionLedger.finish`, `_locked`).
THEOREM NothingIsLeftBehind == ProductionSpec => []NothingOutlivesItsRequest
<1>1. ProductionInv => NothingOutlivesItsRequest
  BY DEF ProductionInv, Locked, Counting, Callers, Encoding, NothingOutlivesItsRequest
<1>2. QED
  BY <1>1, ProductionInvHolds, PTL

\* What is served is whole, but for an extraction that failed or was given up
\* (`_to_scratch` of api/delivery.py, `_produce` of media/extract.py).
THEOREM WhatIsServedIsWhole == ProductionSpec => []ServedWhole
<1>1. ProductionInv => ServedWhole
  BY DEF ProductionInv
<1>2. QED
  BY <1>1, ProductionInvHolds, PTL

----------------------------------------------------------------------------
(* Places.                                                                 *)

\* Some entries can be put in order if they are finitely many and each has an ordinal.
Numbered(rows, keys) ==
  keys \in SUBSET Nat /\ IsFiniteSet(keys) /\ \A k \in keys : rows[k] \in Nat

\* No two entries come in both orders, and one of two always does.
LEMMA OrderIsTotal ==
  ASSUME NEW rows, NEW keys, Numbered(rows, keys)
  PROVE  /\ \A a \in keys : ~Precedes(rows, a, a)
         /\ \A a, b \in keys : Precedes(rows, a, b) => ~Precedes(rows, b, a)
         /\ \A a, b \in keys : a # b => Precedes(rows, a, b) \/ Precedes(rows, b, a)
         /\ \A a, b, c \in keys :
              Precedes(rows, a, b) /\ Precedes(rows, b, c) => Precedes(rows, a, c)
<1>1. \A a \in keys : a \in Nat /\ rows[a] \in Nat
  BY DEF Numbered
<1> QED BY <1>1 DEF Precedes

\* A place among some entries is a number, less than theirs for one of them.
LEMMA PlaceIsANumber ==
  ASSUME NEW rows, NEW keys, Numbered(rows, keys), NEW k
  PROVE  /\ Place(rows, keys, k) \in Nat
         /\ Cardinality(keys) \in Nat
         /\ Place(rows, keys, k) <= Cardinality(keys)
         /\ k \in keys => Place(rows, keys, k) < Cardinality(keys)
<1> DEFINE before == {a \in keys : Precedes(rows, a, k)}
<1>1. IsFiniteSet(keys)
  BY DEF Numbered
<1>2. /\ Cardinality(before) \in Nat /\ Cardinality(keys) \in Nat
      /\ Cardinality(before) <= Cardinality(keys)
  BY <1>1, FS_Subset, FS_CardinalityType
<1>3. ASSUME k \in keys PROVE Cardinality(before) < Cardinality(keys)
  <2>1. before \subseteq keys \ {k}
    BY <1>3, OrderIsTotal
  <2>2. IsFiniteSet(keys \ {k}) /\ Cardinality(keys \ {k}) = Cardinality(keys) - 1
    BY <1>1, <1>3, FS_RemoveElement
  <2>3. Cardinality(before) <= Cardinality(keys \ {k})
    BY <2>1, <2>2, FS_Subset
  <2> QED BY <1>2, <2>2, <2>3
<1> QED BY <1>2, <1>3 DEF Place

\* Fewer come before the earlier of two.
LEMMA PlacesAreOrdered ==
  ASSUME NEW rows, NEW keys, Numbered(rows, keys), NEW a \in keys, NEW b \in keys
  PROVE  Precedes(rows, a, b) <=> Place(rows, keys, a) < Place(rows, keys, b)
<1>1. ASSUME NEW x \in keys, NEW y \in keys, Precedes(rows, x, y)
      PROVE  Place(rows, keys, x) < Place(rows, keys, y)
  <2> DEFINE earlier == {c \in keys : Precedes(rows, c, x)}
             later == {c \in keys : Precedes(rows, c, y)}
  <2>1. earlier \subseteq later \ {x} /\ x \in later
    BY <1>1, OrderIsTotal
  <2>2. IsFiniteSet(later)
    BY FS_Subset DEF Numbered
  <2>3. /\ IsFiniteSet(later \ {x})
        /\ Cardinality(later \ {x}) = Cardinality(later) - 1
    BY <2>1, <2>2, FS_RemoveElement
  <2>4. Cardinality(earlier) <= Cardinality(later \ {x})
    BY <2>1, <2>3, FS_Subset
  <2>5. Cardinality(earlier) \in Nat /\ Cardinality(later) \in Nat
    BY <2>1, <2>2, <2>3, FS_Subset, FS_CardinalityType
  <2> QED BY <2>3, <2>4, <2>5 DEF Place
<1>2. Place(rows, keys, a) \in Nat /\ Place(rows, keys, b) \in Nat
  BY PlaceIsANumber
<1>3. CASE a = b
  BY <1>2, <1>3, OrderIsTotal
<1>4. ASSUME a # b PROVE Precedes(rows, a, b) \/ Precedes(rows, b, a)
  BY <1>4, OrderIsTotal
<1>5. /\ Precedes(rows, a, b) => Place(rows, keys, a) < Place(rows, keys, b)
      /\ Precedes(rows, b, a) => Place(rows, keys, b) < Place(rows, keys, a)
  BY <1>1
<1> QED BY <1>2, <1>3, <1>4, <1>5

\* Of so many entries as there are places, each below their number and none twice, no
\* place is left empty.
LEMMA PlacesAreFilled ==
  ASSUME NEW keys, IsFiniteSet(keys), NEW place \in [keys -> Nat],
         \A k \in keys : place[k] < Cardinality(keys),
         \A a, b \in keys : place[a] = place[b] => a = b
  PROVE  {place[k] : k \in keys} = 0..(Cardinality(keys) - 1)
<1> DEFINE n == Cardinality(keys)
           places == {place[k] : k \in keys}
<1>1. n \in Nat
  BY FS_CardinalityType
<1>2. places \subseteq 0..(n - 1)
  BY <1>1
<1>3. IsFiniteSet(0..(n - 1)) /\ Cardinality(0..(n - 1)) = n
  BY <1>1, FS_Interval
<1>4. IsFiniteSet(places)
  BY <1>2, <1>3, FS_Subset
<1>5. place \in Injection(keys, places)
  BY DEF Injection, IsInjective
<1>6. n <= Cardinality(places)
  BY <1>4, <1>5, FS_Injection
<1>7. ASSUME places # 0..(n - 1) PROVE FALSE
  <2>1. PICK x \in 0..(n - 1) : x \notin places
    BY <1>2, <1>7
  <2>2. places \subseteq (0..(n - 1)) \ {x}
    BY <1>2, <2>1
  <2>3. /\ IsFiniteSet((0..(n - 1)) \ {x})
        /\ Cardinality((0..(n - 1)) \ {x}) = n - 1
    BY <1>3, <2>1, FS_RemoveElement
  <2>4. Cardinality(places) <= n - 1
    BY <2>2, <2>3, FS_Subset
  <2>5. Cardinality(places) \in Nat
    BY <1>4, FS_CardinalityType
  <2> QED BY <1>1, <1>6, <2>4, <2>5
<1> QED BY <1>7

\* So the places of finitely many entries are 0, 1, ... and no two entries share one.
LEMMA PlacesAreContiguous ==
  ASSUME NEW rows, NEW keys, Numbered(rows, keys)
  PROVE  /\ \A a, b \in keys : Place(rows, keys, a) = Place(rows, keys, b) => a = b
         /\ {Place(rows, keys, k) : k \in keys} = 0..(Cardinality(keys) - 1)
<1> DEFINE place == [k \in keys |-> Place(rows, keys, k)]
<1>1. place \in [keys -> Nat] /\ \A k \in keys : place[k] < Cardinality(keys)
  BY PlaceIsANumber
<1>2. ASSUME NEW a \in keys, NEW b \in keys, Place(rows, keys, a) = Place(rows, keys, b)
      PROVE  a = b
  <2>1. ~Precedes(rows, a, b) /\ ~Precedes(rows, b, a)
    BY <1>2, PlaceIsANumber, PlacesAreOrdered
  <2> QED BY <2>1, OrderIsTotal
<1>3. \A a, b \in keys : place[a] = place[b] => a = b
  BY <1>2
<1>4. {place[k] : k \in keys} = 0..(Cardinality(keys) - 1)
  <2> HIDE DEF place
  <2> QED BY <1>1, <1>3, PlacesAreFilled DEF Numbered
<1>5. {place[k] : k \in keys} = {Place(rows, keys, k) : k \in keys}
  OBVIOUS
<1> QED BY <1>2, <1>4, <1>5

\* Two entries come in one order under both of two numberings if they do so by their places
\* or ordinals.
LEMMA OrderOfOrdinals ==
  ASSUME NEW rows, NEW keys, Numbered(rows, keys),
         \A a, b \in keys : rows[a] = rows[b] => a = b
  PROVE  \A a, b \in keys : Precedes(rows, a, b) <=> rows[a] < rows[b]
<1>1. \A a \in keys : a \in Nat /\ rows[a] \in Nat
  BY DEF Numbered
<1> QED BY <1>1 DEF Precedes

----------------------------------------------------------------------------
(* What each request makes of the rows.                                    *)

\* The ordinals are 0, 1, ... without a gap and none twice.
Contiguous(rows) == {rows[k] : k \in DOMAIN rows} = 0..(Cardinality(DOMAIN rows) - 1)

\* The rows of a playlist.
Rows(rows) ==
  /\ DOMAIN rows \subseteq Keys
  /\ \A k \in DOMAIN rows : rows[k] \in Nat
  /\ Contiguous(rows)

\* The items are finitely many numbers, so that entries can be put in order.
LEMMA RowsAreNumbered ==
  ASSUME NEW rows, Rows(rows), NEW keys \in SUBSET DOMAIN rows
  PROVE  Numbered(rows, keys)
<1>1. keys \subseteq Keys
  BY DEF Rows
<1>2. keys \in SUBSET Nat /\ IsFiniteSet(keys)
  BY <1>1, KeysAssumption, FS_Subset
<1> QED BY <1>2 DEF Numbered, Rows

\* Renumbering leaves no gap and the order as it is.
LEMMA RenumberingKeepsOrder ==
  ASSUME NEW rows, Rows(rows), NEW keys \in SUBSET DOMAIN rows
  PROVE  LET new == Renumbered(rows, keys)
         IN /\ Rows(new) /\ DOMAIN new = keys
            /\ \A a, b \in keys : Precedes(new, a, b) <=> Precedes(rows, a, b)
<1> DEFINE new == Renumbered(rows, keys)
<1>1. DOMAIN new = keys /\ \A k \in keys : new[k] = Place(rows, keys, k)
  BY DEF Renumbered
<1> HIDE DEF new
<1>2. Numbered(rows, keys)
  BY RowsAreNumbered
<1>3. \A k \in keys : new[k] \in Nat
  BY <1>1, <1>2, PlaceIsANumber
<1>4. \A a, b \in keys : new[a] = new[b] => a = b
  BY <1>1, <1>2, PlacesAreContiguous
<1>5. {new[k] : k \in keys} = 0..(Cardinality(keys) - 1)
  <2>1. {new[k] : k \in keys} = {Place(rows, keys, k) : k \in keys}
    BY <1>1
  <2> QED BY <1>2, <2>1, PlacesAreContiguous
<1>6. Rows(new)
  <2>1. keys \subseteq Keys
    BY DEF Rows
  <2> QED BY <1>1, <1>3, <1>5, <2>1 DEF Rows, Contiguous
<1>7. Numbered(new, keys)
  BY <1>1, <1>6, RowsAreNumbered
<1>8. ASSUME NEW a \in keys, NEW b \in keys
      PROVE  Precedes(new, a, b) <=> Precedes(rows, a, b)
  <2>1. Precedes(new, a, b) <=> new[a] < new[b]
    BY <1>4, <1>7, OrderOfOrdinals
  <2>2. Precedes(rows, a, b) <=> Place(rows, keys, a) < Place(rows, keys, b)
    BY <1>2, PlacesAreOrdered
  <2> QED BY <1>1, <2>1, <2>2
<1> QED BY <1>1, <1>6, <1>8 DEF new

\* A set of numbers has a least one.
LEMMA LeastOfNumbers ==
  ASSUME NEW S \in SUBSET Nat, S # {}
  PROVE  Min(S) \in S
<1>1. PICK x \in S : \A y \in S : ~ (<<y, x>> \in OpToRel(<, Nat))
  BY NatLessThanWellFounded, WFMin
<1>2. \A y \in S : ~ (y < x)
  BY <1>1, Zenon DEF OpToRel
<1>3. \E y \in S : \A z \in S : y <= z
  BY <1>2
<1> QED BY <1>3 DEF Min

\* What is added comes behind what is there, which keeps its ordinals.
LEMMA AppendingKeepsOrder ==
  ASSUME NEW rows, Rows(rows), NEW items \in Seq(Keys), NEW resolved \in SUBSET ToSet(items)
  PROVE  LET new == Appended(rows, items, resolved)
         IN /\ Rows(new) /\ DOMAIN rows \subseteq DOMAIN new
            /\ \A k \in DOMAIN rows : new[k] = rows[k]
<1> DEFINE there == DOMAIN rows
           wanted == resolved \ there
           named == [k \in wanted |-> Named(items, k)]
           n == Cardinality(there)
           m == Cardinality(wanted)
           new == Appended(rows, items, resolved)
<1>1. /\ DOMAIN new = there \union wanted
      /\ \A k \in there : new[k] = rows[k]
      /\ \A k \in wanted : new[k] = n + Place(named, wanted, k)
  BY DEF Appended
<1> HIDE DEF new
<1>2. wanted \subseteq Keys /\ there \subseteq Keys
  BY DEF Rows, ToSet
<1>3. IsFiniteSet(there) /\ IsFiniteSet(wanted) /\ wanted \in SUBSET Nat
  BY <1>2, KeysAssumption, FS_Subset
<1>4. ASSUME NEW k \in wanted PROVE named[k] \in Nat
  <2> DEFINE where == {i \in DOMAIN items : items[i] = k}
  <2>1. where \in SUBSET Nat /\ where # {}
    BY DEF ToSet
  <2> HIDE DEF where
  <2>2. Min(where) \in Nat
    BY <2>1, LeastOfNumbers
  <2> QED BY <2>2 DEF Named, where
<1>5. Numbered(named, wanted)
  BY <1>3, <1>4 DEF Numbered
<1>6. n \in Nat /\ m \in Nat /\ Cardinality(there \union wanted) = n + m
  <2>1. there \cap wanted = {}
    OBVIOUS
  <2>2. n \in Nat /\ m \in Nat /\ Cardinality({}) = 0
    BY <1>3, FS_CardinalityType, FS_EmptySet
  <2>3. Cardinality(there \union wanted) = n + m - Cardinality(there \cap wanted)
    BY <1>3, FS_Union
  <2>4. Cardinality(there \cap wanted) = 0
    BY <2>1, <2>2
  <2> HIDE DEF n, m, there, wanted
  <2> QED BY <2>2, <2>3, <2>4
<1>7. /\ {Place(named, wanted, k) : k \in wanted} = 0..(m - 1)
      /\ \A k \in wanted : Place(named, wanted, k) \in Nat
  BY <1>5, PlacesAreContiguous, PlaceIsANumber
<1>8. {rows[k] : k \in there} = 0..(n - 1)
  BY DEF Rows, Contiguous
<1> HIDE DEF named, wanted, n, m
<1>9. ASSUME NEW k \in there \union wanted PROVE new[k] \in 0..(n + m - 1)
  <2>1. CASE k \in there
    <3>1. rows[k] \in 0..(n - 1)
      BY <1>8, <2>1
    <3> QED BY <1>1, <1>6, <2>1, <3>1
  <2>2. CASE k \in wanted
    <3>1. Place(named, wanted, k) \in 0..(m - 1)
      BY <1>7, <2>2
    <3> QED BY <1>1, <1>6, <2>2, <3>1
  <2> QED BY <2>1, <2>2
<1>10. ASSUME NEW x \in 0..(n + m - 1) PROVE \E k \in there \union wanted : new[k] = x
  <2>1. CASE x < n
    <3>1. x \in 0..(n - 1)
      BY <1>6, <2>1
    <3>2. PICK k \in there : rows[k] = x
      BY <1>8, <3>1
    <3> QED BY <1>1, <3>2
  <2>2. CASE x >= n
    <3>1. x - n \in 0..(m - 1)
      BY <1>6, <2>2
    <3>2. PICK k \in wanted : Place(named, wanted, k) = x - n
      BY <1>7, <3>1
    <3> QED BY <1>1, <1>6, <3>2
  <2> QED BY <1>6, <2>1, <2>2
<1>11. Rows(new)
  <2>1. {new[k] : k \in there \union wanted} = 0..(n + m - 1)
    BY <1>9, <1>10
  <2>2. Contiguous(new)
    BY <1>1, <1>6, <2>1 DEF Contiguous
  <2>3. \A k \in DOMAIN new : new[k] \in Nat
    BY <1>1, <1>6, <1>9
  <2> QED BY <1>1, <1>2, <2>2, <2>3 DEF Rows
<1> QED BY <1>1, <1>11 DEF new

\* An entry put in among the others leaves them as they were.
LEMMA InsertingKeepsOthers ==
  ASSUME NEW rows, Rows(rows), NEW k \in DOMAIN rows,
         NEW place \in 0..Cardinality(DOMAIN rows \ {k})
  PROVE  LET new == Inserted(rows, k, place)
             others == DOMAIN rows \ {k}
         IN /\ Rows(new) /\ DOMAIN new = DOMAIN rows
            /\ \A a, b \in others : Precedes(new, a, b) <=> Precedes(rows, a, b)
            /\ \A a \in others :
                 Precedes(new, a, k) <=> Place(rows, others, a) < place
<1> DEFINE there == DOMAIN rows
           others == there \ {k}
           new == Inserted(rows, k, place)
           P(a) == Place(rows, others, a)
           m == Cardinality(others)
<1>1. /\ new \in [there -> {new[a] : a \in there}]
      /\ new[k] = place
      /\ \A a \in others : new[a] = IF P(a) < place THEN P(a) ELSE P(a) + 1
  BY DEF Inserted
<1> HIDE DEF new
<1>2. Numbered(rows, others)
  BY RowsAreNumbered
<1>3. m \in Nat /\ \A a \in others : P(a) \in Nat /\ P(a) < m
  BY <1>2, PlaceIsANumber
<1>4. \A a, b \in others : P(a) = P(b) => a = b
  BY <1>2, PlacesAreContiguous
<1>5. there \subseteq Keys /\ IsFiniteSet(there) /\ Cardinality(there) = m + 1
  <2>1. IsFiniteSet(there)
    BY RowsAreNumbered DEF Numbered
  <2>2. Cardinality(others) = Cardinality(there) - 1 /\ Cardinality(there) \in Nat
    BY <2>1, FS_RemoveElement, FS_CardinalityType
  <2>3. there \subseteq Keys
    BY DEF Rows
  <2> HIDE DEF others, there
  <2> QED BY <2>1, <2>2, <2>3
<1>6. \A a, b \in others : P(a) < P(b) <=> Precedes(rows, a, b)
  BY <1>2, PlacesAreOrdered
<1>7. place \in Nat /\ place <= m
  BY <1>3
<1> HIDE DEF P, m
<1>8. new \in [there -> Nat] /\ \A a \in there : new[a] < m + 1
  <2>1. ASSUME NEW a \in there PROVE new[a] \in Nat /\ new[a] < m + 1
    <3>1. CASE a = k
      BY <1>1, <1>3, <1>7, <3>1
    <3>2. CASE a # k
      BY <1>1, <1>3, <1>7, <3>2
    <3> QED BY <3>1, <3>2
  <2> QED BY <1>1, <2>1
<1>9. \A a, b \in others : new[a] < new[b] <=> P(a) < P(b)
  BY <1>1, <1>3, <1>7
<1>10. \A a \in others : /\ new[a] < new[k] <=> P(a) < place
                         /\ new[a] # new[k]
  BY <1>1, <1>3, <1>7
<1>11. \A a, b \in there : new[a] = new[b] => a = b
  <2>1. ASSUME NEW a \in others, NEW b \in others, new[a] = new[b] PROVE a = b
    <3>1. ~(new[a] < new[b]) /\ ~(new[b] < new[a])
      BY <1>8, <2>1
    <3>2. P(a) = P(b)
      BY <1>3, <1>9, <3>1
    <3> QED BY <1>4, <3>2
  <2> QED BY <1>10, <2>1
<1>12. {new[a] : a \in there} = 0..(Cardinality(there) - 1)
  BY <1>3, <1>5, <1>8, <1>11, PlacesAreFilled
<1>13. Rows(new) /\ DOMAIN new = there
  BY <1>5, <1>8, <1>12 DEF Rows, Contiguous
<1>14. \A a, b \in there : Precedes(new, a, b) <=> new[a] < new[b]
  <2>1. Numbered(new, there)
    BY <1>13, RowsAreNumbered
  <2> QED BY <1>11, <2>1, OrderOfOrdinals
<1>15. \A a, b \in others : Precedes(new, a, b) <=> Precedes(rows, a, b)
  BY <1>6, <1>9, <1>14
<1>16. \A a \in others : Precedes(new, a, k) <=> P(a) < place
  BY <1>10, <1>14
<1> QED BY <1>13, <1>15, <1>16 DEF new, P

\* Where an entry goes is the place of one of some others, or behind all.
LEMMA TargetIsAPlace ==
  ASSUME NEW rows, NEW others, Numbered(rows, others), NEW some \in SUBSET others, NEW i \in Nat
  PROVE  LET target == Target(rows, others, some, i)
         IN /\ target \in 0..Cardinality(others)
            /\ \/ target = Cardinality(others) /\ i >= Cardinality(some)
               \/ \E x \in some : /\ target = Place(rows, others, x)
                                  /\ Place(rows, some, x) = i
<1> DEFINE there == {a \in some : Place(rows, some, a) = i}
           target == Target(rows, others, some, i)
<1>1. Numbered(rows, some)
  BY FS_Subset DEF Numbered
<1>2. Cardinality(others) \in Nat /\ Cardinality(some) \in Nat
  BY <1>1, PlaceIsANumber
<1> DEFINE Landed == /\ target \in 0..Cardinality(others)
                     /\ \/ target = Cardinality(others) /\ i >= Cardinality(some)
                        \/ \E x \in some : /\ target = Place(rows, others, x)
                                           /\ Place(rows, some, x) = i
<1>3. ASSUME there = {} PROVE Landed
  <2>1. target = Cardinality(others)
    BY <1>3 DEF Target
  <2>2. i >= Cardinality(some)
    <3>1. i \notin {Place(rows, some, a) : a \in some}
      BY <1>3
    <3>2. i \notin 0..(Cardinality(some) - 1)
      BY <1>1, <3>1, PlacesAreContiguous
    <3> QED BY <1>2, <3>2
  <2> HIDE DEF target
  <2> QED BY <1>2, <2>1, <2>2
<1>4. ASSUME there # {} PROVE Landed
  <2> DEFINE x == CHOOSE a \in there : TRUE
  <2>1. x \in there /\ target = Place(rows, others, x)
    BY <1>4 DEF Target
  <2> HIDE DEF x
  <2>2. Place(rows, others, x) \in Nat /\ Place(rows, others, x) <= Cardinality(others)
    BY PlaceIsANumber
  <2>3. x \in some /\ Place(rows, some, x) = i
    BY <2>1
  <2> HIDE DEF target, there
  <2> QED BY <1>2, <2>1, <2>2, <2>3
<1> QED BY <1>3, <1>4

\* A move leaves no gap, and the others as they were.
LEMMA MovingKeepsOthers ==
  ASSUME NEW rows, Rows(rows), NEW seen \in SUBSET DOMAIN rows, NEW k, NEW i \in Nat
  PROVE  LET new == Moved(rows, k, i, seen)
             others == DOMAIN rows \ {k}
         IN /\ Rows(new) /\ DOMAIN new = DOMAIN rows
            /\ \A a, b \in others : Precedes(new, a, b) <=> Precedes(rows, a, b)
<1> DEFINE others == DOMAIN rows \ {k}
           target == Target(rows, others, seen \ {k}, i)
<1>1. CASE k \notin seen \/ Place(rows, seen, k) = i
  <2>1. Moved(rows, k, i, seen) = Renumbered(rows, DOMAIN rows)
    BY <1>1 DEF Moved
  <2> QED BY <2>1, RenumberingKeepsOrder
<1>2. CASE ~(k \notin seen \/ Place(rows, seen, k) = i)
  <2>1. Moved(rows, k, i, seen) = Inserted(rows, k, target)
    BY <1>2 DEF Moved
  <2>2. target \in 0..Cardinality(others)
    <3>1. Numbered(rows, others)
      BY RowsAreNumbered
    <3>2. seen \ {k} \in SUBSET others
      OBVIOUS
    <3> QED BY <3>1, <3>2, TargetIsAPlace
  <2>3. k \in DOMAIN rows
    BY <1>2
  <2> HIDE DEF target
  <2>4. LET new == Inserted(rows, k, target)
        IN /\ Rows(new) /\ DOMAIN new = DOMAIN rows
           /\ \A a, b \in others : Precedes(new, a, b) <=> Precedes(rows, a, b)
    BY <2>2, <2>3, InsertingKeepsOthers
  <2> QED BY <2>1, <2>4
<1> QED BY <1>1, <1>2

\* Places that are counted over one order are the same.
LEMMA SamePlaces ==
  ASSUME NEW old, NEW new, NEW keys, NEW k \in keys,
         \A a, b \in keys : Precedes(new, a, b) <=> Precedes(old, a, b)
  PROVE  Place(new, keys, k) = Place(old, keys, k)
<1>1. {a \in keys : Precedes(new, a, k)} = {a \in keys : Precedes(old, a, k)}
  OBVIOUS
<1> QED BY <1>1 DEF Place

\* And what was moved is where it was asked for, among what its caller sees.
LEMMA MovingLands ==
  ASSUME NEW rows, Rows(rows), NEW seen \in SUBSET DOMAIN rows, NEW k \in seen,
         NEW i \in 0..Cardinality(seen)
  PROVE  Place(Moved(rows, k, i, seen), seen, k)
           = IF i < Cardinality(seen) THEN i ELSE Cardinality(seen) - 1
<1> DEFINE others == DOMAIN rows \ {k}
           left == seen \ {k}
           target == Target(rows, others, left, i)
           new == Moved(rows, k, i, seen)
           n == Cardinality(seen)
<1>1. Numbered(rows, seen) /\ Numbered(rows, others) /\ Numbered(rows, left)
  BY RowsAreNumbered
<1>2. n \in Nat /\ Cardinality(left) = n - 1 /\ n - 1 \in Nat
  <2>1. IsFiniteSet(seen)
    BY <1>1 DEF Numbered
  <2>2. IsFiniteSet(left) /\ Cardinality(left) = n - 1
    BY <2>1, FS_RemoveElement
  <2> QED BY <2>1, <2>2, FS_CardinalityType
<1>3. i \in Nat /\ i <= n
  BY <1>2
<1>4. ASSUME Place(rows, seen, k) = i PROVE Place(new, seen, k) = i /\ i < n
  <2>1. new = Renumbered(rows, DOMAIN rows)
    BY <1>4 DEF Moved
  <2>2. \A a, b \in seen : Precedes(new, a, b) <=> Precedes(rows, a, b)
    BY <2>1, RenumberingKeepsOrder
  <2>3. Place(new, seen, k) = Place(rows, seen, k)
    BY <2>2, SamePlaces
  <2>4. Place(rows, seen, k) < n
    BY <1>1, PlaceIsANumber
  <2> QED BY <1>4, <2>3, <2>4
<1>5. ASSUME Place(rows, seen, k) # i
      PROVE  Place(new, seen, k) = IF i < n THEN i ELSE n - 1
  <2>1. new = Inserted(rows, k, target)
    BY <1>5 DEF Moved
  <2>2. /\ target \in 0..Cardinality(others)
        /\ \/ target = Cardinality(others) /\ i >= Cardinality(left)
           \/ \E x \in left : target = Place(rows, others, x) /\ Place(rows, left, x) = i
    <3>1. left \in SUBSET others
      OBVIOUS
    <3> HIDE DEF left, others
    <3> QED BY <1>1, <1>3, <3>1, TargetIsAPlace
  <2> HIDE DEF target
  <2> DEFINE put == Inserted(rows, k, target)
  <2>8. /\ Rows(put) /\ DOMAIN put = DOMAIN rows
        /\ \A a \in others : Precedes(put, a, k) <=> Place(rows, others, a) < target
    <3>1. k \in DOMAIN rows /\ target \in 0..Cardinality(others)
      BY <2>2
    <3> QED BY <3>1, InsertingKeepsOthers
  <2> HIDE DEF put
  <2>3. \A a \in others : Precedes(new, a, k) <=> Place(rows, others, a) < target
    BY <2>1, <2>8 DEF put
  <2>4. ~Precedes(new, k, k)
    <3>1. Rows(new) /\ DOMAIN new = DOMAIN rows
      BY <2>1, <2>8 DEF put
    <3>2. Numbered(new, seen)
      BY <3>1, RowsAreNumbered
    <3> QED BY <3>2, OrderIsTotal
  <2> HIDE DEF new
  <2>5. {a \in seen : Precedes(new, a, k)} = {a \in left : Place(rows, others, a) < target}
    BY <2>3, <2>4
  <2>6. CASE target = Cardinality(others) /\ i >= Cardinality(left)
    <3>1. \A a \in left : Place(rows, others, a) < target
      BY <1>1, <2>6, PlaceIsANumber
    <3>2. {a \in seen : Precedes(new, a, k)} = left
      BY <2>5, <3>1
    <3>3. Place(new, seen, k) = n - 1
      BY <1>2, <3>2 DEF Place
    <3> HIDE DEF n, left
    <3> QED BY <1>2, <1>3, <2>6, <3>3
  <2>7. ASSUME NEW x \in left, target = Place(rows, others, x), Place(rows, left, x) = i
        PROVE  Place(new, seen, k) = i /\ i < n
    <3>1. \A a \in left : Place(rows, others, a) < target <=> Precedes(rows, a, x)
      BY <1>1, <2>7, PlacesAreOrdered
    <3>2. {a \in seen : Precedes(new, a, k)} = {a \in left : Precedes(rows, a, x)}
      BY <2>5, <3>1
    <3>3. Place(new, seen, k) = Place(rows, left, x)
      BY <3>2 DEF Place
    <3>4. Place(rows, left, x) < Cardinality(left)
      BY <1>1, PlaceIsANumber
    <3> HIDE DEF n, left
    <3> QED BY <1>2, <1>3, <2>7, <3>3, <3>4
  <2> HIDE DEF n, left
  <2> QED BY <2>2, <2>6, <2>7
<1> QED BY <1>4, <1>5

----------------------------------------------------------------------------
(* The playlist over the requests.                                         *)

PlaylistSpec == PlaylistInit /\ [][PlaylistNext]_playlistVars

PlaylistInv == PlaylistTypeOK /\ Rows(ordinal)

LEMMA NothingIsARow == ASSUME NEW rows, DOMAIN rows = {} PROVE Rows(rows)
<1>1. {rows[k] : k \in DOMAIN rows} = {}
  OBVIOUS
<1>2. Cardinality(DOMAIN rows) = 0
  BY FS_EmptySet
<1>3. 0..(0 - 1) = {}
  OBVIOUS
<1> QED BY <1>1, <1>2, <1>3 DEF Rows, Contiguous

LEMMA SomeoneIsOne == ASSUME NEW u PROVE Cardinality({u}) <= 1
BY FS_Singleton

\* What a items names is resolved to some of it.
LEMMA ResolvedIsNamed ==
  ASSUME NEW u, NEW items PROVE Resolved(u, items) \in SUBSET ToSet(items)
BY DEF Resolved

\* Types and ordinals, request by request.
LEMMA RequestsKeepRows ==
  ASSUME PlaylistInv, PlaylistNext
  PROVE  PlaylistInv'
<1> USE UsersAssumption, GrantsAssumption, KeysAssumption DEF PlaylistInv
<1>1. ASSUME NEW u \in Users, NEW items \in Batches, Add(u, items) PROVE PlaylistInv'
  <2>1. Rows(ordinal')
    BY <1>1, ResolvedIsNamed, AppendingKeepsOrder DEF Add
  <2>2. owner # {}
    BY <1>1 DEF Add, Editable, MayRead
  <2> QED BY <1>1, <2>1, <2>2 DEF Add, PlaylistTypeOK, Rows
<1>2. ASSUME NEW u \in Users, NEW items \in Batches, NEW p \in BOOLEAN, NEW s \in Grants,
             Create(u, items, p, s)
      PROVE  PlaylistInv'
  <2>1. Rows(<<>>)
    BY NothingIsARow
  <2>2. Rows(ordinal')
    BY <1>2, <2>1, ResolvedIsNamed, AppendingKeepsOrder DEF Create
  <2>3. owner' \subseteq Users /\ Cardinality(owner') <= 1 /\ owner' # {}
    BY <1>2, SomeoneIsOne DEF Create
  <2>4. public' \in BOOLEAN /\ share' \in [Users -> {"none", "read", "edit"}] /\ gone' = gone
    BY <1>2 DEF Create
  <2> QED BY <2>2, <2>3, <2>4 DEF PlaylistTypeOK, Rows
<1>3. ASSUME NEW u \in Users, NEW ks \in SUBSET Keys, RemoveEntries(u, ks) PROVE PlaylistInv'
  <2>1. Rows(ordinal')
    BY <1>3, RenumberingKeepsOrder DEF RemoveEntries
  <2>2. owner # {}
    BY <1>3 DEF RemoveEntries, Editable, MayRead
  <2> QED BY <1>3, <2>1, <2>2 DEF RemoveEntries, PlaylistTypeOK, Rows
<1>4. ASSUME NEW u \in Users, NEW k \in Keys, NEW i \in 0..Cardinality(Keys), Move(u, k, i)
      PROVE  PlaylistInv'
  <2>1. Seen(u) \in SUBSET DOMAIN ordinal /\ i \in Nat
    BY DEF Seen
  <2>2. Rows(ordinal')
    BY <1>4, <2>1, MovingKeepsOthers DEF Move
  <2>3. owner # {}
    BY <1>4 DEF Move, Editable, MayRead
  <2> QED BY <1>4, <2>2, <2>3 DEF Move, PlaylistTypeOK, Rows
<1>5. ASSUME NEW u \in Users, Delete(u) PROVE PlaylistInv'
  <2>1. Rows(ordinal')
    BY <1>5, NothingIsARow DEF Delete
  <2>2. Cardinality(owner') <= 1
    <3>1. Cardinality(owner') = 0
      BY <1>5, FS_EmptySet DEF Delete
    <3> QED BY <3>1
  <2>3. owner' = {} /\ public' = FALSE /\ gone' = gone
    BY <1>5 DEF Delete
  <2>4. DOMAIN ordinal' = {}
    BY <1>5 DEF Delete
  <2>5. share' \in [Users -> {"none", "read", "edit"}]
    BY <1>5 DEF Delete
  <2> QED BY <2>1, <2>2, <2>3, <2>4, <2>5 DEF PlaylistTypeOK
<1>6. ASSUME NEW k \in Keys, ItemGoes(k) \/ ItemReturns(k) PROVE PlaylistInv'
  BY <1>6 DEF ItemGoes, ItemReturns, PlaylistTypeOK, Rows, Contiguous
<1> QED BY <1>1, <1>2, <1>3, <1>4, <1>5, <1>6 DEF PlaylistNext

LEMMA PlaylistInvHolds == PlaylistSpec => []PlaylistInv
<1>1. ASSUME PlaylistInit PROVE PlaylistInv
  <2>1. Rows(ordinal)
    BY <1>1, NothingIsARow DEF PlaylistInit
  <2>2. Cardinality(owner) <= 1
    <3>1. Cardinality(owner) = 0
      BY <1>1, FS_EmptySet DEF PlaylistInit
    <3> QED BY <3>1
  <2>3. owner = {} /\ public = FALSE /\ gone = {}
    BY <1>1 DEF PlaylistInit
  <2>4. DOMAIN ordinal = {}
    BY <1>1 DEF PlaylistInit
  <2>5. share \in [Users -> {"none", "read", "edit"}]
    BY <1>1 DEF PlaylistInit
  <2> QED BY <2>1, <2>2, <2>3, <2>4, <2>5 DEF PlaylistInv, PlaylistTypeOK
<1>2. ASSUME PlaylistInv, [PlaylistNext]_playlistVars PROVE PlaylistInv'
  <2>1. CASE UNCHANGED playlistVars
    BY <1>2, <2>1 DEF playlistVars, PlaylistInv, PlaylistTypeOK, Rows, Contiguous
  <2> QED BY <1>2, <2>1, RequestsKeepRows
<1> QED BY <1>1, <1>2, PTL DEF PlaylistSpec

\* A playlist keeps its types, whoever asks for what.
THEOREM PlaylistTypesHold == PlaylistSpec => []PlaylistTypeOK
<1>1. PlaylistInv => PlaylistTypeOK
  BY DEF PlaylistInv
<1> QED BY <1>1, PlaylistInvHolds, PTL

\* The ordinals stay 0, 1, ... without a gap and none twice (`_renumber`), for any items,
\* any users who see any of them, and any requests in any order.
THEOREM OrdinalsStayContiguous == PlaylistSpec => []OrdinalsAreContiguous
<1>1. PlaylistInv => OrdinalsAreContiguous
  BY DEF PlaylistInv, Rows, Contiguous, OrdinalsAreContiguous
<1> QED BY <1>1, PlaylistInvHolds, PTL

\* A move lands in the list its caller sees.
LandsWhereAsked ==
  \A u \in Users : \A k \in Seen(u), i \in 0..Cardinality(Seen(u)) :
    Move(u, k, i) =>
      Place(ordinal', Seen(u)', k)
        = IF i < Cardinality(Seen(u)) THEN i ELSE Cardinality(Seen(u)) - 1

Kept(keys) == \A a, b \in keys : Precedes(ordinal, a, b) <=> Precedes(ordinal', a, b)

KeptButMoved ==
  LET there == DOMAIN ordinal \intersect DOMAIN ordinal'
  IN \/ Kept(there)
     \/ \E u \in Users, k \in Keys, i \in 0..Cardinality(Keys) :
          Move(u, k, i) /\ Kept(there \ {k})

LEMMA MovesLand == ASSUME PlaylistInv PROVE LandsWhereAsked
<1> SUFFICES ASSUME NEW u \in Users, NEW k \in Seen(u), NEW i \in 0..Cardinality(Seen(u)),
                    Move(u, k, i)
             PROVE  Place(ordinal', Seen(u)', k)
                      = IF i < Cardinality(Seen(u)) THEN i ELSE Cardinality(Seen(u)) - 1
  BY DEF LandsWhereAsked
<1>1. Rows(ordinal) /\ Seen(u) \in SUBSET DOMAIN ordinal
  BY DEF PlaylistInv, Seen
<1>2. ordinal' = Moved(ordinal, k, i, Seen(u)) /\ gone' = gone
  BY DEF Move
<1>3. DOMAIN ordinal' = DOMAIN ordinal
  <2>1. i \in Nat
    OBVIOUS
  <2> QED BY <1>1, <1>2, <2>1, MovingKeepsOthers
<1>4. Seen(u)' = Seen(u)
  BY <1>2, <1>3 DEF Seen, CanSee
<1>5. Place(Moved(ordinal, k, i, Seen(u)), Seen(u), k)
        = IF i < Cardinality(Seen(u)) THEN i ELSE Cardinality(Seen(u)) - 1
  BY <1>1, MovingLands
<1> QED BY <1>2, <1>4, <1>5

LEMMA NeighboursStay == ASSUME PlaylistInv, [PlaylistNext]_playlistVars PROVE KeptButMoved
<1> DEFINE there == DOMAIN ordinal \intersect DOMAIN ordinal'
<1>0. Rows(ordinal) /\ (owner = {} => DOMAIN ordinal = {})
  BY DEF PlaylistInv, PlaylistTypeOK
<1>1. ASSUME NEW u \in Users, NEW items \in Batches, Add(u, items) PROVE Kept(there)
  <2>1. items \in Seq(Keys)
    BY KeysAssumption
  <2>2. \A k \in DOMAIN ordinal : ordinal'[k] = ordinal[k]
    BY <1>0, <1>1, <2>1, ResolvedIsNamed, AppendingKeepsOrder DEF Add
  <2> QED BY <2>2 DEF Kept, Precedes
<1>2. ASSUME NEW u \in Users, NEW items \in Batches, NEW p \in BOOLEAN, NEW s \in Grants,
             Create(u, items, p, s)
      PROVE  Kept(there)
  <2>1. there = {}
    BY <1>0, <1>2 DEF Create
  <2> QED BY <2>1 DEF Kept
<1>3. ASSUME NEW u \in Users, NEW ks \in SUBSET Keys, RemoveEntries(u, ks) PROVE Kept(there)
  <2> DEFINE left == DOMAIN ordinal \ ks
  <2>1. /\ DOMAIN ordinal' = left
        /\ \A a, b \in left : Precedes(ordinal', a, b) <=> Precedes(ordinal, a, b)
    BY <1>0, <1>3, RenumberingKeepsOrder DEF RemoveEntries
  <2> QED BY <2>1 DEF Kept
<1>4. ASSUME NEW u \in Users, NEW k \in Keys, NEW i \in 0..Cardinality(Keys), Move(u, k, i)
      PROVE  Kept(there \ {k})
  <2>1. Seen(u) \in SUBSET DOMAIN ordinal /\ i \in Nat
    BY DEF Seen
  <2>2. \A a, b \in DOMAIN ordinal \ {k} : Precedes(ordinal', a, b) <=> Precedes(ordinal, a, b)
    BY <1>0, <1>4, <2>1, MovingKeepsOthers DEF Move
  <2> QED BY <2>2 DEF Kept
<1>5. ASSUME NEW u \in Users, Delete(u) PROVE Kept(there)
  <2>1. there = {}
    BY <1>5 DEF Delete
  <2> QED BY <2>1 DEF Kept
<1>6. ASSUME ordinal' = ordinal PROVE Kept(there)
  BY <1>6 DEF Kept
<1>7. ASSUME NEW k \in Keys, ItemGoes(k) \/ ItemReturns(k) PROVE Kept(there)
  BY <1>6, <1>7 DEF ItemGoes, ItemReturns
<1>8. CASE UNCHANGED playlistVars
  BY <1>6, <1>8 DEF playlistVars, KeptButMoved
<1>9. CASE PlaylistNext
  BY <1>1, <1>2, <1>3, <1>4, <1>5, <1>7, <1>9 DEF PlaylistNext, KeptButMoved
<1> QED BY <1>8, <1>9

\* Entries a caller cannot see are in nobody's way and are not carried along
\* (`domain.playlists.moved`): what is moved is where its caller asked for it in the list
\* that caller is given, and no other entry changes sides with a neighbour.
THEOREM EntriesStayWhereTheyWere == PlaylistSpec => EntriesKeepTheirPlace
<1>1. ASSUME PlaylistInv, [PlaylistNext]_playlistVars
      PROVE  [LandsWhereAsked]_playlistVars /\ [KeptButMoved]_playlistVars
  BY <1>1, MovesLand, NeighboursStay
<1>2. PlaylistSpec => [][LandsWhereAsked]_playlistVars /\ [][KeptButMoved]_playlistVars
  BY <1>1, PlaylistInvHolds, PTL DEF PlaylistSpec
<1> QED BY <1>2 DEF EntriesKeepTheirPlace, MoveLandsWhereAsked, NeighboursStayInOrder,
       LandsWhereAsked, KeptButMoved, Kept

----------------------------------------------------------------------------
(* The parts side by side.                                                 *)

LEMMA PartsStart ==
  ASSUME PartsInit PROVE ProductionInit /\ PlaylistInit /\ MetadataInit /\ Init
BY DEF PartsInit

LEMMA PartsStep ==
  ASSUME [PartsNext]_partsVars
  PROVE  /\ [ProductionNext]_productionVars
         /\ [PlaylistNext]_playlistVars
         /\ [MetadataNext]_metadataVars
         /\ [Next]_vars
<1>1. CASE UNCHANGED partsVars
  BY <1>1 DEF partsVars
<1>2. CASE PartsNext
  BY <1>2 DEF PartsNext
<1> QED BY <1>1, <1>2

\* Put side by side, each of the four parts behaves as it does by itself: what is proved of
\* one holds in the run that checks them together.
THEOREM PartsByThemselves ==
  PartsSpec => ProductionSpec /\ PlaylistSpec /\ MetadataSpec /\ Spec
BY PartsStart, PartsStep, PTL
   DEF PartsSpec, ProductionSpec, PlaylistSpec, MetadataSpec, Spec

\* And so they keep their types: handlers and locks, rows, items and the scan worker's jobs.
THEOREM PartsTypesHold == PartsSpec => []PartsTypeOK
<1>1. ProductionTypeOK /\ PlaylistTypeOK /\ MetadataTypeOK /\ TypeOK => PartsTypeOK
  BY DEF PartsTypeOK
<1> QED BY <1>1, PartsByThemselves, ProductionTypes, PlaylistTypesHold, MetadataTypesHold,
           TypesHold, PTL
=============================================================================
