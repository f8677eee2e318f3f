--------------------------- MODULE Scanner_proofs ---------------------------
(***************************************************************************)
(* Proofs about the scan worker: for any libraries and any bounds, who     *)
(* waits on `idle` is told the truth, and every step of the worker is one  *)
(* that its contract (OwedScans) allows.                                   *)
(***************************************************************************)
EXTENDS Scanner, TLAPS

\* What is in the worker's hands, by where it is, and what is left when it is not there.
Hands ==
  /\ asked # None <=> worker = "listing"
  /\ job # None <=> worker = "scanning"
  /\ worker \notin {"listing", "passing", "scanning"} => batch = Nobody
  /\ worker \in {"none", "resting"} => pending = Nobody /\ everything = None
  /\ settled => /\ worker \notin {"listing", "passing", "scanning"}
                /\ pending = Nobody /\ everything = None
  /\ stopping <=> stage = "stopping"
  /\ worker = "done" => stopping

Inv == TypeOK /\ Hands

USE DEF Triggers

LEMMA NoneIsNoTrigger == None \notin Triggers
BY NoneAssumption

LEMMA NobodyType == Nobody \in [Libraries -> Triggers \union {None}]
BY DEF Nobody

LEMMA AskedType ==
  ASSUME NEW r \in [Libraries -> Triggers \union {None}], NEW ls, NEW t
  PROVE  Asked(r, ls, t) \in [Libraries -> Triggers \union {None}]
BY DEF Asked, Stronger

----------------------------------------------------------------------------
LEMMA ArrivalsKeepInv == ASSUME Inv, Arrivals PROVE Inv'
<1> USE DEF Inv
<1>1. ASSUME NEW l \in Libraries, NEW refreshLibrary \in BOOLEAN,
             AddLibrary(l, refreshLibrary)
      PROVE  Inv'
  <2>1. CASE refreshLibrary
    <3>1. /\ Request /\ pending' = Asked(pending, {l}, "added")
          /\ known' = known \union {l} /\ everything' = everything
      BY <1>1, <2>1 DEF AddLibrary
    <3>2. pending' \in [Libraries -> Triggers \union {None}]
      BY <3>1, AskedType DEF TypeOK
    <3>3. requests' \in 0..MaxRequests
      BY <3>1, BoundsAssumption DEF Request, TypeOK
    <3>4. QED
      BY <3>1, <3>2, <3>3 DEF Request, EnsureWorker, TypeOK, Hands
  <2>2. CASE ~refreshLibrary
    BY <1>1, <2>2 DEF AddLibrary, TypeOK, Hands
  <2>3. QED
    BY <2>1, <2>2
<1>2. CASE RefreshLibrary
  <2>1. requests' \in 0..MaxRequests
    BY <1>2, BoundsAssumption DEF RefreshLibrary, Request, TypeOK
  <2>2. everything' \in Triggers
    BY <1>2 DEF RefreshLibrary, Stronger
  <2>3. QED
    BY <1>2, <2>1, <2>2 DEF RefreshLibrary, Request, EnsureWorker, TypeOK, Hands
<1>3. QED
  BY <1>1, <1>2 DEF Arrivals

LEMMA WorkerKeepsInv == ASSUME Inv, WorkerStep PROVE Inv'
<1> USE DEF Inv
<1>1. CASE Rest
  <2>1. pending = Nobody /\ everything = None
    BY <1>1 DEF Rest, Waiting, TypeOK, Nobody
  <2>2. QED
    BY <1>1, <2>1 DEF Rest, TypeOK, Hands, boundVars
<1>2. CASE TakeBatch
  <2>1. ~settled
    BY <1>2 DEF TakeBatch, Waiting, Nobody, Hands
  <2>2. QED
    BY <1>2, <2>1, NobodyType DEF TakeBatch, TypeOK, Hands, boundVars
<1>3. CASE ListLibraries
  <2>1. batch' \in [Libraries -> Triggers \union {None}]
    BY <1>3, AskedType DEF ListLibraries, TypeOK
  <2>2. QED
    BY <1>3, <2>1 DEF ListLibraries, TypeOK, Hands, boundVars
<1>4. CASE ListingFails
  <2>1. unlisted' \in 0..MaxUnlisted
    BY <1>4, BoundsAssumption DEF ListingFails, TypeOK
  <2>2. QED
    BY <1>4, <2>1 DEF ListingFails, TypeOK, Hands
<1>5. CASE PassEnds
  BY <1>5 DEF PassEnds, TypeOK, Hands, boundVars
<1>6. CASE WorkerEnds
  BY <1>6, NobodyType DEF WorkerEnds, TypeOK, Hands, boundVars
<1>7. ASSUME NEW l \in Libraries, NextScan(l)
      PROVE  Inv'
  <2>1. batch[l] \in Triggers
    BY <1>7 DEF NextScan, TypeOK
  <2>2. job' \in Job /\ job'.library = l /\ batch' \in [Libraries -> Triggers \union {None}]
    BY <1>7, <2>1 DEF NextScan, Job, TypeOK
  <2>3. job' # None
    BY <2>2, NoJobAssumption
  <2>4. QED
    BY <1>7, <2>2, <2>3 DEF NextScan, TypeOK, Hands, boundVars
<1>8. QED
  BY <1>1, <1>2, <1>3, <1>4, <1>5, <1>6, <1>7 DEF WorkerStep

LEMMA StopKeepsInv ==
  ASSUME Inv, ScanReturns \/ Stop \/ Stopped \/ Restart
  PROVE  Inv'
<1> USE DEF Inv
<1>1. CASE ScanReturns
  BY <1>1 DEF ScanReturns, TypeOK, Hands, boundVars
<1>2. CASE Stop
  <2>1. TypeOK'
    BY <1>2 DEF Stop, TypeOK, boundVars
  <2>2. stopping' <=> worker # "none"
    BY <1>2 DEF Stop
  <2>3. Hands'
    BY <1>2, <2>2 DEF Stop, Hands
  <2>4. QED
    BY <2>1, <2>3
<1>3. CASE Stopped
  <2>1. asked = None /\ job = None /\ batch = Nobody
    BY <1>3 DEF Stopped, Hands
  <2>2. TypeOK'
    BY <1>3, NobodyType DEF Stopped, TypeOK, boundVars
  <2>3. Hands'
    BY <1>3, <2>1 DEF Stopped, Hands
  <2>4. QED
    BY <2>2, <2>3
<1>4. CASE Restart
  <2>1. restarts' \in 0..MaxRestarts
    BY <1>4, BoundsAssumption DEF Restart, TypeOK
  <2>2. QED
    BY <1>4, <2>1, NobodyType DEF Restart, TypeOK, Hands
<1>5. QED
  BY <1>1, <1>2, <1>3, <1>4

LEMMA InvHolds == Spec => []Inv
<1>1. Init => Inv
  <2>1. SUFFICES ASSUME Init PROVE Inv
    OBVIOUS
  <2>2. 0 \in 0..MaxRequests /\ 0 \in 0..MaxUnlisted /\ 0 \in 0..MaxRestarts
    BY BoundsAssumption
  <2>3. TypeOK
    BY <2>1, <2>2, NobodyType, LibrariesAssumption DEF Init, TypeOK
  <2>4. Hands
    BY <2>1 DEF Init, Hands
  <2>5. QED
    BY <2>3, <2>4 DEF Inv
<1>2. Inv /\ [Next]_vars => Inv'
  <2>1. SUFFICES ASSUME Inv, [Next]_vars PROVE Inv'
    OBVIOUS
  <2>2. CASE UNCHANGED vars
    BY <2>1, <2>2 DEF Inv, TypeOK, Hands, vars, boundVars
  <2>3. CASE Next
    BY <2>1, <2>3, ArrivalsKeepInv, WorkerKeepsInv, StopKeepsInv DEF Next
  <2>4. QED
    BY <2>1, <2>2, <2>3
<1>3. QED
  BY <1>1, <1>2, PTL DEF Spec

\* The variables of the scanner and of its worker keep their types.
THEOREM TypesHold == Spec => []TypeOK
<1>1. Inv => TypeOK
  BY DEF Inv
<1>2. QED
  BY <1>1, InvHolds, PTL

\* `idle` is set only while nothing is owed to any library and none is being scanned,
\* for any libraries and requests (`Scanner._settled`).
THEOREM SettledIsTrue == Spec => []SettledOwesNothing
<1>1. Inv => SettledOwesNothing
  <2>1. SUFFICES ASSUME Inv, settled PROVE job = None /\ \A l \in Libraries : Owed[l] = None
    BY DEF SettledOwesNothing
  <2>2. /\ job = None /\ asked = None /\ everything = None
        /\ pending = Nobody /\ batch = Nobody
    BY <2>1 DEF Inv, Hands
  <2>3. QED
    BY <2>2, NoneIsNoTrigger DEF Owed, Owes, Nobody
<1>2. QED
  BY <1>1, InvHolds, PTL

----------------------------------------------------------------------------
(* The contract.                                                           *)

USE DEF Contract!Triggers

\* What is owed to a library is the strongest of what has been asked for it.
LEMMA WhatIsOwed ==
  ASSUME NEW l \in Libraries
  PROVE  /\ Owed[l] \in Triggers \union {None}
         /\ Owed[l] = "added" <=> "added" \in Owes(l)
         /\ Owed[l] = None <=> "added" \notin Owes(l) /\ "refresh" \notin Owes(l)
BY NoneIsNoTrigger DEF Owed

\* Two states that owe each library the same owe the same.
LEMMA SameOwed ==
  ASSUME \A l \in Libraries : /\ "added" \in Owes(l)' <=> "added" \in Owes(l)
                              /\ "refresh" \in Owes(l)' <=> "refresh" \in Owes(l)
  PROVE  Owed' = Owed
BY DEF Owed

\* The scanner gives up what it gives up by leaving less to be owed.
LEMMA ForgettingIsAllowed ==
  ASSUME \A l \in Libraries : /\ "added" \in Owes(l)' => "added" \in Owes(l)
                              /\ "refresh" \in Owes(l)' => "refresh" \in Owes(l)
  PROVE  Contract!Forgets
<1>1. Owed' \in [Libraries -> Triggers \union {None}]
  BY DEF Owed
<1>2. ASSUME NEW l \in Libraries, Owed'[l] # None
      PROVE  Owed[l] # None /\ Contract!Satisfies(Owed[l], Owed'[l])
  BY <1>2, NoneIsNoTrigger DEF Owed, Contract!Satisfies, Contract!Stronger
<1>3. QED
  BY <1>1, <1>2 DEF Contract!Forgets

\* Asking: for a library of its own, or for all that are known.
LEMMA RequestsAsk ==
  ASSUME Inv, Arrivals
  PROVE  [Contract!Next]_(Contract!vars)
<1>1. UNCHANGED <<job, unlisted, stage, restarts, batch, asked>> /\ stage = "up"
  BY DEF Arrivals, AddLibrary, RefreshLibrary, Request
<1>2. pending \in [Libraries -> Triggers \union {None}]
  BY DEF Inv, TypeOK
<1>3. ASSUME NEW ls \in SUBSET Libraries, NEW t \in Triggers,
             Owed' = [l \in Libraries |->
                        IF l \in ls THEN Contract!Stronger(Owed[l], t) ELSE Owed[l]]
      PROVE  Contract!Next
  <2>1. Contract!Ask(ls, t)
    BY <1>1, <1>3 DEF Contract!Ask
  <2>2. QED
    BY <2>1 DEF Contract!Next
<1>4. ASSUME NEW l \in Libraries, NEW refreshLibrary \in BOOLEAN,
             AddLibrary(l, refreshLibrary)
      PROVE  [Contract!Next]_(Contract!vars)
  <2>1. l \notin known /\ known' = known \union {l} /\ everything' = everything
    BY <1>4 DEF AddLibrary
  <2>2. CASE refreshLibrary
    <3>1. pending' = Asked(pending, {l}, "added")
      BY <1>4, <2>2 DEF AddLibrary
    <3>2. \A m \in Libraries \ {l} : Owes(m)' = Owes(m)
      BY <1>1, <1>2, <2>1, <3>1 DEF Owes, Asked
    <3>3. "added" \in Owes(l)'
      BY <1>2, <3>1 DEF Owes, Asked, Stronger
    <3>4. Owed' = [m \in Libraries |-> IF m \in {l} THEN Contract!Stronger(Owed[m], "added")
                                       ELSE Owed[m]]
      BY <3>2, <3>3 DEF Owed, Contract!Stronger
    <3>5. QED
      BY <1>3, <3>4
  <2>3. CASE ~refreshLibrary
    <3>1. pending' = pending
      BY <1>4, <2>3 DEF AddLibrary
    <3>2. \A m \in Libraries \ {l} : Owes(m)' = Owes(m)
      BY <1>1, <2>1, <3>1 DEF Owes
    <3>3. Owes(l)' = Owes(l) \union {everything, asked}
      BY <1>1, <2>1, <3>1 DEF Owes
    <3>4. CASE "added" \in {everything, asked}
      <4>1. Owed' = [m \in Libraries |->
                       IF m \in {l} THEN Contract!Stronger(Owed[m], "added") ELSE Owed[m]]
        BY <3>2, <3>3, <3>4 DEF Owed, Contract!Stronger
      <4>2. QED
        BY <1>3, <4>1
    <3>5. CASE "added" \notin {everything, asked} /\ "refresh" \in {everything, asked}
      <4>1. Owed'[l] = Contract!Stronger(Owed[l], "refresh")
        BY <3>3, <3>5, NoneIsNoTrigger DEF Owed, Contract!Stronger
      <4>2. Owed' = [m \in Libraries |->
                       IF m \in {l} THEN Contract!Stronger(Owed[m], "refresh")
                       ELSE Owed[m]]
        BY <3>2, <4>1 DEF Owed
      <4>3. QED
        BY <1>3, <4>2
    <3>6. CASE "added" \notin {everything, asked} /\ "refresh" \notin {everything, asked}
      <4>1. Owed' = Owed
        BY <3>2, <3>3, <3>6, SameOwed
      <4>2. QED
        BY <1>1, <4>1 DEF Contract!vars
    <3>7. QED
      BY <3>4, <3>5, <3>6
  <2>4. QED
    BY <2>2, <2>3
<1>5. CASE RefreshLibrary
  <2>1. known' = known /\ pending' = pending /\ everything' = Stronger(everything, "refresh")
    BY <1>5 DEF RefreshLibrary
  <2>2. \A m \in Libraries \ known : Owes(m)' = Owes(m)
    BY <1>1, <2>1 DEF Owes
  <2>3. \A m \in Libraries \intersect known :
          /\ "added" \in Owes(m)' <=> "added" \in Owes(m)
          /\ "refresh" \in Owes(m)' \/ "added" \in Owes(m)'
    BY <1>1, <2>1, NoneIsNoTrigger DEF Owes, Stronger, Inv, TypeOK
  <2>4. Owed' = [m \in Libraries |-> IF m \in known THEN Contract!Stronger(Owed[m], "refresh")
                                     ELSE Owed[m]]
    BY <2>2, <2>3, NoneIsNoTrigger DEF Owed, Contract!Stronger
  <2>5. known \in SUBSET Libraries
    BY DEF Inv, TypeOK
  <2>6. QED
    BY <1>3, <2>4, <2>5
<1>6. QED
  BY <1>4, <1>5 DEF Arrivals

\* The worker's steps: a request moves from hand to hand and stays owed until its scan is
\* begun, or the libraries could not be listed, or the server stops.
LEMMA WorkerKeepsContract ==
  ASSUME Inv, WorkerStep
  PROVE  [Contract!Next]_(Contract!vars)
<1>1. UNCHANGED <<known, stage, restarts>>
  BY DEF WorkerStep, Rest, TakeBatch, ListLibraries, ListingFails, PassEnds, WorkerEnds,
         NextScan, boundVars
<1>2. /\ pending \in [Libraries -> Triggers \union {None}]
      /\ batch \in [Libraries -> Triggers \union {None}]
      /\ everything \in Triggers \union {None} /\ asked \in Triggers \union {None}
      /\ known \subseteq Libraries
  BY DEF Inv, TypeOK
<1>3. CASE Rest \/ PassEnds
  <2>1. Owed' = Owed
    BY <1>1, <1>3 DEF Rest, PassEnds, Owed, Owes
  <2>2. QED
    BY <1>1, <1>3, <2>1 DEF Contract!vars, Rest, PassEnds, boundVars
<1>4. CASE TakeBatch
  <2>1. batch = Nobody /\ asked = None
    BY <1>4 DEF TakeBatch, Inv, Hands
  <2>2. Owed' = Owed
    BY <1>1, <1>2, <1>4, <2>1, NoneIsNoTrigger, SameOwed DEF TakeBatch, Owes, Nobody
  <2>3. QED
    BY <1>1, <1>4, <2>2 DEF Contract!vars, TakeBatch, boundVars
<1>5. CASE ListLibraries
  <2>1. asked \in Triggers
    BY <1>2, <1>5 DEF ListLibraries, Inv, Hands
  <2>2. /\ batch' = Asked(batch, known, asked) /\ asked' = None
        /\ pending' = pending /\ everything' = everything
    BY <1>5 DEF ListLibraries
  <2>3. Owed' = Owed
    <3>1. ASSUME NEW l \in Libraries
          PROVE  Owed'[l] = Owed[l]
      BY <1>1, <1>2, <2>1, <2>2, NoneIsNoTrigger DEF Owed, Owes, Asked, Stronger
    <3>2. QED
      BY <3>1 DEF Owed
  <2>4. QED
    BY <1>1, <1>5, <2>3 DEF Contract!vars, ListLibraries, boundVars
<1>6. CASE ListingFails
  <2>1. Contract!Forgets
    BY <1>1, <1>2, <1>6, NoneIsNoTrigger, ForgettingIsAllowed DEF ListingFails, Owes
  <2>2. Contract!Lose
    BY <1>1, <1>6, <2>1 DEF Contract!Lose, ListingFails
  <2>3. QED
    BY <2>2 DEF Contract!Next
<1>7. CASE WorkerEnds
  <2>1. stage = "stopping"
    BY <1>7 DEF WorkerEnds, Inv, Hands
  <2>2. Contract!Forgets
    BY <1>1, <1>2, <1>7, NoneIsNoTrigger, ForgettingIsAllowed
    DEF WorkerEnds, Owes, Nobody
  <2>3. Contract!GiveUp
    BY <1>1, <1>7, <2>1, <2>2 DEF Contract!GiveUp, WorkerEnds, boundVars
  <2>4. QED
    BY <2>3 DEF Contract!Next
<1>8. ASSUME NEW l \in Libraries, NextScan(l)
      PROVE  [Contract!Next]_(Contract!vars)
  <2>1. batch[l] \in Triggers
    BY <1>2, <1>8 DEF NextScan
  <2>2. /\ job' = [library |-> l, trigger |-> batch[l]]
        /\ batch' = [batch EXCEPT ![l] = None]
        /\ UNCHANGED <<pending, everything, asked, unlisted>>
    BY <1>8 DEF NextScan, boundVars
  <2>3. job = None
    BY <1>8 DEF NextScan, Inv, Hands
  <2>4. \A m \in Libraries \ {l} : Owed'[m] = Owed[m]
    BY <1>1, <1>2, <2>2 DEF Owed, Owes
  <2>5. /\ Owed[l] \in Triggers /\ Owed'[l] \in Triggers \union {None}
        /\ Owed'[l] # Owed[l] => Contract!Satisfies(batch[l], Owed[l])
        /\ Owed'[l] # None => Contract!Satisfies(Owed[l], Owed'[l])
    BY <1>1, <1>2, <2>1, <2>2, NoneIsNoTrigger
    DEF Owed, Owes, Contract!Satisfies, Contract!Stronger
  <2>6. Owed' = [Owed EXCEPT ![l] = Owed'[l]]
    BY <2>4 DEF Owed
  <2>7. Contract!Begin(l, batch[l], Owed'[l])
    BY <1>1, <2>2, <2>3, <2>5, <2>6, NoneIsNoTrigger DEF Contract!Begin
  <2>8. QED
    BY <2>1, <2>5, <2>7 DEF Contract!Next
<1>9. QED
  BY <1>3, <1>4, <1>5, <1>6, <1>7, <1>8 DEF WorkerStep

LEMMA StopKeepsContract ==
  ASSUME Inv, ScanReturns \/ Stop \/ Stopped \/ Restart
  PROVE  [Contract!Next]_(Contract!vars)
<1>1. CASE ScanReturns
  <2>1. Owed' = Owed /\ job # None
    BY <1>1 DEF ScanReturns, Owed, Owes, Inv, Hands
  <2>2. Contract!End
    BY <1>1, <2>1 DEF Contract!End, ScanReturns, boundVars
  <2>3. QED
    BY <2>2 DEF Contract!Next
<1>2. CASE Stop
  <2>1. Owed' = Owed
    BY <1>2 DEF Stop, Owed, Owes
  <2>2. Contract!Close
    BY <1>2, <2>1 DEF Contract!Close, Stop, boundVars
  <2>3. QED
    BY <2>2 DEF Contract!Next
<1>3. CASE Stopped
  <2>1. Contract!Forgets
    BY <1>3, NoneIsNoTrigger, ForgettingIsAllowed DEF Stopped, Owes, Nobody
  <2>2. Contract!GiveUp
    BY <1>3, <2>1 DEF Contract!GiveUp, Stopped, boundVars
  <2>3. QED
    BY <2>2 DEF Contract!Next
<1>4. CASE Restart
  <2>1. Owed' = [l \in Libraries |-> None]
    BY <1>4, NoneIsNoTrigger DEF Restart, Owed, Owes, Nobody
  <2>2. Contract!Quit
    BY <1>4, <2>1 DEF Contract!Quit, Restart
  <2>3. QED
    BY <2>2 DEF Contract!Next
<1>5. QED
  BY <1>1, <1>2, <1>3, <1>4

\* Every step of the scanner is one that its contract allows: no request is forgotten,
\* weakened or answered by a scan for a weaker reason, however requests are merged and
\* whenever they come (`request`, `_work`, `_stronger`).  That each of them is answered at
\* last is liveness, and left to the run.
THEOREM KeepsItsContract == Spec => Contract!Init /\ [][Contract!Next]_(Contract!vars)
<1>1. Init => Contract!Init
  BY NoneIsNoTrigger DEF Init, Contract!Init, Owed, Owes, Nobody
<1>2. Inv /\ [Next]_vars => [Contract!Next]_(Contract!vars)
  <2>1. SUFFICES ASSUME Inv, [Next]_vars PROVE [Contract!Next]_(Contract!vars)
    OBVIOUS
  <2>2. CASE UNCHANGED vars
    BY <2>2 DEF vars, boundVars, Contract!vars, Owed, Owes
  <2>3. CASE Next
    BY <2>1, <2>3, RequestsAsk, WorkerKeepsContract, StopKeepsContract DEF Next
  <2>4. QED
    BY <2>1, <2>2, <2>3
<1>3. QED
  BY <1>1, <1>2, InvHolds, PTL DEF Spec
=============================================================================
