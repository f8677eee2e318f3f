------------------------ MODULE ItemMetadata_proofs -------------------------
(***************************************************************************)
(* Proofs about the metadata of an item: whatever the sidecars, the        *)
(* artwork and the provider say and however a scan is asked for, a lock    *)
(* keeps the value it is on, an outage of the provider leaves no trace,    *)
(* and a scan again changes nothing.                                       *)
(*                                                                         *)
(* The last two rest on what a refresh makes of a row (Combined): the path *)
(* gives a name back to a row and nothing else, so what is left to decide  *)
(* is the local source, then the provider.  A value that has been applied  *)
(* is not applied to any further effect (AppliedTwice), and what has been  *)
(* refreshed asks the provider for no more than before (AsksNoMore).       *)
(***************************************************************************)
EXTENDS ItemMetadata, FiniteSetTheorems, SequenceTheorems, TLAPS

MetadataSpec == MetadataInit /\ [][MetadataNext]_metadataVars

\* A row has its columns, and no lock before a refresh has been at it.
RowOK(row) ==
  /\ DOMAIN row = {"values", "source", "locked", "names", "pending", "resolved"}
  /\ DOMAIN row.values = Fields
  /\ row.values = [f \in Fields |-> row.values[f]]
  /\ ~row.resolved => ~row.locked /\ row.names = {}

\* There is one item or none, and its row is in order.
ItemInv == \A row \in item : RowOK(row) /\ item = {row}

\* What a lock on a row holds on to: the refresh may write anything else.
LocksOn(row) ==
  {f \in Lockable : (row.locked \/ f \in row.names) /\ ~(f = "runtime" /\ medium = "film")}

----------------------------------------------------------------------------
\* `merge` leaves alone what is locked, wherever a value comes from.
LEMMA MergeKeepsLocks ==
  ASSUME NEW row, NEW sources, NEW mode
  PROVE  /\ DOMAIN Merged(row, sources, mode) = Fields
         /\ Merged(row, sources, mode) = [f \in Fields |-> Merged(row, sources, mode)[f]]
         /\ \A f \in LocksOn(row) : Merged(row, sources, mode)[f] = row.values[f]
<1>1. /\ DOMAIN Merged(row, sources, mode) = Fields
      /\ Merged(row, sources, mode) = [f \in Fields |-> Merged(row, sources, mode)[f]]
  BY DEF Merged
<1>2. ASSUME NEW f \in LocksOn(row)
      PROVE  Merged(row, sources, mode)[f] = row.values[f]
  <2>1. Refused(row, f) /\ f \in Fields
    BY DEF LocksOn, Refused, Lockable, Fields
  <2>2. QED
    BY <2>1 DEF Merged
<1>3. QED
  BY <1>1, <1>2

\* The refresh keeps them too, and leaves a row in order.
LEMMA RefreshKeepsLocks ==
  ASSUME NEW row, RowOK(row), NEW paper, NEW art, NEW mode, NEW weather
  PROVE  LET new == Refreshed(row, paper, art, mode, weather)
         IN RowOK(new) /\ \A f \in LocksOn(row) : new.values[f] = row.values[f]
<1> DEFINE new == Refreshed(row, paper, art, mode, weather)
<1>1. CASE new = row
  BY <1>1
<1>2. CASE new # row
  <2>1. PICK sources, locked, names, failed :
          new = [row EXCEPT !.values = Merged(row, sources, mode), !.locked = locked,
                            !.names = names, !.pending = failed, !.resolved = TRUE]
    BY <1>2, Zenon DEF Refreshed
  <2>2. DOMAIN row = {"values", "source", "locked", "names", "pending", "resolved"}
    BY DEF RowOK
  <2>3. DOMAIN new = DOMAIN row
    BY <2>1
  <2>4. new.values = Merged(row, sources, mode)
    BY <2>1, <2>2
  <2>5. new.resolved
    BY <2>1, <2>2
  <2>6. QED
    BY <2>2, <2>3, <2>4, <2>5, MergeKeepsLocks DEF RowOK
<1>3. QED
  BY <1>1, <1>2

\* The scanner's own half of a scan names an item only until a refresh has, and the
\* runtime it measures is a film's.
LEMMA UpdateKeepsLocks ==
  ASSUME NEW row, RowOK(row), NEW version
  PROVE  LET new == Updated(row, version)
         IN /\ RowOK(new) /\ LocksOn(new) = LocksOn(row)
            /\ \A f \in LocksOn(row) : new.values[f] = row.values[f]
<1> DEFINE new == Updated(row, version)
<1>1. DOMAIN row = {"values", "source", "locked", "names", "pending", "resolved"}
      /\ DOMAIN row.values = Fields
  BY DEF RowOK
<1>2. DOMAIN new = DOMAIN row
  BY DEF Updated
<1>3. DOMAIN new.values = Fields /\ new.values = [f \in Fields |-> new.values[f]]
  <2>1. PICK name, runtime :
          new.values = [row.values EXCEPT !["name"] = name, !["runtime"] = runtime]
    BY <1>1 DEF Updated
  <2> HIDE DEF new
  <2>2. QED
    BY <1>1, <2>1
<1>4. new.resolved = row.resolved /\ new.locked = row.locked /\ new.names = row.names
  BY <1>1 DEF Updated
<1>5. RowOK(new) /\ LocksOn(new) = LocksOn(row)
  BY <1>1, <1>2, <1>3, <1>4, Zenon DEF RowOK, LocksOn
<1>6. ASSUME NEW f \in LocksOn(row)
      PROVE  new.values[f] = row.values[f]
  <2>1. row.resolved
    BY DEF LocksOn, RowOK
  <2>2. f \in Fields /\ ~(f = "runtime" /\ medium = "film")
    BY DEF LocksOn, Lockable, Fields
  <2>3. QED
    BY <1>1, <2>1, <2>2 DEF Updated, Fields
<1>7. QED
  BY <1>5, <1>6

LEMMA ScanKeepsLocks ==
  ASSUME NEW row, RowOK(row), NEW version, NEW paper, NEW art, NEW mode, NEW deep,
         NEW weather
  PROVE  LET new == Scanned(row, version, paper, art, mode, deep, weather)
         IN RowOK(new) /\ \A f \in LocksOn(row) : new.values[f] = row.values[f]
<1> DEFINE written == IF Differs(row, version) THEN Updated(row, version) ELSE row
<1>1. /\ RowOK(written) /\ LocksOn(written) = LocksOn(row)
      /\ \A f \in LocksOn(row) : written.values[f] = row.values[f]
  BY UpdateKeepsLocks
<1> HIDE DEF written
<1>2. LET new == Refreshed(written, paper, art, mode, weather)
      IN RowOK(new) /\ \A f \in LocksOn(row) : new.values[f] = row.values[f]
  BY <1>1, RefreshKeepsLocks
<1>3. Scanned(row, version, paper, art, mode, deep, weather)
        \in {written, Refreshed(written, paper, art, mode, weather)}
  BY DEF Scanned, written
<1>4. QED
  BY <1>1, <1>2, <1>3

LEMMA NewRowOK == ASSUME NEW version PROVE RowOK(New(version))
BY DEF RowOK, New, NoValues

LEMMA FirstScanMakesOne ==
  ASSUME NEW mode, FirstScan(mode)
  PROVE  ItemInv'
<1>1. RowOK(Refreshed(New(file), sidecar, artwork, mode, provider))
  BY NewRowOK, RefreshKeepsLocks
<1>2. QED
  BY <1>1 DEF FirstScan, ItemInv, RowOK

LEMMA RescanKeepsLocks ==
  ASSUME ItemInv, NEW mode, NEW deep, ScanAgain(mode, deep)
  PROVE  /\ ItemInv'
         /\ \A old \in item, row \in item' :
              \A f \in LocksOn(old) : row.values[f] = old.values[f]
<1>1. PICK old : item = {old} /\ RowOK(old)
  BY DEF ScanAgain, ItemInv
<1> DEFINE new == Scanned(old, file, sidecar, artwork, mode, deep, provider)
<1>2. RowOK(new) /\ \A f \in LocksOn(old) : new.values[f] = old.values[f]
  BY <1>1, ScanKeepsLocks
<1>3. item' = {new}
  BY <1>1 DEF ScanAgain
<1> HIDE DEF new
<1>4. QED
  BY <1>1, <1>2, <1>3 DEF ItemInv, RowOK

LEMMA ItemInvHolds == MetadataSpec => []ItemInv
<1>1. MetadataInit => ItemInv
  BY DEF MetadataInit, ItemInv
<1>2. ItemInv /\ [MetadataNext]_metadataVars => ItemInv'
  <2>1. SUFFICES ASSUME ItemInv, [MetadataNext]_metadataVars PROVE ItemInv'
    OBVIOUS
  <2>2. CASE UNCHANGED item
    BY <2>1, <2>2 DEF ItemInv, RowOK
  <2>3. ASSUME NEW mode \in Modes, FirstScan(mode)
        PROVE  ItemInv'
    BY <2>3, FirstScanMakesOne
  <2>4. ASSUME NEW mode \in Modes, NEW deep \in BOOLEAN, ScanAgain(mode, deep)
        PROVE  ItemInv'
    BY <2>1, <2>4, RescanKeepsLocks
  <2>5. QED
    BY <2>1, <2>2, <2>3, <2>4 DEF MetadataNext, WorldChanges, metadataVars
<1>3. QED
  BY <1>1, <1>2, PTL DEF MetadataSpec

----------------------------------------------------------------------------
\* A lock keeps the value it is on through every scan, for any sidecars, artwork, provider
\* and mode: neither the scanner's half nor the refresh writes over it (`_differs`,
\* `update`, `merge`).
THEOREM LocksHold == MetadataSpec => ALockKeepsItsValue
<1>1. ASSUME ItemInv, [MetadataNext]_metadataVars
      PROVE  [\A old \in item, row \in item', f \in Lockable :
                (old.locked \/ f \in old.names) /\ ~(f = "runtime" /\ medium = "film") =>
                  row.values[f] = old.values[f]]_metadataVars
  <2>1. CASE UNCHANGED item
    BY <1>1, <2>1 DEF ItemInv
  <2>2. ASSUME NEW mode \in Modes, FirstScan(mode)
        PROVE  item = {}
    BY <2>2 DEF FirstScan
  <2>3. ASSUME NEW mode \in Modes, NEW deep \in BOOLEAN, ScanAgain(mode, deep)
        PROVE  \A old \in item, row \in item', f \in Lockable :
                 (old.locked \/ f \in old.names) /\ ~(f = "runtime" /\ medium = "film") =>
                   row.values[f] = old.values[f]
    BY <1>1, <2>3, RescanKeepsLocks DEF LocksOn
  <2>4. QED
    BY <1>1, <2>1, <2>2, <2>3 DEF MetadataNext, WorldChanges, metadataVars
<1>2. QED
  BY <1>1, ItemInvHolds, PTL DEF MetadataSpec, ALockKeepsItsValue

----------------------------------------------------------------------------
(* What a refresh makes of a row.                                          *)

\* The first of two or three sources that has a value.
LEMMA FirstOfTwo ==
  ASSUME NEW a, NEW b, NEW f
  PROVE  FirstValue(<<a, b>>, f) = IF a[f] # {} THEN a[f] ELSE b[f]
<1> DEFINE I == {i \in 1..2 : <<a, b>>[i][f] # {}}
<1>1. FirstValue(<<a, b>>, f) = LET i == IF I # {} THEN Min(I) ELSE 0
                                IN IF i = 0 THEN {} ELSE <<a, b>>[i][f]
  BY DEF FirstValue, SelectInSeq
<1>2. I = (IF a[f] # {} THEN {1} ELSE {}) \union (IF b[f] # {} THEN {2} ELSE {})
  OBVIOUS
<1>3. a[f] # {} => Min(I) = 1
  BY <1>2 DEF Min
<1>4. a[f] = {} /\ b[f] # {} => Min(I) = 2
  BY <1>2 DEF Min
<1> HIDE DEF I
<1>5. QED
  BY <1>1, <1>2, <1>3, <1>4

LEMMA FirstOfThree ==
  ASSUME NEW a, NEW b, NEW c, NEW f
  PROVE  FirstValue(<<a, b, c>>, f) =
           IF a[f] # {} THEN a[f] ELSE IF b[f] # {} THEN b[f] ELSE c[f]
<1> DEFINE I == {i \in 1..3 : <<a, b, c>>[i][f] # {}}
<1>1. FirstValue(<<a, b, c>>, f) = LET i == IF I # {} THEN Min(I) ELSE 0
                                   IN IF i = 0 THEN {} ELSE <<a, b, c>>[i][f]
  BY DEF FirstValue, SelectInSeq
<1>2. I = (IF a[f] # {} THEN {1} ELSE {}) \union (IF b[f] # {} THEN {2} ELSE {})
            \union (IF c[f] # {} THEN {3} ELSE {})
  OBVIOUS
<1>3. a[f] # {} => Min(I) = 1
  BY <1>2 DEF Min
<1>4. a[f] = {} /\ b[f] # {} => Min(I) = 2
  BY <1>2 DEF Min
<1>5. a[f] = {} /\ b[f] = {} /\ c[f] # {} => Min(I) = 3
  BY <1>2 DEF Min
<1> HIDE DEF I
<1>6. QED
  BY <1>1, <1>2, <1>3, <1>4, <1>5

\* Tuples put end to end.
LEMMA JoinedTwo ==
  ASSUME NEW S, NEW s \in Seq(S), NEW c \in S, NEW t \in Seq(S),
         Len(t) = Len(s) + 1, \A i \in 1..Len(s) : t[i] = s[i], t[Len(s) + 1] = c
  PROVE  s \o <<c>> = t
<1>1. Append(s, c) = s \o <<c>>
  BY AppendIsConcat
<1>2. /\ Append(s, c) \in Seq(S) /\ Len(Append(s, c)) = Len(s) + 1
      /\ \A i \in 1..Len(s) : Append(s, c)[i] = s[i]
      /\ Append(s, c)[Len(s) + 1] = c
  BY AppendProperties
<1>3. Len(s) \in Nat
  OBVIOUS
<1>4. \A i \in 1..Len(t) : i \in 1..Len(s) \/ i = Len(s) + 1
  BY <1>3
<1>5. \A i \in 1..Len(t) : Append(s, c)[i] = t[i]
  BY <1>2, <1>4
<1>6. Append(s, c) = t
  BY <1>2, <1>5, SeqEqual
<1>7. QED
  BY <1>1, <1>6

LEMMA Joined ==
  ASSUME NEW a, NEW b, NEW c
  PROVE  <<a>> \o <<b>> \o <<c>> = <<a, b, c>> /\ <<a>> \o <<>> \o <<c>> = <<a, c>>
<1> DEFINE S == {a, b, c}
<1>1. /\ <<a>> \in Seq(S) /\ <<a, b>> \in Seq(S) /\ <<a, c>> \in Seq(S)
      /\ <<a, b, c>> \in Seq(S) /\ a \in S /\ b \in S /\ c \in S
  OBVIOUS
<1> HIDE DEF S
<1>2. <<a>> \o <<b>> = <<a, b>>
  <2>1. Len(<<a, b>>) = Len(<<a>>) + 1 /\ (\A i \in 1..Len(<<a>>) : <<a, b>>[i] = <<a>>[i])
        /\ <<a, b>>[Len(<<a>>) + 1] = b
    OBVIOUS
  <2>2. QED
    BY <1>1, <2>1, JoinedTwo
<1>3. <<a>> \o <<c>> = <<a, c>>
  <2>1. Len(<<a, c>>) = Len(<<a>>) + 1 /\ (\A i \in 1..Len(<<a>>) : <<a, c>>[i] = <<a>>[i])
        /\ <<a, c>>[Len(<<a>>) + 1] = c
    OBVIOUS
  <2>2. QED
    BY <1>1, <2>1, JoinedTwo
<1>4. <<a, b>> \o <<c>> = <<a, b, c>>
  <2>1. /\ Len(<<a, b, c>>) = Len(<<a, b>>) + 1
        /\ \A i \in 1..Len(<<a, b>>) : <<a, b, c>>[i] = <<a, b>>[i]
        /\ <<a, b, c>>[Len(<<a, b>>) + 1] = c
    OBVIOUS
  <2>2. QED
    BY <1>1, <2>1, JoinedTwo
<1>5. <<a>> \o <<>> = <<a>>
  BY <1>1, ConcatEmptySeq
<1>6. QED
  BY <1>2, <1>3, <1>4, <1>5

\* The value that wins where the row does not refuse it, and what is made of it.
Offered(local, heard, f) == IF local[f] # {} THEN local[f] ELSE IF heard THEN Remote[f] ELSE {}

Combined(row, local, heard, mode) ==
  [f \in Fields |->
     IF Refused(row, f) \/ Offered(local, heard, f) = {} THEN row.values[f]
     ELSE Applied(f, Held(row, f), Offered(local, heard, f), mode)]

Hears(row, local, mode, weather) == Asks(row, local, mode) /\ weather = "up"

\* So much is what `merge` makes of the local source, of a provider that was heard, and of
\* the path.
LEMMA MergedIsCombined ==
  ASSUME NEW row, NEW local, NEW heard \in BOOLEAN, NEW mode
  PROVE  Merged(row, Sources(row, local, IF heard THEN <<Remote>> ELSE <<>>), mode)
           = Combined(row, local, heard, mode)
<1> DEFINE sources == Sources(row, local, IF heard THEN <<Remote>> ELSE <<>>)
           path == FromPath(row)
<1>1. sources = IF heard THEN <<local, Remote, path>> ELSE <<local, path>>
  <2>1. CASE heard
    <3>1. sources = <<local>> \o <<Remote>> \o <<path>>
      BY <2>1 DEF Sources
    <3> HIDE DEF path, sources
    <3>2. QED
      BY <2>1, <3>1, Joined, Zenon
  <2>2. CASE ~heard
    <3>1. sources = <<local>> \o <<>> \o <<path>>
      BY <2>2 DEF Sources
    <3> HIDE DEF path, sources
    <3>2. QED
      BY <2>2, <3>1, Joined, Zenon
  <2>3. QED
    BY <2>1, <2>2
<1>2. \A f \in Fields : path[f] = IF f = "name" THEN row.values["name"] ELSE {}
  BY DEF FromPath, NoValues
<1> HIDE DEF path, sources
<1>3. ASSUME NEW f \in Fields
      PROVE  FirstValue(sources, f) =
               IF Offered(local, heard, f) # {} THEN Offered(local, heard, f) ELSE path[f]
  <2>1. /\ FirstValue(<<local, path>>, f) = IF local[f] # {} THEN local[f] ELSE path[f]
        /\ FirstValue(<<local, Remote, path>>, f) =
             IF local[f] # {} THEN local[f]
             ELSE IF Remote[f] # {} THEN Remote[f] ELSE path[f]
    <3>1. FirstValue(<<local, path>>, f) = IF local[f] # {} THEN local[f] ELSE path[f]
      BY FirstOfTwo
    <3>2. FirstValue(<<local, Remote, path>>, f) =
             IF local[f] # {} THEN local[f]
             ELSE IF Remote[f] # {} THEN Remote[f] ELSE path[f]
      BY FirstOfThree
    <3>3. QED
      BY <3>1, <3>2
  <2>2. CASE heard
    <3>1. sources = <<local, Remote, path>>
      BY <1>1, <2>2
    <3>2. QED
      BY <2>1, <2>2, <3>1 DEF Offered
  <2>3. CASE ~heard
    <3>1. sources = <<local, path>>
      BY <1>1, <2>3
    <3>2. QED
      BY <2>1, <2>3, <3>1 DEF Offered
  <2>4. QED
    BY <2>2, <2>3
<1>4. ASSUME NEW f \in Fields
      PROVE  (IF FirstValue(sources, f) = {} \/ Refused(row, f) THEN row.values[f]
              ELSE Applied(f, Held(row, f), FirstValue(sources, f), mode))
               = Combined(row, local, heard, mode)[f]
  <2>1. CASE Offered(local, heard, f) # {}
    BY <1>3, <2>1 DEF Combined
  <2>2. CASE Offered(local, heard, f) = {} /\ f # "name"
    <3>1. FirstValue(sources, f) = {}
      BY <1>2, <1>3, <2>2
    <3>2. Combined(row, local, heard, mode)[f] = row.values[f]
      BY <2>2 DEF Combined
    <3>3. QED
      BY <3>1, <3>2
  <2>3. CASE Offered(local, heard, f) = {} /\ f = "name"
    <3>1. FirstValue(sources, f) = row.values[f]
      BY <1>2, <1>3, <2>3
    <3>2. row.values[f] # {} => Applied(f, Held(row, f), row.values[f], mode) = row.values[f]
      BY <2>3 DEF Applied, Held, ScannerOwned
    <3>3. QED
      BY <2>3, <3>1, <3>2 DEF Combined
  <2>4. QED
    BY <2>1, <2>2, <2>3
<1>5. Merged(row, sources, mode) =
        [f \in Fields |->
           IF FirstValue(sources, f) = {} \/ Refused(row, f) THEN row.values[f]
           ELSE Applied(f, Held(row, f), FirstValue(sources, f), mode)]
  BY DEF Merged
<1>6. Combined(row, local, heard, mode) =
        [f \in Fields |-> Combined(row, local, heard, mode)[f]]
  BY DEF Combined
<1>7. QED
  BY <1>4, <1>5, <1>6, Zenon DEF sources

\* The values of a refreshed row, and what of it the refresh does not write.
LEMMA RefreshedIs ==
  ASSUME NEW row, RowOK(row), NEW paper, NEW art, NEW mode, NEW weather
  PROVE  LET new == Refreshed(row, paper, art, mode, weather)
             local == Local(paper, art)
         IN /\ new.values = Combined(row, local, Hears(row, local, mode, weather), mode)
            /\ new = row \/ new.resolved
            /\ new.source = row.source
<1> DEFINE new == Refreshed(row, paper, art, mode, weather)
           local == Local(paper, art)
           heard == Hears(row, local, mode, weather)
           values == Merged(row, Sources(row, local,
                              IF heard THEN <<Remote>> ELSE <<>>), mode)
<1>1. heard \in BOOLEAN
  BY DEF Hears, Asks
<1>2. values = Combined(row, local, heard, mode)
  BY <1>1, MergedIsCombined
<1>3. \/ new = row /\ values = row.values
      \/ \E locked, names, failed :
           new = [row EXCEPT !.values = values, !.locked = locked, !.names = names,
                             !.pending = failed, !.resolved = TRUE]
  BY Zenon DEF Refreshed, Hears
<1> HIDE DEF values
<1>4. CASE new = row /\ values = row.values
  BY <1>2, <1>4, Zenon
<1>5. CASE \E locked, names, failed :
             new = [row EXCEPT !.values = values, !.locked = locked, !.names = names,
                               !.pending = failed, !.resolved = TRUE]
  <2>1. PICK locked, names, failed :
          new = [row EXCEPT !.values = values, !.locked = locked, !.names = names,
                            !.pending = failed, !.resolved = TRUE]
    BY <1>5
  <2> HIDE DEF new
  <2>2. new.values = values /\ new.resolved /\ new.source = row.source
    BY <2>1 DEF RowOK
  <2>3. QED
    BY <1>2, <2>2 DEF new
<1>6. QED
  BY <1>3, <1>4, <1>5

----------------------------------------------------------------------------
\* Everybody is credited once.
CreditedOnce(value) == \A p, q \in value : p[1] = q[1] => p = q

\* A value that has been applied is not applied to any further effect: `_union`, `_enrich`
\* and `_accumulate` find everything of it there.  And none of them empties a field.
LEMMA AppliedTwice ==
  ASSUME NEW f \in Fields, NEW current, NEW winner, winner # {}, NEW mode,
         f = "people" => CreditedOnce(winner)
  PROVE  /\ Applied(f, Applied(f, current, winner, mode), winner, mode)
              = Applied(f, current, winner, mode)
         /\ Applied(f, current, winner, mode) # {}
<1>1. CASE f = "tags"
  BY <1>1 DEF Applied, United
<1>2. CASE f = "ids"
  <2> DEFINE once == Accumulated(current, winner, mode)
  <2>1. CASE mode = "replace"
    BY <1>2, <2>1 DEF Applied, Accumulated
  <2>2. CASE mode # "replace"
    <3>1. once = current \union {i \in winner : ~\E j \in current : j[1] = i[1]}
      BY <2>2 DEF Accumulated
    <3>2. \A i \in winner : \E j \in once : j[1] = i[1]
      BY <3>1
    <3>3. once # {}
      BY <3>1
    <3> HIDE DEF once
    <3>4. Accumulated(once, winner, mode) = once
      BY <2>2, <3>2 DEF Accumulated
    <3>5. QED
      BY <1>2, <3>3, <3>4 DEF Applied, once
  <2>3. QED
    BY <2>1, <2>2
<1>3. CASE f = "people"
  <2> DEFINE Of(p) == {q \in winner : q[1] = p[1]}
             Pick(people) == CHOOSE q \in people : TRUE
             Filled(p) == IF p[2] = "" /\ Of(p) # {} THEN Pick(Of(p)) ELSE p
             once == Enriched(current, winner, mode)
  <2>1. CASE mode = "replace"
    BY <1>3, <2>1 DEF Applied, Enriched
  <2>2. CASE mode # "replace"
    <3>1. ASSUME NEW p
          PROVE  Filled(Filled(p)) = Filled(p)
      <4>1. CASE p[2] = "" /\ Of(p) # {}
        <5>1. Filled(p) = Pick(Of(p)) /\ Filled(p) \in Of(p)
          BY <4>1
        <5>2. Filled(p)[1] = p[1]
          BY <5>1
        <5>3. ASSUME NEW q, q[1] = p[1]
              PROVE  Filled(q) = IF q[2] = "" THEN Filled(p) ELSE q
          <6>1. Of(q) = Of(p)
            BY <5>3
          <6> HIDE DEF Of, Pick
          <6>2. QED
            BY <4>1, <6>1
        <5> HIDE DEF Filled
        <5>4. QED
          BY <5>2, <5>3
      <4>2. CASE ~(p[2] = "" /\ Of(p) # {})
        <5>1. Filled(p) = p
          BY <4>2
        <5> HIDE DEF Filled
        <5>2. QED
          BY <5>1
      <4>3. QED
        BY <4>1, <4>2
    <3>2. \A p \in winner : Filled(p) = p
      <4>1. \A p \in winner : Of(p) = {p}
        BY <1>3 DEF CreditedOnce
      <4> HIDE DEF Of
      <4>2. QED
        BY <4>1
    <3>3. ASSUME NEW people
          PROVE  Enriched(people, winner, mode) =
                   IF people = {} THEN winner ELSE {Filled(p) : p \in people}
      BY <2>2, Zenon DEF Enriched
    <3> HIDE DEF Filled, once
    <3>4. once = IF current = {} THEN winner ELSE {Filled(p) : p \in current}
      BY <3>3, Zenon DEF once
    <3>5. once # {} /\ \A p \in once : Filled(p) = p
      BY <3>1, <3>2, <3>4
    <3>6. {Filled(p) : p \in once} = once
      BY <3>5
    <3>7. Enriched(once, winner, mode) = once
      BY <3>3, <3>5, <3>6
    <3>8. QED
      BY <1>3, <3>5, <3>7 DEF Applied, once
  <2>3. QED
    BY <2>1, <2>2
<1>4. CASE f \notin {"tags", "ids", "people"}
  BY <1>4 DEF Applied
<1>5. QED
  BY <1>1, <1>2, <1>3, <1>4

\* What a refresh may be told: one person once, in the sidecar as in the remote answer.
KnownWorld(local) == CreditedOnce(local["people"]) /\ CreditedOnce(Remote["people"])

LEMMA OfferedOnce ==
  ASSUME NEW local, KnownWorld(local), NEW heard, NEW f \in Fields
  PROVE  f = "people" => CreditedOnce(Offered(local, heard, f))
BY DEF KnownWorld, CreditedOnce, Offered

\* A refresh never takes the last value of a field away.
LEMMA NeverEmptied ==
  ASSUME NEW row, NEW local, KnownWorld(local), NEW heard, NEW mode, NEW f \in Fields,
         Combined(row, local, heard, mode)[f] = {}
  PROVE  row.values[f] = {}
<1>1. CASE Refused(row, f) \/ Offered(local, heard, f) = {}
  BY <1>1 DEF Combined
<1>2. CASE ~(Refused(row, f) \/ Offered(local, heard, f) = {})
  <2>1. Combined(row, local, heard, mode)[f]
          = Applied(f, Held(row, f), Offered(local, heard, f), mode)
    BY <1>2 DEF Combined
  <2>2. Applied(f, Held(row, f), Offered(local, heard, f), mode) # {}
    BY <1>2, AppliedTwice, OfferedOnce
  <2>3. QED
    BY <2>1, <2>2
<1>3. QED
  BY <1>1, <1>2

\* So what a refresh has been at asks the provider for no more than it asked before.
LEMMA AsksNoMore ==
  ASSUME NEW row, NEW local, KnownWorld(local), NEW heard, NEW mode, NEW new,
         new.values = Combined(row, local, heard, mode)
  PROVE  /\ Asks(new, local, mode) => Asks(row, local, mode)
         /\ heard = FALSE => (Asks(new, local, mode) <=> Asks(row, local, mode))
<1>1. \A f \in Fields : new.values[f] = {} => row.values[f] = {}
  BY NeverEmptied
<1>2. heard = FALSE => \A f \in Fields : local[f] = {} => new.values[f] = row.values[f]
  BY DEF Combined, Offered
<1>3. Wanted \subseteq Fields /\ "name" \in Fields
  BY DEF Wanted, Fields
<1>4. ASSUME NEW r, NEW f \in Fields
      PROVE  FromPath(r)[f] = IF f = "name" THEN r.values["name"] ELSE {}
  BY DEF FromPath, NoValues
<1>5. \A f \in Fields : FromPath(new)[f] = {} => FromPath(row)[f] = {}
  BY <1>1, <1>3, <1>4
<1>6. \A f \in Fields : Held(new, f) = {} => Held(row, f) = {}
  BY <1>1 DEF Held
<1>7. heard = FALSE => \A f \in Fields : local[f] = {} =>
        FromPath(new)[f] = FromPath(row)[f] /\ Held(new, f) = Held(row, f)
  BY <1>2, <1>3, <1>4 DEF Held
<1>8. QED
  BY <1>3, <1>5, <1>6, <1>7 DEF Asks, StillWanting

----------------------------------------------------------------------------
\* The world around the item is one of those there may be.
World ==
  /\ medium \in Media
  /\ file \in DOMAIN Measured
  /\ sidecar \in Sidecars
  /\ artwork \in Artworks
  /\ provider \in {"up", "down", "unmatched"}

LEMMA WorldHolds == MetadataSpec => []World
<1>1. MetadataInit => World
  BY ValuesAssumption DEF MetadataInit, World
<1>2. World /\ [MetadataNext]_metadataVars => World'
  BY DEF World, MetadataNext, FirstScan, ScanAgain, WorldChanges, metadataVars
<1>3. QED
  BY <1>1, <1>2, PTL DEF MetadataSpec

\* The sidecars there may be credit everybody once.
LEMMA WorldIsKnown ==
  ASSUME World
  PROVE  KnownWorld(Local(sidecar, artwork))
<1>1. Local(sidecar, artwork)["people"] = sidecar.values["people"]
  BY SidecarsAssumption DEF World, Local, Fields
<1>2. QED
  BY <1>1, ValuesAssumption DEF World, KnownWorld, CreditedOnce

\* What a second refresh from the same local source makes of a field that the first has
\* left: nothing where both were offered the same, else what it would have made of it first.
LEMMA RefreshedTwice ==
  ASSUME NEW row, NEW local, KnownWorld(local), NEW first, NEW second, NEW mode,
         NEW new,
         new.values = Combined(row, local, first, mode),
         \A f \in Fields : Refused(row, f) => Refused(new, f),
         NEW f \in Fields
  PROVE  \/ /\ \/ Refused(new, f) \/ Offered(local, second, f) = {}
               \/ Offered(local, second, f) = Offered(local, first, f)
            /\ Combined(new, local, second, mode)[f] = new.values[f]
         \/ /\ Offered(local, second, f) # Offered(local, first, f)
            /\ ~Refused(new, f)
            /\ Combined(new, local, second, mode)[f] = Combined(row, local, second, mode)[f]
<1> DEFINE heard == Offered(local, second, f)
<1>1. CASE Refused(new, f) \/ heard = {}
  BY <1>1 DEF Combined
<1>2. CASE ~Refused(new, f) /\ heard # {} /\ heard = Offered(local, first, f)
  <2>1. /\ new.values[f] = Applied(f, Held(row, f), heard, mode)
        /\ Combined(new, local, second, mode)[f] = Applied(f, Held(new, f), heard, mode)
    BY <1>2 DEF Combined
  <2>2. f = "people" => CreditedOnce(heard)
    BY OfferedOnce
  <2> HIDE DEF heard
  <2>3. Applied(f, new.values[f], heard, mode) = new.values[f]
    BY <1>2, <2>1, <2>2, AppliedTwice
  <2>4. f = "name" => Held(new, f) = Held(row, f)
    BY DEF Held, ScannerOwned
  <2>5. f # "name" => Held(new, f) = new.values[f]
    BY DEF Held, ScannerOwned
  <2>6. Applied(f, Held(new, f), heard, mode) = new.values[f]
    BY <2>1, <2>3, <2>4, <2>5
  <2>7. QED
    BY <1>2, <2>1, <2>6 DEF heard
<1>3. CASE ~Refused(new, f) /\ heard # {} /\ heard # Offered(local, first, f)
  <2>1. local[f] = {} /\ Offered(local, first, f) = {}
    BY <1>3 DEF Offered
  <2>2. new.values[f] = row.values[f]
    BY <2>1 DEF Combined
  <2>3. Held(new, f) = Held(row, f)
    BY <2>2 DEF Held
  <2>4. /\ Combined(new, local, second, mode)[f] = Applied(f, Held(new, f), heard, mode)
        /\ Combined(row, local, second, mode)[f] = Applied(f, Held(row, f), heard, mode)
    BY <1>3 DEF Combined
  <2>5. QED
    BY <1>3, <2>3, <2>4
<1>4. QED
  BY <1>1, <1>2, <1>3
----------------------------------------------------------------------------
\* A refresh that was told nothing but the local sources does not spoil the next one.
LEMMA HeardLater ==
  ASSUME NEW row, NEW local, KnownWorld(local), NEW first, NEW second, NEW mode, NEW new,
         new.values = Combined(row, local, first, mode),
         \A f \in Fields : Refused(row, f) <=> Refused(new, f),
         \A f \in Fields : Offered(local, first, f) = local[f]
  PROVE  Combined(new, local, second, mode) = Combined(row, local, second, mode)
<1>1. ASSUME NEW f \in Fields
      PROVE  Combined(new, local, second, mode)[f] = Combined(row, local, second, mode)[f]
  <2>1. \/ /\ \/ Refused(new, f) \/ Offered(local, second, f) = {}
              \/ Offered(local, second, f) = Offered(local, first, f)
           /\ Combined(new, local, second, mode)[f] = new.values[f]
        \/ Combined(new, local, second, mode)[f] = Combined(row, local, second, mode)[f]
    BY RefreshedTwice
  <2>2. CASE \/ Refused(new, f) \/ Offered(local, second, f) = {}
             \/ Offered(local, second, f) = Offered(local, first, f)
    <3>1. Offered(local, second, f) = {} => Offered(local, first, f) = {}
      BY DEF Offered
    <3>2. Combined(row, local, first, mode)[f] = Combined(row, local, second, mode)[f]
      BY <2>2, <3>1 DEF Combined
    <3>3. QED
      BY <2>1, <3>2
  <2>3. QED
    BY <2>1, <2>2
<1>2. /\ Combined(new, local, second, mode)
           = [f \in Fields |-> Combined(new, local, second, mode)[f]]
      /\ Combined(row, local, second, mode)
           = [f \in Fields |-> Combined(row, local, second, mode)[f]]
  BY DEF Combined
<1>3. QED
  BY <1>1, <1>2, Zenon

\* What a failed try leaves is tried again with the result that it would have had.
LEMMA TriedAgain ==
  ASSUME World, NEW row, RowOK(row), NEW mode
  PROVE  LET Try(r, weather) == Refreshed(r, sidecar, artwork, mode, weather)
             failed == Try(row, "down")
         IN failed.locked = row.locked /\ failed.names = row.names =>
              Try(failed, "up").values = Try(row, "up").values
<1> DEFINE local == Local(sidecar, artwork)
           failed == Refreshed(row, sidecar, artwork, mode, "down")
           asks == Asks(row, local, mode)
<1>1. SUFFICES ASSUME failed.locked = row.locked, failed.names = row.names
               PROVE  Refreshed(failed, sidecar, artwork, mode, "up").values
                        = Refreshed(row, sidecar, artwork, mode, "up").values
  BY Zenon
<1>2. RowOK(failed)
  BY RefreshKeepsLocks, Zenon
<1>3. failed.values = Combined(row, local, FALSE, mode)
  <2>1. failed.values = Combined(row, local, Hears(row, local, mode, "down"), mode)
    BY RefreshedIs, Zenon
  <2>2. Hears(row, local, mode, "down") = FALSE
    BY DEF Hears
  <2>3. QED
    BY <2>1, <2>2, Zenon
<1>4. KnownWorld(local)
  BY WorldIsKnown
<1> HIDE DEF failed, local
<1>5. asks \in BOOLEAN /\ Asks(failed, local, mode) = asks
  <2>1. Asks(failed, local, mode) <=> Asks(row, local, mode)
    BY <1>3, <1>4, AsksNoMore
  <2>2. QED
    BY <2>1 DEF Asks
<1>6. /\ Refreshed(failed, sidecar, artwork, mode, "up").values
           = Combined(failed, local, asks, mode)
      /\ Refreshed(row, sidecar, artwork, mode, "up").values
           = Combined(row, local, asks, mode)
  <2>1. Hears(failed, local, mode, "up") = asks /\ Hears(row, local, mode, "up") = asks
    BY <1>5 DEF Hears
  <2>2. /\ Refreshed(failed, sidecar, artwork, mode, "up").values
             = Combined(failed, local, Hears(failed, local, mode, "up"), mode)
        /\ Refreshed(row, sidecar, artwork, mode, "up").values
             = Combined(row, local, Hears(row, local, mode, "up"), mode)
    BY <1>2, RefreshedIs, Zenon DEF local
  <2>3. QED
    BY <2>1, <2>2, Zenon
<1>7. \A f \in Fields : Refused(failed, f) <=> Refused(row, f)
  BY <1>1 DEF Refused
<1> HIDE DEF asks
<1>8. Combined(failed, local, asks, mode) = Combined(row, local, asks, mode)
  <2>1. PICK unheard : unheard = FALSE
    OBVIOUS
  <2>2. failed.values = Combined(row, local, unheard, mode)
    BY <1>3, <2>1
  <2>3. \A f \in Fields : Offered(local, unheard, f) = local[f]
    BY <2>1 DEF Offered
  <2>4. QED
    BY <1>4, <1>7, <2>2, <2>3, HeardLater
<1>9. QED
  BY <1>6, <1>8, Zenon

\* A provider that was away costs an item nothing (`_apply_one` keeps the failed item
\* pending, and a default refresh fills only what is empty): the try after the failed one
\* has the values that the failed one would have had.
THEOREM OutagesLeaveNoTrace == MetadataSpec => []AnOutageLeavesNoTrace
<1>1. ASSUME ItemInv, World
      PROVE  AnOutageLeavesNoTrace
  <2>1. \A row \in item \union {New(file)} : RowOK(row)
    BY <1>1, NewRowOK DEF ItemInv
  <2>2. SUFFICES ASSUME NEW row \in item \union {New(file)}, NEW mode \in Modes
                 PROVE  LET Try(r, weather) == Refreshed(r, sidecar, artwork, mode, weather)
                            failed == Try(row, "down")
                        IN failed.locked = row.locked /\ failed.names = row.names =>
                             Try(failed, "up").values = Try(row, "up").values
    BY Zenon DEF AnOutageLeavesNoTrace
  <2>3. RowOK(row)
    BY <2>1
  <2>4. QED
    BY <1>1, <2>3, TriedAgain, Zenon
<1>2. QED
  BY <1>1, ItemInvHolds, WorldHolds, PTL

----------------------------------------------------------------------------
\* What a scan has been at is what it found: a name until a refresh has one, and of a film
\* the file and what it measures.
Settled(row, version) ==
  /\ ~row.resolved => row.values["name"] = PathName
  /\ medium = "film" => row.values["runtime"] = Measured[version] /\ row.source = version

LEMMA NewIsSettled == ASSUME NEW version PROVE Settled(New(version), version)
BY DEF Settled, New, NoValues, ScannedRuntime, Fields

\* The scanner's half: what it finds unlike the file, it writes.
Written(row, version) == IF Differs(row, version) THEN Updated(row, version) ELSE row

LEMMA WrittenIsSettled ==
  ASSUME NEW row, RowOK(row), NEW version
  PROVE  LET new == Written(row, version)
         IN /\ RowOK(new) /\ Settled(new, version)
            /\ \A f \in Fields : Refused(new, f) <=> Refused(row, f)
            /\ new.locked = row.locked /\ new.names = row.names
<1>1. CASE ~Differs(row, version)
  BY <1>1 DEF Written, Differs, Settled, ScannedRuntime
<1>2. CASE Differs(row, version)
  <2> DEFINE new == Updated(row, version)
  <2>1. RowOK(new)
    BY UpdateKeepsLocks
  <2>2. DOMAIN row = {"values", "source", "locked", "names", "pending", "resolved"}
        /\ DOMAIN row.values = Fields
    BY DEF RowOK
  <2>3. /\ new.resolved = row.resolved /\ new.locked = row.locked /\ new.names = row.names
        /\ new.source = version
        /\ new.values["name"] = IF row.resolved THEN row.values["name"] ELSE PathName
        /\ new.values["runtime"] =
             IF medium = "film" THEN Measured[version] ELSE row.values["runtime"]
    BY <2>2 DEF Updated, ScannedRuntime, Fields
  <2>4. Written(row, version) = new
    BY <1>2 DEF Written
  <2> HIDE DEF new
  <2>5. QED
    BY <2>1, <2>3, <2>4 DEF Settled, Refused
<1>3. QED
  BY <1>1, <1>2

\* The refresh leaves that so: it resolves a name, and the runtime of a film is not its own.
LEMMA RefreshedIsSettled ==
  ASSUME NEW row, RowOK(row), NEW version, Settled(row, version),
         NEW paper, NEW art, NEW mode, NEW weather
  PROVE  Settled(Refreshed(row, paper, art, mode, weather), version)
<1> DEFINE new == Refreshed(row, paper, art, mode, weather)
           local == Local(paper, art)
           heard == Hears(row, local, mode, weather)
<1>1. /\ new.values = Combined(row, local, heard, mode)
      /\ new = row \/ new.resolved
      /\ new.source = row.source
  BY RefreshedIs
<1> HIDE DEF new, heard, local
<1>2. medium = "film" => new.values["runtime"] = row.values["runtime"]
  BY <1>1 DEF Combined, Refused, Fields
<1>3. Settled(new, version)
  BY <1>1, <1>2 DEF Settled
<1>4. QED
  BY <1>3 DEF new

\* The scanner's half has nothing left to write to such a row.
LEMMA SettledIsWritten ==
  ASSUME NEW row, RowOK(row), NEW version, Settled(row, version)
  PROVE  Written(row, version).values = row.values
<1>1. CASE ~Differs(row, version)
  BY <1>1 DEF Written
<1>2. CASE Differs(row, version)
  <2> DEFINE new == Updated(row, version)
  <2>1. DOMAIN row = {"values", "source", "locked", "names", "pending", "resolved"}
        /\ DOMAIN row.values = Fields /\ row.values = [f \in Fields |-> row.values[f]]
    BY DEF RowOK
  <2>2. new.values = [f \in Fields |-> new.values[f]]
    <3>1. RowOK(new)
      BY UpdateKeepsLocks
    <3> HIDE DEF new
    <3>2. QED
      BY <3>1 DEF RowOK
  <2>3. /\ new.values["name"] = row.values["name"]
        /\ new.values["runtime"] = row.values["runtime"]
        /\ \A f \in Fields \ {"name", "runtime"} : new.values[f] = row.values[f]
    BY <2>1 DEF Updated, ScannedRuntime, Fields, Settled
  <2>4. \A f \in Fields : new.values[f] = row.values[f]
    BY <2>3
  <2>5. Written(row, version) = new
    BY <1>2 DEF Written
  <2> HIDE DEF new
  <2>6. QED
    BY <2>1, <2>2, <2>4, <2>5, Zenon
<1>3. QED
  BY <1>1, <1>2
----------------------------------------------------------------------------
\* A refresh that hears no more than the one before it makes nothing of what that one left.
LEMMA HeardNoMore ==
  ASSUME NEW row, NEW local, KnownWorld(local), NEW first, NEW second, NEW mode, NEW new,
         new.values = Combined(row, local, first, mode),
         \A f \in Fields : Refused(row, f) => Refused(new, f),
         \A f \in Fields : \/ Offered(local, second, f) = Offered(local, first, f)
                           \/ Offered(local, second, f) = {}
  PROVE  Combined(new, local, second, mode) = new.values
<1>1. ASSUME NEW f \in Fields
      PROVE  Combined(new, local, second, mode)[f] = new.values[f]
  <2>1. \/ Combined(new, local, second, mode)[f] = new.values[f]
        \/ /\ Offered(local, second, f) # Offered(local, first, f)
           /\ Combined(new, local, second, mode)[f] = Combined(row, local, second, mode)[f]
           /\ ~Refused(new, f)
    BY RefreshedTwice
  <2>2. CASE Offered(local, second, f) # {}
    BY <2>1, <2>2
  <2>3. CASE Offered(local, second, f) = {}
    BY <2>3 DEF Combined
  <2>4. QED
    BY <2>2, <2>3
<1>2. /\ Combined(new, local, second, mode)
           = [f \in Fields |-> Combined(new, local, second, mode)[f]]
      /\ new.values = [f \in Fields |-> new.values[f]]
  BY DEF Combined
<1>3. QED
  BY <1>1, <1>2, Zenon

\* The same scan again, of what a refresh of a settled row has left.
LEMMA RefreshedAgain ==
  ASSUME World, NEW row, RowOK(row), Settled(row, file), NEW mode, NEW deep, NEW new,
         new = Refreshed(row, sidecar, artwork, mode, provider),
         \A f \in Fields : Refused(row, f) => Refused(new, f)
  PROVE  Scanned(new, file, sidecar, artwork, mode, deep, provider).values = new.values
<1> DEFINE local == Local(sidecar, artwork)
           first == Hears(row, local, mode, provider)
           again == Written(new, file)
           second == Hears(again, local, mode, provider)
<1>1. RowOK(new) /\ Settled(new, file)
  <2>1. RowOK(Refreshed(row, sidecar, artwork, mode, provider))
    BY RefreshKeepsLocks, Zenon
  <2>2. Settled(Refreshed(row, sidecar, artwork, mode, provider), file)
    BY RefreshedIsSettled
  <2>3. QED
    BY <2>1, <2>2, Zenon
<1>2. new.values = Combined(row, local, first, mode)
  BY RefreshedIs, Zenon
<1>3. /\ RowOK(again) /\ again.values = new.values
      /\ \A f \in Fields : Refused(again, f) <=> Refused(new, f)
  BY <1>1, WrittenIsSettled, SettledIsWritten, Zenon
<1>4. KnownWorld(local)
  BY WorldIsKnown
<1>5. Refreshed(again, sidecar, artwork, mode, provider).values
        = Combined(again, local, second, mode)
  BY <1>3, RefreshedIs, Zenon
<1>6. second => first
  <2>1. again.values = Combined(row, local, first, mode)
    BY <1>2, <1>3, Zenon
  <2> HIDE DEF again, local, first
  <2>2. Asks(again, local, mode) => Asks(row, local, mode)
    BY <1>4, <2>1, AsksNoMore
  <2>3. QED
    BY <2>2 DEF Hears, first
<1> HIDE DEF again, local, first, second
<1>7. \A f \in Fields : \/ Offered(local, second, f) = Offered(local, first, f)
                        \/ Offered(local, second, f) = {}
  BY <1>6 DEF Offered
<1>8. again.values = Combined(row, local, first, mode)
      /\ \A f \in Fields : Refused(row, f) => Refused(again, f)
  BY <1>2, <1>3
<1>9. Combined(again, local, second, mode) = new.values
  <2>1. Combined(again, local, second, mode) = again.values
    BY <1>4, <1>7, <1>8, HeardNoMore
  <2>2. QED
    BY <1>3, <2>1
<1>10. Scanned(new, file, sidecar, artwork, mode, deep, provider)
         \in {again, Refreshed(again, sidecar, artwork, mode, provider)}
  BY DEF Scanned, Written, again
<1>11. QED
  BY <1>3, <1>5, <1>9, <1>10

\* What holds of a row that a scan has left, where no lock of the old row was lifted.
LEMMA ScannedRow ==
  ASSUME World, NEW mode, NEW deep, NEW row,
         \/ row = Refreshed(New(file), sidecar, artwork, mode, provider)
         \/ \E old : /\ RowOK(old)
                     /\ row = Scanned(old, file, sidecar, artwork, mode, deep, provider)
                     /\ (old.locked => row.locked) /\ old.names \subseteq row.names
  PROVE  Scanned(row, file, sidecar, artwork, mode, deep, provider).values = row.values
<1>1. CASE row = Refreshed(New(file), sidecar, artwork, mode, provider)
  <2>1. \A f \in Fields : Refused(New(file), f) => Refused(row, f)
    BY DEF Refused, New
  <2>2. RowOK(New(file)) /\ Settled(New(file), file)
    BY NewRowOK, NewIsSettled
  <2>3. QED
    BY <1>1, <2>1, <2>2, RefreshedAgain
<1>2. CASE \E old : /\ RowOK(old)
                    /\ row = Scanned(old, file, sidecar, artwork, mode, deep, provider)
                    /\ (old.locked => row.locked) /\ old.names \subseteq row.names
  <2>1. PICK old : /\ RowOK(old)
                   /\ row = Scanned(old, file, sidecar, artwork, mode, deep, provider)
                   /\ (old.locked => row.locked) /\ old.names \subseteq row.names
    BY <1>2
  <2>2. CASE Touched(old, file, deep)
    <3> DEFINE written == Written(old, file)
    <3>1. row = Refreshed(written, sidecar, artwork, mode, provider)
      BY <2>1, <2>2 DEF Scanned, Written
    <3>2. /\ RowOK(written) /\ Settled(written, file)
          /\ written.locked = old.locked /\ written.names = old.names
      BY <2>1, WrittenIsSettled, Zenon
    <3> HIDE DEF written
    <3>3. \A f \in Fields : Refused(written, f) => Refused(row, f)
      BY <2>1, <3>2 DEF Refused
    <3>4. QED
      BY <3>1, <3>2, <3>3, RefreshedAgain
  <2>3. CASE ~Touched(old, file, deep)
    <3>1. ~Differs(old, file) /\ row = old
      BY <2>1, <2>3 DEF Scanned, Touched
    <3>2. Scanned(row, file, sidecar, artwork, mode, deep, provider) = row
      BY <2>3, <3>1 DEF Scanned
    <3>3. QED
      BY <3>2, Zenon
  <2>4. QED
    BY <2>2, <2>3
<1>3. QED
  BY <1>1, <1>2

\* Whatever a scan makes of an old row, it is settled.
LEMMA ScannedIsSettled ==
  ASSUME NEW old, RowOK(old), NEW mode, NEW deep
  PROVE  Settled(Scanned(old, file, sidecar, artwork, mode, deep, provider), file)
<1> DEFINE written == Written(old, file)
<1>1. RowOK(written) /\ Settled(written, file)
  BY WrittenIsSettled, Zenon
<1> HIDE DEF written
<1>2. Settled(Refreshed(written, sidecar, artwork, mode, provider), file)
  BY <1>1, RefreshedIsSettled
<1>3. Scanned(old, file, sidecar, artwork, mode, deep, provider)
        \in {written, Refreshed(written, sidecar, artwork, mode, provider)}
  BY DEF Scanned, Written, written
<1>4. QED
  BY <1>1, <1>2, <1>3

\* A rescan of an unchanged library changes no value, and what a scan has left is not
\* touched again but for a provider that failed or a series with a runtime of its own
\* (`_differs`, `merge`): for any sidecars, artwork, provider and modes.
THEOREM RescansChangeNothing == MetadataSpec => ARescanChangesNothing
<1> DEFINE Same(mode, deep) ==
      \A row \in item' :
         /\ row.resolved /\ ~row.pending /\ (medium = "film" \/ row.values["runtime"] = {})
              => ~Touched(row, file, FALSE)
         /\ (\A old \in item : (old.locked => row.locked) /\ old.names \subseteq row.names)
              => Scanned(row, file, sidecar, artwork, mode, deep, provider).values
                   = row.values
<1>1. ASSUME ItemInv, World, NEW mode, NEW deep, FirstScan(mode) \/ ScanAgain(mode, deep),
             NEW row \in item'
      PROVE  /\ row.resolved /\ ~row.pending
                  /\ (medium = "film" \/ row.values["runtime"] = {})
                  => ~Touched(row, file, FALSE)
             /\ (\A old \in item : (old.locked => row.locked) /\ old.names \subseteq row.names)
                  => Scanned(row, file, sidecar, artwork, mode, deep, provider).values
                       = row.values
  <2>1. \/ row = Refreshed(New(file), sidecar, artwork, mode, provider)
        \/ \E old \in item :
             RowOK(old) /\ row = Scanned(old, file, sidecar, artwork, mode, deep, provider)
    BY <1>1 DEF FirstScan, ScanAgain, ItemInv
  <2>2. Settled(row, file)
    <3>1. CASE row = Refreshed(New(file), sidecar, artwork, mode, provider)
      <4>1. RowOK(New(file)) /\ Settled(New(file), file)
        BY NewRowOK, NewIsSettled
      <4>2. QED
        BY <3>1, <4>1, RefreshedIsSettled
    <3>2. ASSUME NEW old \in item, RowOK(old),
                 row = Scanned(old, file, sidecar, artwork, mode, deep, provider)
          PROVE  Settled(row, file)
      BY <3>2, ScannedIsSettled
    <3>3. QED
      BY <2>1, <3>1, <3>2
  <2>3. row.resolved /\ ~row.pending /\ (medium = "film" \/ row.values["runtime"] = {})
          => ~Touched(row, file, FALSE)
    BY <1>1, <2>2 DEF World, Settled, Touched, Differs, ScannedRuntime
  <2>4. (\A old \in item : (old.locked => row.locked) /\ old.names \subseteq row.names)
          => Scanned(row, file, sidecar, artwork, mode, deep, provider).values = row.values
    BY <1>1, <2>1, ScannedRow
  <2>5. QED
    BY <2>3, <2>4
<1>2. ASSUME ItemInv, World, [MetadataNext]_metadataVars
      PROVE  [\A mode \in Modes, deep \in BOOLEAN :
                FirstScan(mode) \/ ScanAgain(mode, deep) => Same(mode, deep)]_metadataVars
  BY <1>1, <1>2, Zenon
<1>3. QED
  BY <1>2, ItemInvHolds, WorldHolds, PTL DEF MetadataSpec, ARescanChangesNothing

----------------------------------------------------------------------------
\* A row whose columns hold what they may.
Scalars == {"name", "overview", "runtime"}

TypedRow(row) ==
  /\ \A f \in Scalars : AtMostOne(row.values[f])
  /\ row.source \in DOMAIN Measured
  /\ row.locked \in BOOLEAN
  /\ row.names \subseteq Lockable
  /\ row.pending \in BOOLEAN /\ row.resolved \in BOOLEAN

LEMMA NewIsTyped ==
  ASSUME NEW version \in DOMAIN Measured
  PROVE  TypedRow(New(version))
<1>1. AtMostOne(PathName) /\ AtMostOne(ScannedRuntime(version)) /\ AtMostOne({})
  BY ValuesAssumption DEF ScannedRuntime, AtMostOne
<1>2. QED
  BY <1>1 DEF TypedRow, New, NoValues, Scalars, Fields, Lockable

LEMMA WrittenIsTyped ==
  ASSUME NEW row, RowOK(row), TypedRow(row), NEW version \in DOMAIN Measured
  PROVE  TypedRow(Written(row, version))
<1>1. CASE ~Differs(row, version)
  BY <1>1 DEF Written
<1>2. CASE Differs(row, version)
  <2> DEFINE new == Updated(row, version)
  <2>1. DOMAIN row = {"values", "source", "locked", "names", "pending", "resolved"}
        /\ DOMAIN row.values = Fields
    BY DEF RowOK
  <2>2. /\ new.resolved = row.resolved /\ new.locked = row.locked /\ new.names = row.names
        /\ new.pending = row.pending /\ new.source = version
        /\ new.values["name"] = IF row.resolved THEN row.values["name"] ELSE PathName
        /\ new.values["runtime"] =
             IF medium = "film" THEN Measured[version] ELSE row.values["runtime"]
        /\ new.values["overview"] = row.values["overview"]
    BY <2>1 DEF Updated, ScannedRuntime, Fields
  <2>3. Written(row, version) = new
    BY <1>2 DEF Written
  <2> HIDE DEF new
  <2>4. AtMostOne(PathName) /\ AtMostOne(Measured[version])
    BY ValuesAssumption
  <2>5. QED
    BY <2>2, <2>3, <2>4 DEF TypedRow, Scalars
<1>3. QED
  BY <1>1, <1>2

LEMMA RefreshedIsTyped ==
  ASSUME World, NEW row, RowOK(row), TypedRow(row), NEW mode
  PROVE  TypedRow(Refreshed(row, sidecar, artwork, mode, provider))
<1> DEFINE new == Refreshed(row, sidecar, artwork, mode, provider)
           local == Local(sidecar, artwork)
           heard == Hears(row, local, mode, provider)
           failed == Asks(row, local, mode) /\ provider = "down"
<1>1. new.values = Combined(row, local, heard, mode) /\ new.source = row.source
  BY RefreshedIs
<1>2. /\ sidecar.whole \in {"unsaid", "yes", "no"}
      /\ sidecar.names = {"unsaid"} \/ sidecar.names \subseteq Lockable
  BY SidecarsAssumption DEF World
<1>3. \/ new = row
      \/ \E values :
           new = [row EXCEPT
                    !.values = values,
                    !.locked = IF sidecar.whole = "unsaid" THEN @ ELSE sidecar.whole = "yes",
                    !.names = IF sidecar.names = {"unsaid"} THEN @ ELSE sidecar.names,
                    !.pending = failed, !.resolved = TRUE]
  BY Zenon DEF Refreshed
<1>4. /\ new.locked \in BOOLEAN /\ new.names \subseteq Lockable
      /\ new.pending \in BOOLEAN /\ new.resolved \in BOOLEAN
  <2>1. CASE new = row
    BY <2>1 DEF TypedRow
  <2>2. ASSUME NEW values,
               new = [row EXCEPT
                        !.values = values,
                        !.locked = IF sidecar.whole = "unsaid" THEN @
                                   ELSE sidecar.whole = "yes",
                        !.names = IF sidecar.names = {"unsaid"} THEN @ ELSE sidecar.names,
                        !.pending = failed, !.resolved = TRUE]
        PROVE  /\ new.locked \in BOOLEAN /\ new.names \subseteq Lockable
               /\ new.pending \in BOOLEAN /\ new.resolved \in BOOLEAN
    <3>1. DOMAIN row = {"values", "source", "locked", "names", "pending", "resolved"}
      BY DEF RowOK
    <3>2. new.locked = IF sidecar.whole = "unsaid" THEN row.locked ELSE sidecar.whole = "yes"
      BY <2>2, <3>1
    <3>3. new.names = IF sidecar.names = {"unsaid"} THEN row.names ELSE sidecar.names
      BY <2>2, <3>1
    <3>4. new.pending = failed /\ new.resolved = TRUE
      BY <2>2, <3>1
    <3> HIDE DEF new
    <3>5. failed \in BOOLEAN
      OBVIOUS
    <3> HIDE DEF failed
    <3>6. QED
      BY <1>2, <3>5, <3>2, <3>3, <3>4 DEF TypedRow
  <2> HIDE DEF new
  <2>3. QED
    BY <1>3, <2>1, <2>2, Zenon
<1>5. \A f \in Scalars : AtMostOne(local[f]) /\ AtMostOne(Remote[f])
  <2>1. \A f \in Scalars : local[f] = sidecar.values[f]
    BY SidecarsAssumption DEF World, Local, Fields, Scalars
  <2>2. QED
    BY <2>1, ValuesAssumption DEF World, Scalars
<1> HIDE DEF new, local, heard
<1>6. ASSUME NEW f \in Scalars
      PROVE  AtMostOne(new.values[f])
  <2>1. f \in Fields /\ f \notin {"images", "tags", "people", "ids"}
    BY DEF Scalars, Fields
  <2>2. AtMostOne(row.values[f]) /\ AtMostOne(Held(row, f))
    BY DEF TypedRow, Held, AtMostOne
  <2>3. AtMostOne(Offered(local, heard, f))
    BY <1>5 DEF Offered, AtMostOne
  <2>4. new.values[f] \in {row.values[f], Held(row, f), Offered(local, heard, f)}
    BY <1>1, <2>1 DEF Combined, Applied
  <2>5. QED
    BY <2>2, <2>3, <2>4
<1>7. new.source \in DOMAIN Measured
  BY <1>1 DEF TypedRow
<1>8. TypedRow(new)
  BY <1>4, <1>6, <1>7 DEF TypedRow
<1>9. QED
  BY <1>8 DEF new

Typed == \A row \in item : TypedRow(row)

LEMMA TypedHolds == MetadataSpec => []Typed
<1>1. MetadataInit => Typed
  BY DEF MetadataInit, Typed
<1>2. ASSUME ItemInv, World, Typed, [MetadataNext]_metadataVars
      PROVE  Typed'
  <2>1. CASE UNCHANGED item
    BY <1>2, <2>1 DEF Typed, TypedRow
  <2>2. ASSUME NEW mode, FirstScan(mode)
        PROVE  Typed'
    <3>1. TypedRow(Refreshed(New(file), sidecar, artwork, mode, provider))
      BY <1>2, NewRowOK, NewIsTyped, RefreshedIsTyped DEF World
    <3>2. QED
      BY <2>2, <3>1 DEF FirstScan, Typed, TypedRow
  <2>3. ASSUME NEW mode, NEW deep, ScanAgain(mode, deep)
        PROVE  Typed'
    <3>1. ASSUME NEW old \in item
          PROVE  TypedRow(Scanned(old, file, sidecar, artwork, mode, deep, provider))
      <4> DEFINE written == Written(old, file)
      <4>1. RowOK(old) /\ TypedRow(old)
        BY <1>2 DEF ItemInv, Typed
      <4>2. RowOK(written)
        BY <4>1, WrittenIsSettled, Zenon
      <4>3. TypedRow(written)
        BY <1>2, <4>1, WrittenIsTyped DEF World
      <4> HIDE DEF written
      <4>4. TypedRow(Refreshed(written, sidecar, artwork, mode, provider))
        BY <1>2, <4>2, <4>3, RefreshedIsTyped
      <4>5. Scanned(old, file, sidecar, artwork, mode, deep, provider)
              \in {written, Refreshed(written, sidecar, artwork, mode, provider)}
        BY DEF Scanned, Written, written
      <4>6. QED
        BY <4>3, <4>4, <4>5
    <3>2. QED
      BY <2>3, <3>1 DEF ScanAgain, Typed, TypedRow
  <2>4. QED
    BY <1>2, <2>1, <2>2, <2>3 DEF MetadataNext, WorldChanges, metadataVars
<1>3. QED
  BY <1>1, <1>2, ItemInvHolds, WorldHolds, PTL DEF MetadataSpec

\* Every column of the item holds what it may, a scalar one value at most.
THEOREM MetadataTypesHold == MetadataSpec => []MetadataTypeOK
<1>1. ASSUME NEW value, AtMostOne(value)
      PROVE  Cardinality(value) <= 1
  <2>1. CASE value = {}
    BY <2>1, FS_EmptySet
  <2>2. CASE value # {}
    <3>1. PICK x : value = {x}
      BY <1>1, <2>2 DEF AtMostOne
    <3>2. Cardinality({x}) = 1
      BY FS_Singleton
    <3>3. QED
      BY <3>1, <3>2
  <2>3. QED
    BY <2>1, <2>2
<1>2. ASSUME ItemInv, World, Typed
      PROVE  MetadataTypeOK
  <2>1. Cardinality(item) <= 1
    <3>1. AtMostOne(item)
      BY <1>2 DEF ItemInv, AtMostOne
    <3>2. QED
      BY <1>1, <3>1
  <2>2. ASSUME NEW row \in item
        PROVE  /\ DOMAIN row.values = Fields
               /\ \A f \in {"name", "overview", "runtime"} : Cardinality(row.values[f]) <= 1
               /\ row.source \in DOMAIN Measured
               /\ row.locked \in BOOLEAN
               /\ row.names \subseteq Lockable
               /\ row.pending \in BOOLEAN /\ row.resolved \in BOOLEAN
    <3>1. RowOK(row) /\ TypedRow(row)
      BY <1>2 DEF ItemInv, Typed
    <3>2. \A f \in {"name", "overview", "runtime"} : Cardinality(row.values[f]) <= 1
      BY <1>1, <3>1 DEF TypedRow, Scalars
    <3>3. QED
      BY <3>1, <3>2 DEF RowOK, TypedRow
  <2>3. QED
    BY <1>2, <2>1, <2>2 DEF MetadataTypeOK, World
<1>3. QED
  BY <1>2, ItemInvHolds, WorldHolds, TypedHolds, PTL
=============================================================================
