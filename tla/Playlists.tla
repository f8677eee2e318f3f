----------------------------- MODULE Playlists ------------------------------
(***************************************************************************)
(* A playlist: its entries in the order its owner gave them, changed by    *)
(* callers who may not see them all (src/atrium/api/playlists.py,          *)
(* PlaylistRepository in src/atrium/db/repositories.py,                    *)
(* src/atrium/domain/playlists.py).                                        *)
(*                                                                         *)
(* Each request is one transaction on the event loop without an await, so  *)
(* it is one action; one that is refused changes nothing.  The order is    *)
(* kept in a column of ordinals that nothing in the schema makes unique.   *)
(***************************************************************************)
EXTENDS Naturals, FiniteSets, SequencesExt

CONSTANTS
  Users,
  Administrators,
  Keys,      \* the playable items, in the order of their identifiers
  Closed,    \* the items in libraries a user may not open
  Batches,   \* what a request to create or to add names, containers expanded
  Grants     \* what a request to create may share

ASSUME UsersAssumption ==
  /\ Administrators \subseteq Users
  /\ Closed \in [Users -> SUBSET Keys]

ASSUME GrantsAssumption == Grants \subseteq [Users -> {"none", "read", "edit"}]

ASSUME KeysAssumption == Keys \subseteq Nat /\ IsFiniteSet(Keys) /\ Batches \subseteq Seq(Keys)

VARIABLES
  owner,     \* the owner of the playlist while there is one
  public,
  share,     \* what the playlist grants to each other user
  ordinal,   \* the rows of playlist_entries, by item
  gone       \* items the scanner has removed softly

playlistVars == <<owner, public, share, ordinal, gone>>

----------------------------------------------------------------------------
PlaylistTypeOK ==
  /\ owner \subseteq Users /\ Cardinality(owner) <= 1
  /\ public \in BOOLEAN
  /\ share \in [Users -> {"none", "read", "edit"}]
  /\ DOMAIN ordinal \subseteq Keys
  /\ \A k \in DOMAIN ordinal : ordinal[k] \in Nat
  /\ gone \subseteq Keys
  /\ owner = {} => DOMAIN ordinal = {}

PlaylistInit ==
  /\ owner = {}
  /\ public = FALSE
  /\ share = [u \in Users |-> "none"]
  /\ ordinal = <<>>
  /\ gone = {}

----------------------------------------------------------------------------
(* Who may do what.                                                        *)

MayRead(u) == owner # {} /\ (public \/ u \in owner \/ share[u] # "none")

MayEdit(u) == u \in owner \/ share[u] = "edit"

MayDelete(u) == owner # {} /\ (u \in owner \/ u \in Administrators)

\* 404 to who may not see it, before the 403 to who may not change it.
Editable(u) == MayRead(u) /\ MayEdit(u)

CanSee(u, k) == k \notin gone /\ k \notin Closed[u]

----------------------------------------------------------------------------
(* The stored order, and what can be done to it.                           *)

\* `_order`: by the ordinals, and by the identifier where two are equal.
Precedes(rows, a, k) == rows[a] < rows[k] \/ (rows[a] = rows[k] /\ a < k)

\* The place of an entry among some entries, from zero as in the code.
Place(rows, keys, k) == Cardinality({a \in keys : Precedes(rows, a, k)})

\* `_renumber`
Renumbered(rows, keys) == [k \in keys |-> Place(rows, keys, k)]

\* `entries`
Seen(u) == {k \in DOMAIN ordinal : CanSee(u, k)}

\* Where a batch names an item first.
Named(batch, k) == Min({i \in DOMAIN batch : batch[i] = k})

\* Mistake: the key alone keeps duplicates out, and each leaves a hole.
AppendedLeavingHoles(rows, batch, resolved) ==
  [k \in DOMAIN rows \union resolved |->
     IF k \in DOMAIN rows THEN rows[k] ELSE Cardinality(DOMAIN rows) + Named(batch, k) - 1]

\* `append`: what is there already goes before the ordinals are handed out, in the order
\* in which the batch names the others first.
Appended(rows, batch, resolved) ==
  LET wanted == resolved \ DOMAIN rows
      named == [k \in wanted |-> Named(batch, k)]
  IN [k \in DOMAIN rows \union wanted |->
        IF k \in DOMAIN rows THEN rows[k]
        ELSE Cardinality(DOMAIN rows) + Place(named, wanted, k)]

\* The place among the others of the one that is the i-th of some, or behind them all.
Target(rows, others, some, i) ==
  LET there == {a \in some : Place(rows, some, a) = i}
  IN IF there = {} THEN Cardinality(others)
     ELSE Place(rows, others, CHOOSE a \in there : TRUE)

\* An entry taken out and put in at a place among the others.
Inserted(rows, k, place) ==
  LET others == DOMAIN rows \ {k}
  IN [a \in DOMAIN rows |->
        IF a = k THEN place
        ELSE IF Place(rows, others, a) < place THEN Place(rows, others, a)
        ELSE Place(rows, others, a) + 1]

\* Mistake: the neighbour is looked up before the entry is taken out.
MovedBehindTheNeighbour(rows, k, i, seen) ==
  IF k \notin seen \/ Place(rows, seen, k) = i THEN Renumbered(rows, DOMAIN rows)
  ELSE Inserted(rows, k, Target(rows, DOMAIN rows \ {k}, seen, i))

\* `moved`: before the one that the caller will see after it, or behind everything.
Moved(rows, k, i, seen) ==
  IF k \notin seen \/ Place(rows, seen, k) = i THEN Renumbered(rows, DOMAIN rows)
  ELSE Inserted(rows, k, Target(rows, DOMAIN rows \ {k}, seen \ {k}, i))

----------------------------------------------------------------------------
(* The requests.  Any of them may name a user's own or nobody's items.     *)

\* What the batch names and the caller cannot see is skipped.
Resolved(u, batch) == {k \in ToSet(batch) : CanSee(u, k)}

\* `create_playlist`, which alone sets the shares.
Create(u, batch, p, s) ==
  /\ owner = {}
  /\ owner' = {u}
  /\ public' = p
  /\ share' = s
  /\ ordinal' = Appended(<<>>, batch, Resolved(u, batch))
  /\ UNCHANGED gone

\* `add_to_playlist`
Add(u, batch) ==
  /\ Editable(u)
  /\ ordinal' = Appended(ordinal, batch, Resolved(u, batch))
  /\ UNCHANGED <<owner, public, share, gone>>

\* `remove_from_playlist`: by identifier, whether the caller sees the item or not.
RemoveEntries(u, ks) ==
  /\ Editable(u)
  /\ ordinal' = Renumbered(ordinal, DOMAIN ordinal \ ks)
  /\ UNCHANGED <<owner, public, share, gone>>

\* `move_playlist_item`: the index is judged by what the caller sees.
Move(u, k, i) ==
  /\ Editable(u)
  /\ i <= Cardinality(Seen(u))
  /\ ordinal' = Moved(ordinal, k, i, Seen(u))
  /\ UNCHANGED <<owner, public, share, gone>>

\* `delete_item`, which asks nothing about seeing; the rows follow by the cascade.
Delete(u) ==
  /\ MayDelete(u)
  /\ owner' = {} /\ ordinal' = <<>>
  /\ public' = FALSE /\ share' = [v \in Users |-> "none"]
  /\ UNCHANGED gone

\* A scan removes an item softly, and one that is back is itself again; no entry goes.
ItemGoes(k) ==
  /\ k \notin gone /\ gone' = gone \union {k}
  /\ UNCHANGED <<owner, public, share, ordinal>>

ItemReturns(k) ==
  /\ k \in gone /\ gone' = gone \ {k}
  /\ UNCHANGED <<owner, public, share, ordinal>>

PlaylistNext ==
  \/ \E u \in Users :
       \/ \E batch \in Batches :
            \/ Add(u, batch)
            \/ \E p \in BOOLEAN, s \in Grants : Create(u, batch, p, s)
       \/ \E ks \in SUBSET Keys : RemoveEntries(u, ks)
       \/ \E k \in Keys, i \in 0..Cardinality(Keys) : Move(u, k, i)
       \/ Delete(u)
  \/ \E k \in Keys : ItemGoes(k) \/ ItemReturns(k)

----------------------------------------------------------------------------
(* What has to hold.                                                       *)

\* The ordinals are 0, 1, ... without a gap and none twice, whatever was added twice,
\* removed, moved or hidden before: three operations count on it.
OrdinalsAreContiguous ==
  {ordinal[k] : k \in DOMAIN ordinal} = 0..(Cardinality(DOMAIN ordinal) - 1)

\* A moved entry is then where its caller asked for it, in the list that caller is
\* given, or last of it, though entries that the caller cannot see lie in between.
MoveLandsWhereAsked ==
  [][\A u \in Users : \A k \in Seen(u), i \in 0..Cardinality(Seen(u)) :
       Move(u, k, i) =>
         Place(ordinal', Seen(u)', k)
           = IF i < Cardinality(Seen(u)) THEN i ELSE Cardinality(Seen(u)) - 1]_playlistVars

\* No request turns the order of two entries round, but by moving one of them: an item
\* that was hidden or gone is back between the neighbours it had.
NeighboursStayInOrder ==
  [][LET there == DOMAIN ordinal \intersect DOMAIN ordinal'
         Kept(keys) == \A a, b \in keys : Precedes(ordinal, a, b) <=> Precedes(ordinal', a, b)
     IN \/ Kept(there)
        \/ \E u \in Users, k \in Keys, i \in 0..Cardinality(Keys) :
             Move(u, k, i) /\ Kept(there \ {k})]_playlistVars

\* Entries a caller cannot see are in nobody's way and are not carried along
\* (`domain.playlists.moved`).
EntriesKeepTheirPlace == MoveLandsWhereAsked /\ NeighboursStayInOrder
=============================================================================
