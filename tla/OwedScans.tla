------------------------------ MODULE OwedScans ------------------------------
(***************************************************************************)
(* What the scanner promises (the contract of `Scanner.request` in         *)
(* src/atrium/library/scanner.py): a library asked for is scanned later,   *)
(* for a reason at least as strong as the one it was asked for, one        *)
(* library at a time.  A request is given up only with the server, or when *)
(* the database cannot say which libraries there are.                      *)
(***************************************************************************)
EXTENDS Naturals, FiniteSets

CONSTANTS Libraries, None

VARIABLES
  owed, \* the strongest unanswered request for each library
  now,  \* the library being scanned and for what
  lost, \* how often the libraries could not be listed
  open, \* whether requests are taken
  starts \* how often the server has been started again

vars == <<owed, now, lost, open, starts>>

Triggers == {"added", "refresh"}

\* `_stronger`
Stronger(held, asked) == IF "added" \in {held, asked} THEN "added" ELSE "refresh"

Satisfies(trigger, request) == Stronger(trigger, request) = trigger

Init ==
  /\ owed = [l \in Libraries |-> None]
  /\ now = None
  /\ lost = 0
  /\ open = TRUE
  /\ starts = 0

Ask(ls, trigger) ==
  /\ open
  /\ owed' = [l \in Libraries |-> IF l \in ls THEN Stronger(owed[l], trigger)
                                  ELSE owed[l]]
  /\ UNCHANGED <<now, lost, open, starts>>

\* A scan answers what was owed when it was decided on.  What has been asked since is
\* left, and it is no more than what was owed.
Begin(l, trigger, left) ==
  /\ now = None /\ owed[l] # None
  /\ left # owed[l] => Satisfies(trigger, owed[l])
  /\ left # None => Satisfies(owed[l], left)
  /\ now' = [library |-> l, trigger |-> trigger]
  /\ owed' = [owed EXCEPT ![l] = left]
  /\ UNCHANGED <<lost, open, starts>>

End ==
  /\ now # None
  /\ now' = None
  /\ UNCHANGED <<owed, lost, open, starts>>

Forgets ==
  /\ owed' \in [Libraries -> Triggers \union {None}]
  /\ \A l \in Libraries : owed'[l] # None => owed[l] # None
                                             /\ Satisfies(owed[l], owed'[l])

\* What was asked of every library is forgotten, or some of its strength is.
Lose ==
  /\ lost' = lost + 1
  /\ Forgets
  /\ UNCHANGED <<now, open, starts>>

\* A server that stops may give up what it owes.
GiveUp ==
  /\ ~open
  /\ Forgets
  /\ UNCHANGED <<now, lost, open, starts>>

Close ==
  /\ open' = FALSE
  /\ UNCHANGED <<owed, now, lost, starts>>

\* The process ends, with whatever it was doing, and is started again.
Quit ==
  /\ owed' = [l \in Libraries |-> None]
  /\ now' = None
  /\ open' = TRUE
  /\ starts' = starts + 1
  /\ UNCHANGED lost

Answer(l) == \E trigger \in Triggers : Begin(l, trigger, None)

Next ==
  \/ \E ls \in SUBSET Libraries, trigger \in Triggers : Ask(ls, trigger)
  \/ \E l \in Libraries, trigger \in Triggers, left \in Triggers \union {None} :
       Begin(l, trigger, left)
  \/ End \/ Lose \/ GiveUp \/ Close \/ Quit

\* A scan ends, and while the server is up a library that is owed one again and again
\* is at last left with nothing owed (requests are finitely many).
Spec ==
  /\ Init /\ [][Next]_vars
  /\ WF_vars(End)
  /\ \A l \in Libraries : SF_vars(open /\ Answer(l))
=============================================================================
