---------------------------- MODULE MCTranscode ----------------------------
(* Small instances of TranscodeSessions for TLC. *)
EXTENDS TranscodeSessions, TLC

CONSTANTS k1, k2, p1

\* One play session, whatever it is playing.
OnePlay == [k \in Keys |-> p1]

\* Requests differ only in their names.
Alike == Permutations(Requests)
============================================================================
