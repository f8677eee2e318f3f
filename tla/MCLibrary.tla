------------------------------ MODULE MCLibrary ------------------------------
(* A small instance of LibraryScan for TLC.                                *)
EXTENDS LibraryScan

CONSTANTS films, heat, ran

TwoFilms == {heat, ran}
InFilms == [f \in Files |-> films]
Half == <<1, 2>>
=============================================================================
