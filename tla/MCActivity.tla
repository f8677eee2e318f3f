----------------------------- MODULE MCActivity -----------------------------
(* A small instance of SessionActivity for TLC.                            *)
EXTENDS SessionActivity

CONSTANTS phone, television

Two == {phone, television}
=============================================================================
