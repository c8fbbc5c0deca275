---------------------------- MODULE MCStateStore ----------------------------
(* Small instances of StateStore for TLC. *)
EXTENDS StateStore

CONSTANTS s1, s2

TwoStates == {s1, s2}
=============================================================================
