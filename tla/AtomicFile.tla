------------------------------ MODULE AtomicFile ------------------------------
(***************************************************************************)
(* What the users of StateStore rely on (README: "un remplacement           *)
(* atomique"): a file that holds one of the states given to save, which a   *)
(* save replaces in one step or leaves as it was.  A crash ends the save    *)
(* and changes nothing.                                                    *)
(***************************************************************************)
CONSTANTS States, NoState

VARIABLES value, request

vars == <<value, request>>

Init == value = NoState /\ request = NoState

Begin(s) == request = NoState /\ request' = s /\ UNCHANGED value

Commit == request # NoState /\ value' = request /\ request' = NoState

GiveUp == request # NoState /\ request' = NoState /\ UNCHANGED value

Next == (\E s \in States : Begin(s)) \/ Commit \/ GiveUp

Spec == Init /\ [][Next]_vars
=============================================================================
