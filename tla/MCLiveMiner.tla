---------------------------- MODULE MCLiveMiner ----------------------------
(* Small instances of LiveMiner for TLC. *)
EXTENDS LiveMiner

CONSTANTS j1, j2, e1, e2

NoJobs == {}
OneJob == {j1}
TwoJobs == {j1, j2}
SecondJob == {j2}
OneEx1 == {e1}
TwoEx1 == {e1, e2}
Never == {FALSE}
Either == {TRUE, FALSE}

(* e1 announces a size with three extranonce2 values, e2 announces size 0. *)
Sizes == [e \in {e1, e2} |-> IF e = e1 THEN 3 ELSE 0]
Two == [e \in {e1} |-> 2]
Three == [e \in {e1} |-> 3]
=============================================================================
