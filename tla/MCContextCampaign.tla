-------------------------- MODULE MCContextCampaign --------------------------
(* Small instances of ContextCampaign for TLC. *)
EXTENDS ContextCampaign

\* One block to learn from and one to keep for the end.
Halves == <<"discovery", "holdout">>

\* Two commands for the scan, three for the two studying consoles.
Commands == [c \in Consoles |-> CASE c = "scan" -> 2 [] c = "study1" -> 2 [] OTHER -> 1]
=============================================================================
