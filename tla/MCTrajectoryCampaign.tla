------------------------ MODULE MCTrajectoryCampaign ------------------------
(* A small instance of TrajectoryCampaign for TLC. *)
EXTENDS TrajectoryCampaign

FirstTwo == {1, 2}
=============================================================================
