----------------------------- MODULE MCWhiteBox -----------------------------
(***************************************************************************)
(* Genesis with each of its 32 flips and its successor, and three flips in *)
(* a discovery and in a holdout context of the transfer campaign.          *)
(***************************************************************************)
EXTENDS WhiteBox

MCSpecimens == ({"genesis"} \X (0 .. 32)) \cup ({"0", "32"} \X {0, 13, 31})
=============================================================================
