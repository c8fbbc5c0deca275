-------------------------- MODULE MCHistoricalScan --------------------------
(* Small instances of HistoricalScan for TLC. *)
EXTENDS HistoricalScan

CONSTANTS h1, h2

TwoHeaders == {h1, h2}
OneRange == {<<1, 4>>}
TwoHits == [h \in Headers |-> IF h = h1 THEN {1, 3} ELSE {}]
=============================================================================
