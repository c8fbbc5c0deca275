--------------------------- MODULE MCDiscoveryStudy ---------------------------
(* A small instance of DiscoveryStudy for TLC: nine rows in five contexts of   *)
(* four prevhashes, four features, the last one a sanity baseline.             *)
EXTENDS DiscoveryStudy

NineRows == [r \in 1..9 |-> <<1, 1, 2, 2, 3, 3, 4, 4, 5>>[r]]
FivePrevhashes == <<1, 2, 3, 4, 1>>
FourFeatures ==
  << <<0, 1, 0, 1, 1, 0, 2, 1, 0>>, <<1, 0, 0, 1, 0, 1, 0, 0, 2>>,
     <<2, 1, 1, 0, 0, 1, 0, 2, 1>>, <<0, 2, 1, 1, 2, 0, 1, 0, 1>> >>
LastFeature == {4}

\* In every two-row context the first row is better, worse or as good; T30 counts
\* follow the quality, but in the second context.
Table(d) ==
  LET quality == [r \in Rows |-> IF r \in {1, 3, 5, 7} THEN 1 + d[ContextOf[r]] ELSE 1]
  IN  [quality |-> quality,
       t30 |-> [r \in Rows |-> IF ContextOf[r] = 2 THEN 2 - quality[r] ELSE quality[r]]]
AllTables == {Table(d) : d \in {e \in [1..4 -> {-1, 0, 1}] : e[3] # 0}}

OneScore == {[r \in 1..9 |-> <<0, 1, 1, 0, 1, 1, 0, 1, 0>>[r]]}
Orders == {[k \in 0..3 |-> << <<1, 2, 3, 4>>, <<2, 4, 1, 3>>, <<4, 3, 2, 1>>, <<3, 1, 4, 2>> >>[k + 1]]}
TenthAndQuarter == {<<1, 10>>, <<1, 4>>}
=============================================================================
