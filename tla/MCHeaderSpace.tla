--------------------------- MODULE MCHeaderSpace ---------------------------
(***************************************************************************)
(* Eight nonces and groups of four work-items.  Ranges that start and end  *)
(* inside a zone, at the last nonce, beyond it; batches that do not divide *)
(* the zones; headers with ties, without a hit, with a hit at every nonce  *)
(* but one.                                                                *)
(***************************************************************************)
EXTENDS HeaderSpace

Header(a, b, c, d, e, f, g, h) ==
    [n \in 0 .. 7 |-> << a, b, c, d, e, f, g, h >>[n + 1]]

MCWorlds == { Header(3, 3, 3, 3, 3, 3, 3, 3),
              Header(0, 2, 1, 3, 0, 3, 1, 2),
              Header(0, 0, 0, 0, 0, 0, 0, 3),
              Header(3, 2, 3, 1, 2, 1, 3, 0),
              Header(2, 1, 3, 0, 1, 3, 3, 2) }

MCBounds == << 3, 2, 1 >>

Map(start, count, zone, batch, verify) ==
    [kind |-> "map", start |-> start, count |-> count, zone |-> zone, batch |-> batch, verify |-> verify]

Capture(start, count, capacity) ==
    [kind |-> "sparse", start |-> start, count |-> count, capacity |-> capacity]

MCRequests ==
    { Map(0, 8, 4, 2, 0), Map(1, 6, 3, 2, 4), Map(3, 5, 2, 2, 5), Map(7, 1, 8, 1, 1),
      Map(0, 8, 5, 1, 3), Map(2, 4, 4, 3, 0), Map(4, 5, 2, 1, 0), Map(0, 4, 0, 1, 0), Map(0, 4, 2, 0, 0),
      Capture(0, 8, 1), Capture(4, 4, 3), Capture(6, 3, 2), Capture(0, 8, 0),
      Capture(2, 2, 1), Capture(0, 8, 8) }
=============================================================================
