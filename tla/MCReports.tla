----------------------------- MODULE MCReports -----------------------------
EXTENDS Reports

MCOwnersOf == <<{"xauex"}, {"xauex", "manual"}>>

Kind(hold, blocker, warned, named) ==
    [hold |-> hold, blocker |-> blocker, warned |-> warned, named |-> named]

(* A clean direction, a direction on warned inputs, a HOLD that names a    *)
(* degraded source, one that does not, and a blocked one.                  *)
MCRunKinds ==
    { Kind(FALSE, FALSE, FALSE, FALSE), Kind(FALSE, FALSE, TRUE, TRUE),
      Kind(TRUE, FALSE, TRUE, TRUE), Kind(TRUE, FALSE, TRUE, FALSE),
      Kind(TRUE, TRUE, TRUE, FALSE) }

(* Two trades of one day, one over two days; runs around a trade, and runs *)
(* and decisions over a weekend.                                           *)
Scope(first, last, trades, ran, decided) ==
    [first |-> first, last |-> last, trades |-> trades, runs |-> ran,
     decisions |-> decided]

MCScopes ==
    { Scope(4, 4, 2, 0, 0), Scope(3, 4, 1, 0, 0),
      Scope(4, 7, 0, 3, 0), Scope(3, 4, 1, 2, 0), Scope(4, 7, 0, 0, 4) }
=============================================================================
