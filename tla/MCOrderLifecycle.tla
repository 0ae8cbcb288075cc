------------------------- MODULE MCOrderLifecycle -------------------------
(* OrderLifecycle with an order of the signal poller and a manual one.     *)
EXTENDS OrderLifecycle

CONSTANTS x, m

MCOrders == {x, m}
MCOwnerOf == [o \in MCOrders |-> IF o = m THEN "manual" ELSE "xauex"]
MCShapeOf == [o \in MCOrders |-> IF o = m THEN "short" ELSE "long"]
=============================================================================
