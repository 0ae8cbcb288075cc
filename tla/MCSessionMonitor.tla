-------------------------- MODULE MCSessionMonitor --------------------------
(* SessionMonitor with a position and its add-on.  The price 2 reaches     *)
(* PROTECT, 3 reaches TRAIL, and -1 takes it all back.  The stop of an     *)
(* order and the one the broker counts from the fill agree or are a level  *)
(* apart, in either direction.  The lock level is that of a tracker whose  *)
(* entry is the price of the order and not of the fill; above the fill it  *)
(* would be a third stop, and the run too long.                            *)
EXTENDS SessionMonitor

CONSTANTS a, b

MCPositions == {a, b}
MCAddons == {b}
MCPrices == {-1, 2, 3}
MCStops == {-2, -1}
MCLockStops == {-1}
=============================================================================
