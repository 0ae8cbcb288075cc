------------------------------ MODULE MCEntryDay ------------------------------
(* EntryDay with signals on both sides of every threshold and markets that *)
(* confirm, oppose, widen or interrupt.                                    *)
EXTENDS EntryDay, TLC

Plain ==
    [ action |-> "BUY", confidence |-> 66, consensus |-> "aligned",
      validator |-> "reviewed", summary |-> "none", mentions |-> FALSE,
      vetoed |-> FALSE, hard |-> FALSE, gaps |-> FALSE, snapshot |-> "fresh",
      locked |-> TRUE, warnings |-> {}, lower |-> FALSE, stop |-> 1200,
      deferred |-> FALSE, counter |-> FALSE, confirm |-> "PENDING" ]

MCSignals ==
    { [Plain EXCEPT !.confidence = c, !.gaps = g] :
        c \in {54, 58, 66, 72}, g \in BOOLEAN }
    \cup { [Plain EXCEPT !.action = "SELL", !.confidence = c, !.lower = TRUE,
                         !.confirm = "CONFIRMED"] : c \in {57, 66} }
    \cup { [Plain EXCEPT !.confidence = c, !.consensus = "unreviewed",
                         !.validator = "unavailable", !.gaps = g,
                         !.locked = FALSE] : c \in {58, 64, 65}, g \in BOOLEAN }
    \cup { [Plain EXCEPT !.action = "SELL", !.confidence = 50,
                         !.consensus = "disagreed", !.summary = "contradicts"],
           [Plain EXCEPT !.confidence = 50, !.snapshot = "none",
                         !.mentions = TRUE, !.warnings = {"PRICE_CONFLICT"}],
           [Plain EXCEPT !.vetoed = TRUE] }

Calm ==
    [ spread |-> 40, clear |-> TRUE, opposed |-> {},
      pattern |-> "PATTERN_MATCH", reach |-> 1500, gate |-> TRUE ]

MCMarkets ==
    { Calm,
      [Calm EXCEPT !.opposed = {"BUY"}],
      [Calm EXCEPT !.spread = 90, !.pattern = "PATTERN_MISSING"],
      [Calm EXCEPT !.spread = 600],
      [Calm EXCEPT !.reach = 2400, !.pattern = "PATTERN_DATA_UNAVAILABLE"],
      [Calm EXCEPT !.clear = FALSE],
      [Calm EXCEPT !.gate = FALSE] }
=============================================================================
