------------------------------ MODULE EntryDay ------------------------------
(***************************************************************************)
(* The entries of one London day, decided by the rules of EntryRules: the  *)
(* signal of each slot is confirmed, deferred, vetoed or turned around,    *)
(* weighed against what the day has lost and holds open, sized and sent.   *)
(*                                                                         *)
(* SignalPoller has the interleaving of a pass with the other tasks and    *)
(* takes its decisions as free; here a pass is one step and its decisions  *)
(* are the code's.  A slot ends with its first terminal outcome.           *)
(*                                                                         *)
(* A position closes at its stop, at break-even or with a gain, and a      *)
(* protected one not below break-even: slippage through a stop is not      *)
(* modelled.  Positions of other owners reserve nothing in the code and    *)
(* are left out.                                                           *)
(***************************************************************************)
EXTENDS EntryRules, Sequences

CONSTANTS
    Signals,        \* the signals the job may write for a slot
    Markets         \* what a pass may see

Signal ==
    [ action : Actions \cup {"HOLD"}, confidence : 0..100,
      consensus : {"aligned", "disagreed", "blocked", "unreviewed"},
      validator : {"reviewed", "rejected", "unavailable"},
      summary : {"supported", "weak", "contradicts", "none"},
      mentions : BOOLEAN, vetoed : BOOLEAN, hard : BOOLEAN, gaps : BOOLEAN,
      snapshot : {"fresh", "warning", "stale", "blocked", "none"},
      locked : BOOLEAN, warnings : SUBSET Warnings, lower : BOOLEAN,
      stop : Nat, deferred : BOOLEAN, counter : BOOLEAN,
      confirm : {"PENDING", "CONFIRMED", "SOFT", "CONFLICT", "SKIP"} ]

Market ==
    [ spread : Int, clear : BOOLEAN, opposed : SUBSET Actions,
      pattern : {"PATTERN_MATCH", "PATTERN_MISSING",
                 "PATTERN_DIRECTION_MISMATCH", "PATTERN_DATA_UNAVAILABLE"},
      reach : Nat, gate : BOOLEAN ]

ASSUME DayConstants ==
    /\ Signals \subseteq Signal
    /\ Markets \subseteq Market

NoSignal == [signal |-> "none"]
NoPosition == [position |-> "none"]
Places == {"main", "addon"}

Slots == DOMAIN SlotNames

(* An XAUEX position: risk is actual_cash_risk of its session.             *)
Position ==
    [ action : Actions, risk : Nat, addon : BOOLEAN, counter : BOOLEAN,
      phase : {"OBSERVE", "PROTECT", "TRAIL"} ]

(* A run marked ORDER_PLACED.  canary: minimum_lot_canary; lifted: a       *)
(* reduced risk was raised to the minimum lot.                             *)
Order ==
    [ slot : Slots, action : Actions, counter : BOOLEAN, canary : BOOLEAN,
      lifted : BOOLEAN ]

VARIABLES
    slot,       \* the slot of the clock
    used,       \* it has a terminal run
    signal,     \* xauex_signal of cmd.json
    open,       \* the open XAUEX position and its add-on
    orders,     \* runs marked ORDER_PLACED today
    lost,       \* actions of today's closed trades with a loss
    streak,     \* consecutive_losses_today
    pnl         \* daily_pnl

vars == << slot, used, signal, open, orders, lost, streak, pnl >>

Held == { open[k] : k \in Places } \ {NoPosition}

RiskOf(p) == IF p = NoPosition THEN 0 ELSE p.risk

(* _xauex_open_reserved_risk.                                              *)
Reserved == RiskOf(open["main"]) + RiskOf(open["addon"])

CanariesUsed == Cardinality({o \in orders : o.canary})

Init ==
    /\ slot = 1 /\ used = FALSE
    /\ signal = NoSignal
    /\ open = [k \in Places |-> NoPosition]
    /\ orders = {}
    /\ lost = {} /\ streak = 0 /\ pnl = 0

-----------------------------------------------------------------------------
(* the decision of a pass *)

(* What goes on past the confirmation: the signal with its confirmation,   *)
(* or its inverse.                                                         *)
Candidate(s, m) ==
    LET confirm == Confirmed(s, m)
    IN  IF CounterAllowed(s, m, confirm) THEN CounterOf(s)
        ELSE [s EXCEPT !.confirm = confirm]

(* Assurance, entry quality and the add-on decision let it pass.           *)
Admitted(c, m, losers) ==
    /\ Bucket(c) # "blocked"
    /\ QualityScore(c, m, losers, orders) < HardBlockScore
    /\ Held # {} => AddonAllowed(c, slot, Held)

(* The environment gate, the quote, three times the spread and the budget  *)
(* let it pass.                                                            *)
Executable(c, m) ==
    /\ m.gate
    /\ m.spread > 0
    /\ StopDistance(c, m) >= 3 * m.spread
    /\ CashRiskBudget(pnl) > 0

(* The sizes of an order: what the multipliers leave (requested), what is  *)
(* granted (cash) and what the lot risks.                                  *)
Granted(c, bucket, distance, requested, canary, cash) ==
    [ risk |-> LotSteps(cash, distance) * StepOunces * distance,
      canary |-> /\ canary \/ (c.counter /\ CounterOnly)
                 /\ MinimumRisk(distance) > 0
                 /\ cash = MinimumRisk(distance),
      lifted |-> cash > requested /\ AssuranceRisk(bucket, c) < 100 ]

(* The multipliers and the canary first, then the cash and the lot.        *)
Requested(c, bucket, distance, budget, requested, canary) ==
    Granted(c, bucket, distance, requested, canary,
        CashRisk(requested, budget, MinimumRisk(distance),
                 c.counter /\ CounterOnly, LiftAllowed(c, bucket, canary)))

Weighed(c, m, bucket, distance, budget, losers, losses) ==
    Requested(c, bucket, distance, budget,
        RequestedRisk(budget, c, bucket, losses, slot,
                      QualityScore(c, m, losers, orders), Held # {}),
        Canary(c, bucket, budget, MinimumRisk(distance), CanariesUsed))

Sizing(c, m, losers, losses) ==
    Weighed(c, m, Bucket(c), StopDistance(c, m), CashRiskBudget(pnl),
            losers, losses)

-----------------------------------------------------------------------------
(* a pass *)

(* The signal job writes the signal of the slot, confirmed or not.         *)
NewSignal(s) ==
    /\ ~used
    /\ signal = NoSignal
    /\ signal' = s
    /\ UNCHANGED << slot, used, open, orders, lost, streak, pnl >>

(* The confirmation is older than xauex_confirm_max_age_seconds.           *)
ConfirmAges ==
    /\ signal # NoSignal
    /\ signal.confirm # "PENDING"
    /\ signal' = [signal EXCEPT !.confirm = "PENDING"]
    /\ UNCHANGED << slot, used, open, orders, lost, streak, pnl >>

Passing == ~used /\ signal # NoSignal

(* MICROSTRUCTURE_DEFERRED.                                                *)
Defer(m) ==
    /\ Passing
    /\ Confirmed(signal, m) = "DEFER"
    /\ signal' = [signal EXCEPT !.deferred = TRUE]
    /\ UNCHANGED << slot, used, open, orders, lost, streak, pnl >>

(* The candidate, if the market confirms it.                               *)
Entering(m) ==
    { c \in {Candidate(signal, m)} : c.confirm \in {"CONFIRMED", "SOFT"} }

UseSlot ==
    /\ used' = TRUE
    /\ signal' = NoSignal

(* The candidate has a lot, and the day has its risk left.                 *)
Affordable(risk) == 0 < risk /\ risk <= Remaining(pnl, Reserved)

(* A veto, or a refusal for the slot: the candidate is not admitted, its   *)
(* lot is too small or its risk more than the day has left.                *)
Refuse(m) ==
    /\ Passing
    /\ Confirmed(signal, m) # "DEFER"
    /\ \A c \in Entering(m) :
          Admitted(c, m, lost)
          => Executable(c, m) /\ ~Affordable(Sizing(c, m, lost, streak).risk)
    /\ UseSlot
    /\ UNCHANGED << slot, open, orders, lost, streak, pnl >>

(* A refusal for now; the confirmation stays in cmd.json.                  *)
Wait(m) ==
    /\ Passing
    /\ \E c \in Entering(m) : ~Executable(c, m) /\ Admitted(c, m, lost)
    /\ signal' = [signal EXCEPT !.confirm = Confirmed(signal, m)]
    /\ UNCHANGED << slot, used, open, orders, lost, streak, pnl >>

NewPlace == IF Held = {} THEN "main" ELSE "addon"

(* place_market_order returns the position.  One it does not place is a    *)
(* terminal run without a trace in the day, like a refusal.                *)
Place(m) ==
    /\ Passing
    /\ \E c \in Entering(m) :
          /\ Executable(c, m)
          /\ Admitted(c, m, lost)
          /\ \E size \in {Sizing(c, m, lost, streak)} :
                /\ Affordable(size.risk)
                /\ open' = [open EXCEPT ![NewPlace] =
                       [ action |-> c.action, risk |-> size.risk,
                         addon |-> Held # {}, counter |-> c.counter,
                         phase |-> "OBSERVE" ]]
                /\ orders' = orders \cup {
                       [ slot |-> slot, action |-> c.action,
                         counter |-> c.counter, canary |-> size.canary,
                         lifted |-> size.lifted ]}
    /\ UseSlot
    /\ UNCHANGED << slot, lost, streak, pnl >>

NextSlot ==
    /\ slot < Len(SlotNames)
    /\ slot' = slot + 1
    /\ used' = FALSE
    /\ signal' = NoSignal
    /\ UNCHANGED << open, orders, lost, streak, pnl >>

-----------------------------------------------------------------------------
(* open positions *)

(* advance_xauex_session_phase, confirmed by the broker's profit.          *)
Advance(k) ==
    /\ open[k] # NoPosition
    /\ \/ open[k].phase = "OBSERVE"
          /\ open' = [open EXCEPT ![k].phase = "PROTECT"]
       \/ open[k].phase = "PROTECT"
          /\ open' = [open EXCEPT ![k].phase = "TRAIL"]
    /\ UNCHANGED << slot, used, signal, orders, lost, streak, pnl >>

(* Results of a close: the stop, break-even, a gain.                       *)
Results(p) == IF p.phase = "OBSERVE" THEN {-p.risk, 0, p.risk} ELSE {0, p.risk}

(* Slip: a gain takes one loss off the streak instead of ending it.        *)
CloseCountsDown(k) ==
    /\ open[k] # NoPosition
    /\ \E result \in Results(open[k]) :
          /\ pnl' = pnl + result
          /\ streak' = IF result <= 0 THEN streak + 1 ELSE streak - 1
          /\ lost' = IF result < 0 THEN lost \cup {open[k].action} ELSE lost
    /\ open' = [open EXCEPT ![k] = NoPosition]
    /\ UNCHANGED << slot, used, signal, orders >>

(* record_trade_closed and the list of closed trades.                      *)
Close(k) ==
    /\ open[k] # NoPosition
    /\ \E result \in Results(open[k]) :
          /\ pnl' = pnl + result
          /\ streak' = IF result <= 0 THEN streak + 1 ELSE 0
          /\ lost' = IF result < 0 THEN lost \cup {open[k].action} ELSE lost
    /\ open' = [open EXCEPT ![k] = NoPosition]
    /\ UNCHANGED << slot, used, signal, orders >>

-----------------------------------------------------------------------------

Next ==
    \/ \E s \in Signals : NewSignal(s)
    \/ ConfirmAges
    \/ \E m \in Markets : Defer(m)
    \/ \E m \in Markets : Refuse(m)
    \/ \E m \in Markets : Wait(m)
    \/ \E m \in Markets : Place(m)
    \/ NextSlot
    \/ \E k \in Places : Advance(k)
    \/ \E k \in Places : Close(k)

Spec == Init /\ [][Next]_vars

-----------------------------------------------------------------------------
(* Properties *)

(* Every variable of the day has its type.                                 *)
TypeOK ==
    /\ slot \in Slots /\ used \in BOOLEAN
    /\ signal \in Signal \cup {NoSignal}
    /\ open \in [Places -> Position \cup {NoPosition}]
    /\ orders \in SUBSET Order
    /\ lost \in SUBSET Actions
    /\ streak \in Nat /\ pnl \in Int

(* calculate_xauex_remaining_daily_loss_budget: however gains, losses,     *)
(* add-ons and minimum lots come together, the day's result stays within   *)
(* daily_stop_pct even if every open XAUEX position is stopped out.        *)
WorstCaseWithinLimit == pnl - Reserved >= -DailyLimit

(* build_xauex_continuation_addon_decision: beside another position an     *)
(* add-on is only ever held in its direction and once that is protected,   *)
(* whichever closes or opens in between.                                   *)
AddonRidesProtected ==
    LET parent == open["main"]
        addon == open["addon"]
    IN  addon # NoPosition /\ parent # NoPosition
        => /\ addon.addon /\ ~parent.addon
           /\ addon.action = parent.action
           /\ parent.phase # "OBSERVE"

(* xauex_min_lot_canary_max_per_day: a risk that was cut below the         *)
(* smallest lot is raised to it at most so often a day; a counter-signal,  *)
(* which always trades the smallest lot, uses canaries but is not held     *)
(* back by them.                                                           *)
CanariesCapped ==
    Cardinality({o \in orders : o.lifted /\ ~o.counter}) <= CanaryLimit

(* What a pass would ask for, before the day's remaining budget refuses    *)
(* it: that refusal falls on the larger lot only, and does not shrink it.  *)
CandidateRisk(c, m, losers, losses) ==
    IF /\ c.confirm \in {"CONFIRMED", "SOFT"}
       /\ Executable(c, m)
       /\ Admitted(c, m, losers)
    THEN Sizing(c, m, losers, losses).risk
    ELSE 0

PassRisk(s, m, losers, losses) ==
    CandidateRisk(Candidate(s, m), m, losers, losses)

Freshened(s) ==
    [s EXCEPT !.gaps = FALSE, !.snapshot = "fresh", !.mentions = FALSE]

(* The multipliers, the lift to the minimum lot, the canary and the        *)
(* counter-signal pull in different directions.  Still, a signal with      *)
(* stale inputs never risks more than the same signal with fresh ones, and *)
(* a day with losses never risks more than the same day without.           *)
CautionNeverRisksMore ==
    Passing =>
        \A m \in Markets :
            \A risk \in {PassRisk(signal, m, lost, streak)} :
                risk > 0 =>
                    /\ risk <= PassRisk(Freshened(signal), m, lost, streak)
                    /\ risk <= PassRisk(signal, m, {}, 0)
=============================================================================
