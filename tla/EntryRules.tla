----------------------------- MODULE EntryRules -----------------------------
(***************************************************************************)
(* The decisions of xauex/main.py between a signal and its order: live     *)
(* confirmation, the counter-signal, assurance, entry quality, the add-on, *)
(* stop distance, cash risk, the minimum-lot canary and the lot.           *)
(*                                                                         *)
(* Confidences, scores and multipliers are percents, money is in pence,    *)
(* distances and spreads are in cents, lots are volume steps.  The code    *)
(* does not convert between dollars and pounds, and neither does this.     *)
(*                                                                         *)
(* A signal s is a record.  action, confidence, consensus, validator; what *)
(* the validator's summary says (summary) and whether it mentions stale    *)
(* inputs (mentions); vetoed: validator_hard_blocker; the freshness of its *)
(* inputs (hard, gaps, snapshot); locked: its direction is the locked one; *)
(* warnings: trade_warnings; lower: range_position is LOWER_THIRD; stop:   *)
(* its stop distance; deferred; confirm: what cmd.json says of its         *)
(* confirmation; counter: it is the inverse of a vetoed signal.            *)
(*                                                                         *)
(* A market m is what a pass sees: spread (not positive: no quote), clear: *)
(* no news block, opposed: the actions trend or shadow signal oppose,      *)
(* pattern: the factor of the pattern evidence, reach: the wider of the    *)
(* ATR and the structure stop.                                             *)
(***************************************************************************)
EXTENDS Integers, FiniteSets

CONSTANTS
    Balance,            \* balance at the start of the day
    DailyLimit,         \* day_start_balance x daily_stop_pct
    CashStop,           \* xauex_cash_stop_loss_gbp
    SpreadGuard,        \* xauex_confirm_spread_max_dollars
    CounterEnabled,     \* xauex_counter_signal_enabled
    CounterOnly,        \* xauex_counter_signal_canary_only
    CounterLimit,       \* xauex_counter_signal_daily_limit
    CanaryLimit,        \* xauex_min_lot_canary_max_per_day
    MinSteps, MaxSteps, \* volume_min, and volume_max or max_lot_size
    StepOunces          \* volume_step x lot_size

ASSUME EntryConfig ==
    /\ Balance \in Nat /\ DailyLimit \in Nat /\ CashStop \in Nat
    /\ SpreadGuard \in Nat
    /\ CounterEnabled \in BOOLEAN /\ CounterOnly \in BOOLEAN
    /\ CounterLimit \in Nat /\ CanaryLimit \in Nat
    /\ MinSteps \in Nat \ {0} /\ MaxSteps \in Nat /\ MinSteps <= MaxSteps
    /\ StepOunces \in Nat \ {0}

Actions == {"BUY", "SELL"}
SlotNames == << "LONDON_OPEN", "MIDDAY", "US_OPEN" >>

(* Defaults of config.py, and the code's own literals.  Add-ons, canaries  *)
(* and the same-direction loss cooldown are enabled, as by default.        *)
StrongConfidence == 60
CounterConfidence == 58
CounterRisk == 50
AddonConfidence == 55
AddonRisk == 50
CanaryConfidence == 58
StaleConfidence == 70
LowRisk == 25
SoftRisk == 50
UsOpenRisk == 85
WideSpread == 80
StopMin == 1000
StopMax == 2500
HardBlockScore == 3

Directional(s) == s.action \in Actions

Lesser(a, b) == IF a <= b THEN a ELSE b
Greater(a, b) == IF a >= b THEN a ELSE b

Opposite(action) == IF action = "BUY" THEN "SELL" ELSE "BUY"

Aligned(s) == s.consensus = "aligned"
Disputed(s) == s.consensus \in {"disagreed", "blocked"}

-----------------------------------------------------------------------------
(* freshness *)

(* freshness_requires_risk_reduction.  gaps: a series is missing, stale or *)
(* a fallback, a daily publication is late, or the FOMC met recently.      *)
FreshnessReducesRisk(s) ==
    s.hard \/ s.gaps \/ s.snapshot \in {"warning", "stale", "blocked"}

(* _xauex_has_stale_or_warning_context.                                    *)
StaleContext(s) ==
    \/ FreshnessReducesRisk(s)
    \/ s.snapshot # "fresh" /\ s.mentions

-----------------------------------------------------------------------------
(* live confirmation *)

(* _is_strong_aligned_signal.                                              *)
Strong(s) ==
    /\ Directional(s) /\ ~s.hard
    /\ s.confidence >= StrongConfidence
    /\ Aligned(s) /\ s.validator = "reviewed"

(* build_xauex_confirm_decision: an opposed strong signal is deferred once *)
(* and then taken softly, an opposed weak one conflicts.                   *)
ConfirmDecision(s, m) ==
    IF \/ ~Directional(s) \/ s.hard \/ ~m.clear
       \/ m.spread <= 0 \/ m.spread > SpreadGuard
    THEN "SKIP"
    ELSE IF s.action \notin m.opposed THEN "CONFIRMED"
    ELSE IF ~Strong(s) THEN "CONFLICT"
    ELSE IF s.deferred THEN "SOFT" ELSE "DEFER"

(* The pass confirms only what has no fresh confirmation in cmd.json.      *)
Confirmed(s, m) ==
    IF s.confirm = "PENDING" THEN ConfirmDecision(s, m) ELSE s.confirm

(* build_xauex_counter_signal_candidate: the inverse of a signal that was  *)
(* vetoed, if the market confirms it in turn.  The lock is on the source's *)
(* direction, or there is none.                                            *)
CounterOf(s) ==
    [s EXCEPT !.action = Opposite(s.action),
              !.confidence = CounterConfidence,
              !.consensus = "aligned", !.validator = "reviewed",
              !.summary = "none", !.mentions = FALSE, !.locked = FALSE,
              !.confirm = "CONFIRMED", !.counter = TRUE]

CounterAllowed(s, m, confirm) ==
    /\ CounterEnabled
    /\ Directional(s) /\ ~Strong(s)
    /\ confirm = "CONFLICT"
    /\ ConfirmDecision(CounterOf(s), m) \in {"CONFIRMED", "SOFT"}

-----------------------------------------------------------------------------
(* assurance *)

Clamped(x) == Greater(0, Lesser(100, x))

Score(s) ==
    Clamped(s.confidence
      + (CASE Aligned(s) -> 8
           [] s.consensus = "disagreed" -> -16
           [] s.consensus = "blocked" -> -35
           [] OTHER -> 0)
      + (CASE s.validator = "rejected" -> -25
           [] s.validator = "unavailable" -> -5
           [] OTHER -> 0)
      + (CASE s.summary \in {"weak", "contradicts"} -> -10
           [] s.summary = "supported" -> 5
           [] OTHER -> 0)
      + (IF StaleContext(s) THEN -5 ELSE 0))

(* The refusals before a bucket is chosen.  Every signal that gets here is *)
(* confirmed.                                                              *)
AssuranceBlocks(s) ==
    \/ ~Directional(s) \/ s.hard \/ s.vetoed
    \/ s.confidence < 55 /\ Disputed(s) /\ s.summary = "contradicts"
    \/ s.confidence < 30 /\ (Disputed(s) \/ s.summary \in {"weak", "contradicts"})

(* build_xauex_assurance_profile: its bucket.                              *)
Graded(s, score, stale) ==
    IF AssuranceBlocks(s) THEN "blocked"
    ELSE IF score >= 70 /\ ~stale THEN "high"
    ELSE IF score >= 55 THEN "medium"
    ELSE IF /\ score >= 30 /\ s.confidence >= 35
            /\ s.consensus # "blocked" /\ s.validator # "rejected"
    THEN "low"
    ELSE "blocked"

Bucket(s) == Graded(s, Score(s), StaleContext(s))

(* Slip: the branches of the medium bucket are swapped.                    *)
AssuranceRiskSwapped(bucket, s) ==
    CASE bucket = "high" -> 150
      [] bucket = "medium" -> IF StaleContext(s) THEN 100 ELSE 50
      [] bucket = "low" -> LowRisk
      [] OTHER -> 0

(* Its risk_multiplier.                                                    *)
AssuranceRisk(bucket, s) ==
    CASE bucket = "high" -> 150
      [] bucket = "medium" -> IF StaleContext(s) THEN 50 ELSE 100
      [] bucket = "low" -> LowRisk
      [] OTHER -> 0

-----------------------------------------------------------------------------
(* entry quality; lost: actions with a loss today, orders: today's orders  *)

(* trade_warnings the signal job can attach.                               *)
Warnings ==
    {"PRICE_CONFLICT", "FLIP_BLOCKED_LOW_CONFIDENCE",
     "FLIP_BLOCKED_MACRO_UNCHANGED"}

(* _XAUEX_ENTRY_POLICY_FACTOR_WEIGHTS.                                     *)
Weight(factor) ==
    CASE factor = "PATTERN_DIRECTION_MISMATCH" -> 3
      [] factor \in {"COUNTER_SIGNAL_AFTER_LOSS", "PATTERN_MISSING",
                     "SAME_DIRECTION_LOSS_COOLDOWN"} -> 2
      [] OTHER -> 1

(* _xauex_prior_order_count, of today's runs.                              *)
PriorOrders(orders, actions, counter) ==
    Cardinality({ o \in orders : o.action \in actions /\ o.counter \in counter })

(* _xauex_has_same_day_loss, in one direction or in any.                   *)
SameDayLoss(lost, actions) == lost \cap actions # {}

(* build_xauex_entry_quality_decision: the factors against the entry.      *)
QualityFactors(s, m, lost, orders) ==
    s.warnings
    \cup (IF m.pattern = "PATTERN_MATCH" THEN {} ELSE {m.pattern})
    \cup { f \in {"STALE_CONTEXT_LOW_CONFIDENCE"} :
             StaleContext(s) /\ s.confidence < StaleConfidence }
    \cup { f \in {"COUNTER_SIGNAL_DAILY_LIMIT"} :
             s.counter /\ PriorOrders(orders, Actions, {TRUE}) >= CounterLimit }
    \cup { f \in {"COUNTER_SIGNAL_AFTER_LOSS"} : 
             s.counter /\ SameDayLoss(lost, Actions) }
    \cup { f \in {"COUNTER_SIGNAL_STALE_CONTEXT"} :
             s.counter /\ StaleContext(s) }
    \cup { f \in {"SAME_DIRECTION_LOSS_COOLDOWN"} :
             SameDayLoss(lost, {s.action}) }
    \cup { f \in {"LOWER_THIRD_NO_CHASE"} :
             /\ s.action = "SELL" /\ s.lower
             /\ PriorOrders(orders, {"SELL"}, BOOLEAN) > 0 }

(* The sum of the weights, a layer of the weights at a time.               *)
TotalWeight(factors) ==
    Cardinality(factors)
    + Cardinality({ f \in factors : Weight(f) >= 2 })
    + Cardinality({ f \in factors : Weight(f) >= 3 })

QualityScore(s, m, lost, orders) ==
    TotalWeight(QualityFactors(s, m, lost, orders))

QualityRisk(score) == CASE score = 0 -> 100 [] score = 1 -> 50 [] OTHER -> 25

-----------------------------------------------------------------------------
(* the add-on; held: the set of open XAUEX positions                       *)

(* Slip: the parent need not be protected.                                 *)
AddonAllowedUnprotected(s, slot, held) ==
    /\ SlotNames[slot] \in {"MIDDAY", "US_OPEN"}
    /\ Directional(s) /\ Aligned(s) /\ s.validator = "reviewed"
    /\ s.locked /\ s.confidence >= AddonConfidence
    /\ \A p \in held : ~p.addon
    /\ Cardinality(held) < 2
    /\ \A p \in held : p.action = s.action

(* build_xauex_continuation_addon_decision.                                *)
AddonAllowed(s, slot, held) ==
    /\ SlotNames[slot] \in {"MIDDAY", "US_OPEN"}
    /\ Directional(s) /\ Aligned(s) /\ s.validator = "reviewed"
    /\ s.locked /\ s.confidence >= AddonConfidence
    /\ \A p \in held : ~p.addon
    /\ Cardinality(held) < 2
    /\ \A p \in held : p.action = s.action
    /\ \E p \in held : p.phase \in {"PROTECT", "TRAIL"}

-----------------------------------------------------------------------------
(* distance, cash risk and lot *)

MaxStop(s) == Greater(2 * s.stop, StopMax)

InitialStop(s, m) ==
    Greater(StopMin, Lesser(Greater(s.stop, m.reach), MaxStop(s)))

Widened(distance, limit) ==
    Greater(distance, Lesser((distance * 6) \div 5, limit))

(* build_xauex_initial_stop_distance, widened for a wide spread.           *)
StopDistance(s, m) ==
    IF m.spread >= WideSpread
    THEN Widened(InitialStop(s, m), MaxStop(s))
    ELSE InitialStop(s, m)

(* _xauex_cash_risk_budget, one percent of the balance at most.            *)
CashRiskBudget(pnl) == Lesser(CashStop, (Balance + pnl) \div 100)

(* _xauex_loss_cooldown_multiplier.                                        *)
Cooldown(streak) == IF streak >= 3 THEN 30 ELSE IF streak >= 2 THEN 50 ELSE 100

(* _xauex_session_slot_multiplier.                                         *)
SlotRisk(slot) == IF SlotNames[slot] = "US_OPEN" THEN UsOpenRisk ELSE 100

(* Hundredths of a penny times a percent.                                  *)
Scale(x, percent) == (x * percent) \div 100

(* calculate_xauex_requested_cash_risk; factors are rounded down to a      *)
(* hundredth of a penny on the way.                                        *)
RequestedRisk(budget, s, bucket, streak, slot, score, addon) ==
    LET a == Scale(budget * 100, AssuranceRisk(bucket, s))
        b == Scale(a, Cooldown(streak))
        c == Scale(b, SlotRisk(slot))
        d == Scale(c, IF s.counter THEN CounterRisk ELSE 100)
        e == Scale(d, IF s.confirm = "SOFT" THEN SoftRisk ELSE 100)
        f == Scale(e, QualityRisk(score))
        g == Scale(f, IF addon THEN AddonRisk ELSE 100)
    IN  (g + 50) \div 100

MinimumRisk(distance) == MinSteps * StepOunces * distance

(* Slip: the canaries of the day are not counted.                          *)
CanaryUncounted(s, bucket, budget, minimum, used) ==
    /\ Directional(s) /\ s.confidence >= CanaryConfidence
    /\ ~s.hard /\ s.snapshot # "blocked"
    /\ 0 < minimum /\ minimum <= budget
    /\ IF bucket = "medium" /\ StaleContext(s)
       THEN ~s.counter /\ s.validator = "reviewed" /\ Aligned(s)
       ELSE /\ bucket = "low"
            /\ s.validator = "unavailable" /\ s.consensus = "unreviewed"

(* build_xauex_min_lot_canary_decision: a stale but reviewed and aligned   *)
(* signal, or one whose validator was unavailable.                         *)
Canary(s, bucket, budget, minimum, used) ==
    /\ Directional(s) /\ s.confidence >= CanaryConfidence
    /\ ~s.hard /\ s.snapshot # "blocked"
    /\ used < CanaryLimit
    /\ 0 < minimum /\ minimum <= budget
    /\ IF bucket = "medium" /\ StaleContext(s)
       THEN ~s.counter /\ s.validator = "reviewed" /\ Aligned(s)
       ELSE /\ bucket = "low"
            /\ s.validator = "unavailable" /\ s.consensus = "unreviewed"

(* allow_minimum_executable_risk_lift.                                     *)
LiftAllowed(s, bucket, canary) ==
    \/ AssuranceRisk(bucket, s) >= 100 /\ ~(s.counter /\ CounterOnly) /\ ~StaleContext(s)
    \/ canary

(* calculate_xauex_assurance_cash_risk.                                    *)
CashRisk(requested, budget, minimum, forced, lift) ==
    IF forced THEN IF 0 < minimum /\ minimum <= budget THEN minimum ELSE 0
    ELSE IF lift /\ 0 < requested /\ requested < minimum /\ minimum <= budget
    THEN minimum
    ELSE requested

(* calculate_xauex_lot_size_from_cash_risk; no steps: no lot.              *)
LotSteps(cash, distance) ==
    LET sized == Lesser(cash \div (distance * StepOunces), MaxSteps)
    IN  IF sized < MinSteps THEN 0 ELSE sized

(* Slip: the risk already reserved by open positions is not taken off.     *)
RemainingUnreserved(pnl, reserved) == Greater(0, DailyLimit - Greater(0, -pnl))

(* calculate_xauex_remaining_daily_loss_budget.                            *)
Remaining(pnl, reserved) ==
    Greater(0, DailyLimit - Greater(0, -pnl) - reserved)
=============================================================================
