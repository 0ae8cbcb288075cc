----------------------------- MODULE ChartRules -----------------------------
(***************************************************************************)
(* What the bot reads off price bars: candle patterns at a level, the set  *)
(* of levels, moving averages, the decisions of the two trend strategies,  *)
(* the lot of a strategy order and the trailing stop.                      *)
(*                                                                         *)
(* Prices are in cents and rounded down where the code keeps a fraction;   *)
(* ratios are percents.  A side is 1 (long), -1 (short) or 0 (neither).  A *)
(* bar has open, high, low and close.  The reasons the code records for a  *)
(* refusal are left out.                                                   *)
(***************************************************************************)
EXTENDS Integers, Sequences, FiniteSets, SequencesExt, FiniteSetsExt

CONSTANTS
    DailyFast, DailySlow,       \* periods of the daily averages
    ExecFast, ExecSlow,         \* of the execution timeframe, and of H1
    ScalpFast, ScalpSlow,       \* of M5
    AtrPeriod,                  \* atr_period, scalp_atr_period
    SlopeLookback,              \* ema_slope_lookback
    HourLength,                 \* execution bars in an hour
    FileMaxAge,                 \* of the macro and policy files
    RiskMoney                   \* account balance times risk_percent

ASSUME ChartConfig ==
    /\ {DailyFast, DailySlow, ExecFast, ExecSlow, ScalpFast, ScalpSlow,
        AtrPeriod, SlopeLookback, HourLength} \subseteq Nat \ {0}
    /\ {FileMaxAge, RiskMoney} \subseteq Nat

(* Defaults of config.py.                                                  *)
Proximity == 300
PinMaxBody == 30
PinMinWick == 60
DedupDistance == 100
PriceMin == 50000
PriceMax == 1000000
PullbackProximity == 250
PullbackAtr == 100
PullbackLookback == 6
MinSeparationAtr == 20
MinSlope == 150
AtrMin == 600
BufferAtr == 50
BufferMin == 300
StopTotalMin == 1000
PullbackReward == 200
ClusterMin == 2
ClusterMax == 4
ClusterRangeAtr == 60
ScalpLookback == 4
ScalpPullbackAtr == 25
ScalpTouch == 150
ScalpBody == 45
ScalpClose == 35
ScalpDistanceAtr == 5
ScalpAtrMin == 300
ScalpSpreadMax == 100
ScalpBufferAtr == 35
ScalpBufferMin == 150
ScalpStopMin == 300
ScalpStopMax == 1200
ScalpReward == 120
MacroThreshold == 65
StopMinDistance == 1000
StopMaxDistance == 1500
StopOffset == 1200
LotOunces == 1
MaxLots == 20

Sides == {-1, 1}
Unknown == -1
Distance(a, b) == IF a >= b THEN a - b ELSE b - a
Percent(x, p) == (x * p) \div 100
Sign(x) == IF x > 0 THEN 1 ELSE IF x < 0 THEN -1 ELSE 0

-----------------------------------------------------------------------------
(* candles and patterns *)

Bullish(c) == c.close >= c.open
BodyLow(c) == Min({c.open, c.close})
BodyHigh(c) == Max({c.open, c.close})
Body(c) == BodyHigh(c) - BodyLow(c)
Span(c) == c.high - c.low

(* _check_engulfing: its side.                                             *)
Engulfing(prev, c) ==
    IF /\ Bullish(prev) # Bullish(c)
       /\ BodyLow(c) <= BodyLow(prev) /\ BodyHigh(c) >= BodyHigh(prev)
    THEN IF Bullish(c) THEN 1 ELSE -1
    ELSE 0

(* _check_pin_bar: its side.                                               *)
PinBar(c) ==
    IF Span(c) = 0 \/ Body(c) * 100 > PinMaxBody * Span(c) THEN 0
    ELSE IF (BodyLow(c) - c.low) * 100 >= PinMinWick * Span(c) THEN 1
    ELSE IF (c.high - BodyHigh(c)) * 100 >= PinMinWick * Span(c) THEN -1
    ELSE 0

InsideBar(prev, c) == c.high < prev.high /\ c.low > prev.low

At(price, level) == Distance(price, level) <= Proximity

NoPattern == [kind |-> "NONE", side |-> 0]

(* PatternDetector.detect: engulfing before pin bar before inside bar, the *)
(* first one that is at the level.                                         *)
Detect(prev, c, level) ==
    IF Span(c) = 0 THEN NoPattern
    ELSE IF /\ Engulfing(prev, c) # 0
            /\ \/ BodyLow(c) <= level /\ level <= BodyHigh(c)
               \/ At(BodyLow(c), level) \/ At(BodyHigh(c), level)
    THEN [kind |-> "ENGULFING", side |-> Engulfing(prev, c)]
    ELSE IF /\ PinBar(c) # 0
            /\ At(IF PinBar(c) = 1 THEN c.low ELSE c.high, level)
    THEN [kind |-> "PIN_BAR", side |-> PinBar(c)]
    ELSE IF InsideBar(prev, c) /\ (At(prev.high, level) \/ At(prev.low, level))
    THEN [kind |-> "INSIDE_BAR", side |-> 0]
    ELSE NoPattern

Rank(pattern) ==
    CASE pattern.kind = "ENGULFING" -> 3
      [] pattern.kind = "PIN_BAR" -> 2
      [] pattern.kind = "INSIDE_BAR" -> 1
      [] OTHER -> 0

-----------------------------------------------------------------------------
(* levels *)

(* sorted().                                                               *)
Inserted(s, x) ==
    InsertAt(s, Cardinality({ k \in DOMAIN s : s[k] <= x }) + 1, x)

Sorted(s) ==
    LET sorted[k \in 0..Len(s)] ==
            IF k = 0 THEN << >> ELSE Inserted(sorted[k - 1], s[k])
    IN  sorted[Len(s)]

(* One pass of _deduplicate over an ascending sequence: a level is skipped *)
(* when the one before it is not and takes it in.                          *)
MergeOnce(s) ==
    LET n == Len(s)
        skipped[k \in 0..n + 1] ==
            k \in 2..n /\ ~skipped[k - 1] /\ s[k] - s[k - 1] <= DedupDistance
        level(k) == IF skipped[k + 1] THEN (s[k] + s[k + 1]) \div 2 ELSE s[k]
        merged[k \in 0..n] ==
            IF k = 0 THEN << >>
            ELSE IF skipped[k] THEN merged[k - 1]
            ELSE Append(merged[k - 1], level(k))
    IN  merged[n]

(* _deduplicate: passes until nothing merges; each that does is shorter.   *)
Deduplicate(s) ==
    LET passes[k \in 0..Len(s)] ==
            IF k = 0 THEN Sorted(s) ELSE MergeOnce(passes[k - 1])
    IN  passes[Len(s)]

(* LevelManager._validate.                                                 *)
ValidLevels(bars) ==
    \A b \in ToSet(bars) :
        /\ {b.open, b.high, b.low, b.close} \subseteq PriceMin..PriceMax
        /\ b.high > b.low

(* _raw_values: the four prices of the day, the month and the week.        *)
RawValues(bars) ==
    [ k \in 1..4 * Len(bars) |->
        LET b == bars[(k + 3) \div 4]
        IN  CASE k % 4 = 1 -> b.open
              [] k % 4 = 2 -> b.high
              [] k % 4 = 3 -> b.low
              [] OTHER -> b.close ]

(* LevelManager.refresh: new levels unless the bars are unsound; bars is   *)
(* empty when they could not be fetched.                                   *)
RefreshedLevels(old, bars) ==
    IF bars = << >> \/ ~ValidLevels(bars) THEN old
    ELSE ToSet(Deduplicate(RawValues(bars)))

(* levels_near_range of the two candles.                                   *)
Touched(levels, prev, c) ==
    { l \in levels : /\ l >= Min({prev.low, c.low}) - Proximity
                     /\ l <= Max({prev.high, c.high}) + Proximity }

(* The order in which candidates are looked at: by distance from the       *)
(* close, then from the middle of the range, then from below.              *)
Before(prev, c, a, b) ==
    LET middle == Min({prev.low, c.low}) + Max({prev.high, c.high})
        close(l) == Distance(c.close, l)
        central(l) == Distance(2 * l, middle)
    IN  \/ close(a) < close(b)
        \/ /\ close(a) = close(b)
           /\ \/ central(a) < central(b)
              \/ central(a) = central(b) /\ a < b

Foremost(prev, c, levels) ==
    CHOOSE l \in levels : \A m \in levels \ {l} : Before(prev, c, l, m)

(* The strongest pattern at any of the levels, and where.                  *)
Strongest(prev, c, levels) ==
    LET rank(l) == Rank(Detect(prev, c, l))
        best == { l \in levels : \A m \in levels : rank(m) <= rank(l) }
        level == Foremost(prev, c, best)
    IN  [level |-> level, pattern |-> Detect(prev, c, level)]

(* _match_level_and_pattern, if a level is touched.                        *)
MatchLevel(levels, prev, c) == Strongest(prev, c, Touched(levels, prev, c))

(* next_level_from; the code's fallback when there is none.                *)
TargetFrom(levels, level, side, stop) ==
    LET beyond == { l \in levels : side * (l - level) > 0 }
    IN  IF beyond = {} THEN level + 2 * side * Distance(level, stop)
        ELSE IF side = 1 THEN Min(beyond) ELSE Max(beyond)

(* select_closed_execution_pattern_bars: bars have their bucket in at and  *)
(* come in its order; the last two are taken.                              *)
ClosedBars(bars, now) == { k \in DOMAIN bars : bars[k].at + 1 <= now }

Supports(pattern, side) ==
    IF pattern.side = 0 THEN "PATTERN_MISSING"
    ELSE IF pattern.side = side THEN "PATTERN_MATCH"
    ELSE "PATTERN_DIRECTION_MISMATCH"

(* xauex_pattern_check: whether the strongest pattern supports the side.   *)
PatternCheck(levels, prev, c, side) ==
    Supports(Strongest(prev, c, levels).pattern, side)

(* _xauex_pattern_evidence.                                                *)
PatternEvidence(levels, bars, now, side) ==
    LET closed == ClosedBars(bars, now)
        last == Max(closed)
        prev == Max(closed \ {last})
        near == Touched(levels, bars[prev], bars[last])
    IN  IF Cardinality(closed) < 2 \/ levels = {} THEN "PATTERN_DATA_UNAVAILABLE"
        ELSE PatternCheck(IF near = {} THEN levels ELSE near,
                          bars[prev], bars[last], side)

-----------------------------------------------------------------------------
(* averages *)

Total(s) ==
    LET total[k \in 0..Len(s)] == IF k = 0 THEN 0 ELSE total[k - 1] + s[k]
    IN  total[Len(s)]

Closes(bars) == [k \in DOMAIN bars |-> bars[k].close]

(* calculate_ema.                                                          *)
Ema(closes, period) ==
    LET ema[k \in 0..Len(closes)] ==
            IF k <= period THEN Total(SubSeq(closes, 1, period)) \div period
            ELSE (2 * closes[k] + (period - 1) * ema[k - 1]) \div (period + 1)
    IN  IF Len(closes) < period THEN Unknown ELSE ema[Len(closes)]

TrueRange(bars, k) ==
    Max({ Span(bars[k]), Distance(bars[k].high, bars[k - 1].close),
          Distance(bars[k].low, bars[k - 1].close) })

(* calculate_atr.                                                          *)
Atr(bars) ==
    LET n == Len(bars)
    IN  IF n < AtrPeriod + 1 THEN Unknown
        ELSE Total([k \in 1..AtrPeriod |->
                       TrueRange(bars, n - AtrPeriod + k)]) \div AtrPeriod

(* The side of a pair of averages; unknown counts as neither.              *)
Slope(closes, fast, slow) ==
    IF Unknown \in {Ema(closes, fast), Ema(closes, slow)} THEN 0
    ELSE Sign(Ema(closes, fast) - Ema(closes, slow))

(* TrendFilter.aligned_bias, and _session_bias of the scalper.             *)
AlignedBias(daily, execution) ==
    LET d == Slope(daily, DailyFast, DailySlow)
        e == Slope(execution, ExecFast, ExecSlow)
    IN  IF d = e THEN d ELSE 0

(* _ema_slope.                                                             *)
EmaSlope(closes) ==
    LET n == Len(closes) - SlopeLookback
        prior == Ema(SubSeq(closes, 1, n), ExecFast)
    IN  IF n <= 0 \/ prior = Unknown THEN 0 ELSE Ema(closes, ExecFast) - prior

-----------------------------------------------------------------------------
(* what both trend strategies use *)

NoEntry == [side |-> 0, level |-> 0, entry |-> 0, stop |-> 0, target |-> 0]

Touches(bar, center, zone) ==
    bar.low <= center + zone /\ bar.high >= center - zone

(* _pullback_anchor: the extreme of the bars against the side.             *)
Anchor(bars, indices, side) ==
    IF side = 1 THEN Min({ bars[k].low : k \in indices })
    ELSE Max({ bars[k].high : k \in indices })

(* _build_stop_loss: the farther of the supports less the buffer, at least *)
(* least away from the entry.                                              *)
StopLoss(side, entry, supports, buffer, least) ==
    IF side = 1
    THEN Min({ Min(supports) - buffer, entry - least })
    ELSE Max({ Max(supports) + buffer, entry + least })

Entry(side, level, price, stop, reward) ==
    [ side |-> side, level |-> level, entry |-> price, stop |-> stop,
      target |-> price + side * Percent(Distance(price, stop), reward) ]

-----------------------------------------------------------------------------
(* EMA_PULLBACK_H1 *)

(* _collect_pullback_bars: the last unbroken run of bars in the zone.      *)
PullbackRun(bars, i, ema, zone) ==
    LET window == Max({1, i - PullbackLookback + 1})..i
        inside == { k \in window : Touches(bars[k], ema, zone) }
    IN  { k \in inside : k..Max(inside) \subseteq inside }

(* _regime_block_reason.                                                   *)
RegimeBlocks(side, fast, slow, atr, slope) ==
    \/ atr < AtrMin
    \/ Distance(fast, slow) < Percent(atr, MinSeparationAtr)
    \/ side * slope < MinSlope

(* _confirm_close_side.                                                    *)
CloseConfirms(c, ema, side) ==
    IF side = 1 THEN c.close > ema /\ Bullish(c) ELSE c.close < ema /\ ~Bullish(c)

(* _detect_consolidation_break: sizes of the narrow clusters before the    *)
(* signal bar that it breaks out of; the code takes the smallest.          *)
BrokenClusters(bars, i, side, atr, ema, zone) ==
    { n \in ClusterMin..ClusterMax :
        /\ i - n >= 2
        /\ LET cluster == (i - n)..(i - 1)
               c == bars[i]
           IN  /\ \A k \in cluster :
                      Span(bars[k]) <= Percent(atr, ClusterRangeAtr)
               /\ \E k \in cluster : Touches(bars[k], ema, zone)
               /\ IF side = 1
                  THEN /\ c.close > Max({ bars[k].high : k \in cluster })
                       /\ c.close > ema /\ c.close > c.open
                  ELSE /\ c.close < Min({ bars[k].low : k \in cluster })
                       /\ c.close < ema /\ c.close < c.open }

(* _detect_continuation_close.                                             *)
Continues(prev, c, side, ema, zone) ==
    /\ Span(c) > 0
    /\ Body(c) * 100 >= 40 * Span(c)
    /\ IF side = 1
       THEN /\ c.low <= ema + zone
            /\ Bullish(c) /\ c.close > ema /\ c.close > prev.high
            /\ (c.close - c.low) * 100 >= 65 * Span(c)
       ELSE /\ c.high >= ema - zone
            /\ ~Bullish(c) /\ c.close < ema /\ c.close < prev.low
            /\ (c.close - c.low) * 100 <= 35 * Span(c)

(* EMAPullbackH1Strategy.evaluate on the closed bar i.                     *)
EmaPullback(bars, i, daily, price, spread) ==
    LET past == SubSeq(bars, 1, i)
        closes == Closes(past)
        side == AlignedBias(daily, closes)
        fast == Ema(closes, ExecFast)
        slow == Ema(closes, ExecSlow)
        atr == Atr(past)
        zone == Max({PullbackProximity, Percent(atr, PullbackAtr)})
        run == PullbackRun(bars, i, fast, zone)
        pattern == Detect(bars[i - 1], bars[i], fast)
        clusters == BrokenClusters(bars, i, side, atr, fast, zone)
        buffer == Max({BufferMin, Percent(atr, BufferAtr), 3 * spread})
        entry(indices) ==
            Entry(side, fast, price,
                  StopLoss(side, price, {Anchor(bars, indices, side), slow},
                           buffer, StopTotalMin),
                  PullbackReward)
    IN  IF i < 2 \/ i > Len(bars) THEN NoEntry
        ELSE IF side = 0 \/ atr = Unknown THEN NoEntry
        ELSE IF RegimeBlocks(side, fast, slow, atr, EmaSlope(closes))
        THEN NoEntry
        ELSE IF run = {} THEN NoEntry
        ELSE IF pattern.side = side /\ CloseConfirms(bars[i], fast, side)
        THEN entry(run)
        ELSE IF clusters # {} THEN entry((i - Min(clusters))..(i - 1))
        ELSE IF Continues(bars[i - 1], bars[i], side, fast, zone)
        THEN entry(run)
        ELSE NoEntry

-----------------------------------------------------------------------------
(* SCALP_V1 *)

(* MacroRegimeLoader.load and TradePolicyLoader.load: a file that cannot   *)
(* be read, is too old or has expired counts as none.                      *)
Loaded(file, now, none) ==
    IF /\ file.readable /\ now - file.made <= FileMaxAge
       /\ (file.expires = 0 \/ file.expires > now)
    THEN file.content ELSE none

NoMacro == [side |-> 0, confidence |-> 0]
NoPolicy == [sides |-> Sides, width |-> 100, reward |-> 100]

(* _aggregate_h1_closes_from_m5: the last close of every hour, if there    *)
(* are enough of them.                                                     *)
HourCloses(bars) ==
    LET hour(k) == bars[k].at \div HourLength
        ends == SelectSeq([k \in DOMAIN bars |-> k],
                          LAMBDA k : k = Len(bars) \/ hour(k) # hour(k + 1))
    IN  IF Len(ends) < ExecSlow THEN << >>
        ELSE [j \in DOMAIN ends |-> bars[ends[j]].close]

(* MacroRegimeLoader.gate_direction.                                       *)
MacroAllows(macro, side) ==
    macro.confidence < MacroThreshold \/ macro.side \in {0, side}

(* _session_bias with the macro override.                                  *)
ScalpSide(daily, hours, macro) ==
    LET h == Slope(hours, ExecFast, ExecSlow)
    IN  IF Unknown \in {Ema(daily, DailyFast), Ema(daily, DailySlow)} THEN 0
        ELSE IF AlignedBias(daily, hours) # 0 THEN h
        ELSE IF macro.side = h /\ macro.confidence >= MacroThreshold THEN h
        ELSE 0

(* _is_continuation_close.                                                 *)
ScalpContinues(prev, c, side, fast, slow, atr) ==
    LET reach == Max({Percent(atr, 10), 100})
        edge == Min({50, ScalpClose + 10})
    IN  /\ Span(c) > 0
        /\ Body(c) * 10000 >= ScalpBody * 85 * Span(c)
        /\ IF side = 1
           THEN /\ c.close > c.open /\ c.close > fast
                /\ (c.close > slow \/ c.close > prev.close)
                /\ \/ c.close > prev.high
                   \/ /\ c.high >= fast - reach
                      /\ (c.close - c.low) * 100 >= (100 - edge) * Span(c)
           ELSE /\ c.close < c.open /\ c.close < fast
                /\ (c.close < slow \/ c.close < prev.close)
                /\ \/ c.close < prev.low
                   \/ /\ c.low <= fast + reach
                      /\ (c.close - c.low) * 100 <= edge * Span(c)

(* M5ScalpStrategy.evaluate on the closed bar i.  policy.width scales the  *)
(* zone and policy.reward the target.                                      *)
Scalp(bars, i, daily, hours, price, spread, macro, policy) ==
    LET past == SubSeq(bars, 1, i)
        closes == Closes(past)
        side == ScalpSide(daily, hours, macro)
        fast == Ema(closes, ScalpFast)
        slow == Ema(closes, ScalpSlow)
        atr == Atr(past)
        zone == Max({ScalpTouch, Percent(Percent(atr, ScalpPullbackAtr),
                                         policy.width)})
        window == Max({1, i - ScalpLookback + 1})..i
        touched == { k \in window : \/ Touches(bars[k], fast, zone)
                                    \/ Touches(bars[k], slow, zone) }
        buffer == Max({ScalpBufferMin, Percent(atr, ScalpBufferAtr), 2 * spread})
        wide == StopLoss(side, price, {Anchor(bars, touched, side)}, buffer,
                         ScalpStopMin)
        stop == IF Distance(price, wide) > ScalpStopMax
                THEN price - side * ScalpStopMax ELSE wide
    IN  IF i < 2 \/ i > Len(bars) THEN NoEntry
        ELSE IF Unknown \in {fast, slow, atr} \/ side = 0 THEN NoEntry
        ELSE IF \/ spread > ScalpSpreadMax \/ atr < ScalpAtrMin
                \/ Distance(fast, slow) < Percent(atr, ScalpDistanceAtr)
                \/ side \notin policy.sides
        THEN NoEntry
        ELSE IF touched = {} THEN NoEntry
        ELSE IF ScalpContinues(bars[i - 1], bars[i], side, fast, slow, atr)
        THEN Entry(side, fast, price, stop, Percent(ScalpReward, policy.reward))
        ELSE NoEntry

-----------------------------------------------------------------------------
(* lot and trailing stop *)

(* calculate_lot_size in steps; none: the trade is skipped.                *)
LotSize(entry, stop, spread, least, most) ==
    LET distance == Distance(entry, stop)
        lots == Min({RiskMoney \div (distance * LotOunces), MaxLots})
    IN  IF distance < least \/ distance > most \/ distance < 3 * spread
        THEN 0 ELSE lots

(* An order: a market order or the stop order of an inside bar.            *)
Offer(kind, entry, lots) ==
    [ kind |-> kind, side |-> entry.side, level |-> entry.level,
      entry |-> entry.entry, stop |-> entry.stop, target |-> entry.target,
      lots |-> lots ]

NoOffer == Offer("NONE", NoEntry, 0)

(* place_inside_bar_orders: beyond the mother bar, stopped behind it.      *)
InsideBarEntry(levels, mother, level, side) ==
    LET entry == IF side = 1 THEN mother.high + 100 ELSE mother.low - 100
        stop == IF side = 1 THEN mother.low - StopMinDistance
                ELSE mother.high + StopMinDistance
    IN  [ side |-> side, level |-> level, entry |-> entry, stop |-> stop,
          target |-> TargetFrom(levels, entry, side, stop) ]

(* A market order with the lot that fits the distance between the entry    *)
(* the rules decide on and its stop.                                       *)
Sized(entry, spread, least, most) ==
    Offer("MARKET", entry, LotSize(entry.entry, entry.stop, spread, least, most))

(* What follows a pattern at a level.  The lot is that of an entry at the  *)
(* level for both kinds of order; where a market order really enters is in *)
(* Opened.                                                                 *)
OrderAt(levels, prev, match, side, spread) ==
    LET stop == match.level - side * StopOffset
        order == Sized([ side |-> side, level |-> match.level,
                         entry |-> match.level, stop |-> stop,
                         target |-> TargetFrom(levels, match.level, side, stop) ],
                       spread, StopMinDistance, StopMaxDistance)
    IN  IF match.pattern.kind = "INSIDE_BAR"
        THEN Offer("STOP", InsideBarEntry(levels, prev, match.level, side),
                   order.lots)
        ELSE order

(* An inside bar follows the bias, other patterns must agree with it.      *)
Reaction(levels, prev, match, bias, spread) ==
    IF \/ match.pattern.kind = "NONE" \/ bias = 0
       \/ match.pattern.kind # "INSIDE_BAR" /\ match.pattern.side # bias
    THEN NoOffer
    ELSE OrderAt(levels, prev, match, bias, spread)

(* _process_legacy_candle_close from the levels to the order.              *)
LevelReaction(bars, i, daily, levels, spread) ==
    IF Touched(levels, bars[i - 1], bars[i]) = {} THEN NoOffer
    ELSE Reaction(levels, bars[i - 1], MatchLevel(levels, bars[i - 1], bars[i]),
                  AlignedBias(daily, Closes(SubSeq(bars, 1, i))), spread)

(* _fetch_execution_bars gives nothing on fewer.                           *)
UsableBars(bars) == Len(bars) >= 3

(* _select_signal_index: the last bar unless it is the one still forming.  *)
SignalIndex(bars, now) ==
    IF bars[Len(bars)].at = now THEN Len(bars) - 1 ELSE Len(bars)

(* The macro gate after the evaluation of a scalp.                         *)
Governed(macro, offer) ==
    IF MacroAllows(macro, offer.side) THEN offer ELSE NoOffer

(* What a mode offers on a chart: bars, the bucket now, daily closes, the  *)
(* levels and bars to renew them from (htf), price, spread, and the macro  *)
(* and policy files.                                                       *)
OfferOf(mode, chart) ==
    LET i == SignalIndex(chart.bars, chart.now)
        macro == Loaded(chart.macro, chart.now, NoMacro)
    IN  IF ~UsableBars(chart.bars) THEN NoOffer
        ELSE CASE mode = "LEGACY_LEVELS" ->
                    LevelReaction(chart.bars, i, chart.daily,
                                  RefreshedLevels(chart.levels, chart.htf),
                                  chart.spread)
               [] mode = "EMA_PULLBACK_H1" ->
                    Sized(EmaPullback(chart.bars, i, chart.daily, chart.price,
                                      chart.spread),
                          chart.spread, StopMinDistance, StopMaxDistance)
               [] mode = "SCALP_V1" ->
                    Governed(macro,
                      Sized(Scalp(chart.bars, i, chart.daily,
                                  HourCloses(chart.bars), chart.price,
                                  chart.spread, macro,
                                  Loaded(chart.policy, chart.now, NoPolicy)),
                            chart.spread, ScalpStopMin, ScalpStopMax))

(* evaluate_trailing_stop for a position p with side, entry and stop; the  *)
(* risk is what update_trailing_stops takes it for: what the present stop  *)
(* leaves, not the original one.                                           *)
TrailedStop(p, price) ==
    LET risk == Distance(p.entry, p.stop)
        trail == price - p.side * risk
    IN  IF risk = 0 \/ p.side * (price - p.entry) < risk THEN p.stop
        ELSE IF p.side * (trail - p.stop) > 0 THEN trail
        ELSE IF p.side * (p.entry - p.stop) > 0 THEN p.entry
        ELSE p.stop

(* update_trailing_stops: a stop that loosens, or that the market has      *)
(* passed, is not sent.                                                    *)
AmendedStop(p, price) ==
    LET stop == TrailedStop(p, price)
    IN  IF p.side * (stop - p.stop) < 0 \/ p.side * (price - stop) <= 0
        THEN p.stop ELSE stop

(* A position entered at fill with its stop and target that far away.     *)
EnteredAt(o, fill, risk, reward) ==
    Offer(o.kind,
          [ side |-> o.side, level |-> o.level, entry |-> fill,
            stop |-> fill - o.side * risk, target |-> fill + o.side * reward ],
          o.lots)

(* Slip: the distances are those from the entry decided on.                *)
OpenedAsDecided(o, quote, fill) ==
    IF o.kind # "MARKET" THEN o
    ELSE EnteredAt(o, fill, Distance(o.entry, o.stop), Distance(o.target, o.entry))

(* place_market_order sends how far the stop and the target are from the   *)
(* cached quote, and the broker counts both from the price it fills at.    *)
(* Stop orders go out with the prices themselves.                          *)
Opened(o, quote, fill) ==
    IF o.kind # "MARKET" THEN o
    ELSE EnteredAt(o, fill, Distance(quote, o.stop), Distance(o.target, quote))

(* What the tracker may hold of the position: an answer that it is filled  *)
(* gives it the level as entry and the requested stop, the fill event the  *)
(* price of the fill and, if the event names one, the broker's stop.       *)
Tracked(o, quote, fill) ==
    { [side |-> o.side, entry |-> entry, stop |-> stop] :
        entry \in {o.level, fill}, stop \in {o.stop, Opened(o, quote, fill).stop} }

-----------------------------------------------------------------------------
(* what the rules promise *)

TradeModes == {"LEGACY_LEVELS", "EMA_PULLBACK_H1", "SCALP_V1"}

StopLimits(mode) ==
    IF mode = "SCALP_V1" THEN ScalpStopMin..ScalpStopMax
    ELSE StopMinDistance..StopMaxDistance

Loss(o) == Distance(o.entry, o.stop) * o.lots * LotOunces

SizedMarket(o) == o.side # 0 /\ o.kind = "MARKET" /\ o.lots > 0

(* Of the decision: the stop is on the losing side and the target on the   *)
(* winning side of the entry decided on; a sized market order has its stop *)
(* within the limits of its mode and loses no more than the risk money     *)
(* there.                                                                  *)
SoundOffer(mode, o) ==
    /\ o.side # 0 => /\ o.side * (o.entry - o.stop) > 0
                     /\ o.side * (o.target - o.entry) > 0
    /\ SizedMarket(o) => /\ Loss(o) <= RiskMoney
                         /\ Distance(o.entry, o.stop) \in StopLimits(mode)

(* Of the position it opens: what it can lose at its stop is more than the *)
(* risk money by no more than the drift of the quote from the entry        *)
(* decided on costs its lot, whatever the fill; as long as the quote is    *)
(* between the stop and the target, both are where they were decided, but  *)
(* for the slip of the fill from the quote.                                *)
SoundPosition(o, quote, fill) ==
    LET p == Opened(o, quote, fill)
        drift == Distance(quote, o.entry)
    IN  SizedMarket(o) =>
          /\ p.side * (p.entry - p.stop) >= 0
          /\ p.side * (p.target - p.entry) >= 0
          /\ Loss(p) <= RiskMoney + drift * o.lots * LotOunces
          /\ o.side * (quote - o.stop) >= 0 /\ o.side * (o.target - quote) >= 0
                => /\ p.stop - o.stop = fill - quote
                   /\ p.target - o.target = fill - quote

Quotes == [open : Int, high : Int, low : Int, close : Int]
Candles == [open : Int, high : Int, low : Int, close : Int, at : Int]
File(contents) ==
    [readable : {FALSE}]
        \cup [readable : {TRUE}, made : Int, expires : Nat, content : contents]

(* What a chart is: bars in the order of their buckets, the last of which  *)
(* may be forming now, policy files that ask for some reward, and quotes   *)
(* that an order may go out at or be filled at.                            *)
RealChart(chart) ==
    /\ chart \in
         [ bars : Seq(Candles), now : Int, daily : Seq(Int), levels : SUBSET Int,
           htf : Seq(Quotes), price : Int, spread : Nat, quotes : SUBSET Int,
           macro : File([side : Sides \cup {0}, confidence : Nat]),
           policy : File([sides : SUBSET Sides, width : Nat,
                          reward : Nat \ {0}]) ]
    /\ \A k \in DOMAIN chart.bars :
         /\ chart.bars[k].low <= chart.bars[k].high
         /\ chart.bars[k].at <= chart.now
         /\ \A j \in 1..k - 1 : chart.bars[j].at < chart.bars[k].at
    /\ chart.bars # << >>

(* The bar that is still forming has no say.                               *)
Closed(chart) ==
    [chart EXCEPT !.bars = IF Last(@).at = chart.now THEN Front(@) ELSE @]

(* A trailing stop only tightens, stays short of the price and, once       *)
(* moved, loses nothing.                                                   *)
SoundTrail(p, price) ==
    LET stop == AmendedStop(p, price)
    IN  stop # p.stop => /\ p.side * (stop - p.stop) > 0
                         /\ p.side * (price - stop) > 0
                         /\ p.side * (stop - p.entry) >= 0

(* An offer is sound, is the one of the closed bars (whole), opens a sound *)
(* position at any of the quotes, and that can be trailed.                 *)
SoundMode(mode, offer, closed, whole, quotes) ==
    /\ SoundOffer(mode, offer)
    /\ whole => closed = offer
    /\ offer.side # 0 =>
         \A quote, fill \in quotes :
           /\ SoundPosition(offer, quote, fill)
           /\ \A p \in Tracked(offer, quote, fill), k \in 0..4 :
                SoundTrail(p, p.entry + p.side * k * 400)

(* Evidence is that of the closed bars, and of one side at most.           *)
SoundEvidence(side, other, closed) ==
    /\ closed = side
    /\ side = "PATTERN_MATCH" => other = "PATTERN_DIRECTION_MISMATCH"

SoundLevels(old, new) ==
    new = old \/ \A a, b \in new : a # b => Distance(a, b) > DedupDistance

SoundRules(chart, closed, levels) ==
    LET evidence(c, side) == PatternEvidence(levels, c.bars, c.now, side)
    IN  /\ \A mode \in TradeModes :
             SoundMode(mode, OfferOf(mode, chart), OfferOf(mode, closed),
                       mode # "SCALP_V1" /\ UsableBars(closed.bars), chart.quotes)
        /\ \A side \in Sides :
             SoundEvidence(evidence(chart, side), evidence(chart, -side),
                           evidence(closed, side))
        /\ SoundLevels(chart.levels, levels)

SoundOn(chart) ==
    SoundRules(chart, Closed(chart), RefreshedLevels(chart.levels, chart.htf))
=============================================================================
