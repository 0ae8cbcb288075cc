------------------------- MODULE StrategyLoopProofs -------------------------
(***************************************************************************)
(* Proofs about StrategyLoop for any deployment, charts, caps, cooldowns   *)
(* and expiry, and about the rules of ChartRules on any chart.             *)
(***************************************************************************)
EXTENDS StrategyLoop, FiniteSetTheorems, SequenceTheorems, TLAPS

-----------------------------------------------------------------------------
(* What the rules promise on every chart *)

LEMMA BiasType ==
    ASSUME NEW daily, NEW closes
    PROVE  AlignedBias(daily, closes) \in Sides \cup {0}
  <1>1. \A x : Sign(x) \in Sides \cup {0}
    BY DEF Sign, Sides
  <1>2. \A s, f, w : Slope(s, f, w) \in Sides \cup {0}
    BY <1>1 DEF Slope
  <1> QED
    BY <1>2 DEF AlignedBias

LEMMA ALeastNatural ==
    ASSUME NEW S, S \subseteq Nat, S # {}
    PROVE  \E x \in S : \A y \in S : x <= y
  <1> DEFINE R == { ss \in Nat \X Nat : ss[1] < ss[2] }
  <1>1. IsWellFoundedOn(R, Nat)
    BY NatLessThanWellFounded DEF OpToRel
  <1>2. \A x, y \in Nat : x < y => <<x, y>> \in R
    OBVIOUS
  <1> HIDE DEF R
  <1>3. PICK x \in S : \A y \in S : ~ (<<y, x>> \in R)
    BY <1>1, WFMin
  <1>4. \A y \in S : x \in Nat /\ y \in Nat /\ ~(y < x)
    BY <1>2, <1>3
  <1> QED
    BY <1>4

(* Of any levels, one at the least distance.                               *)
LEMMA ANearest ==
    ASSUME NEW S, S # {}, NEW f \in [S -> Nat]
    PROVE  \E x \in S : \A y \in S : f[x] <= f[y]
  <1> DEFINE T == { f[x] : x \in S }
  <1>1. T \subseteq Nat /\ T # {}
    OBVIOUS
  <1>2. PICK t \in T : \A u \in T : t <= u
    <2> HIDE DEF T
    <2> QED
      BY <1>1, ALeastNatural
  <1> QED
    BY <1>2

(* The next level on a side is on that side, and so is the fall-back.      *)
LEMMA TargetIsBeyond ==
    ASSUME NEW levels \in SUBSET Int, NEW entry \in Int, NEW stop \in Int,
           NEW side \in Sides, side * (entry - stop) > 0
    PROVE  LET target == TargetFrom(levels, entry, side, stop)
           IN  target \in Int /\ side * (target - entry) > 0
  <1> DEFINE beyond == { l \in levels : side * (l - entry) > 0 }
             f == [l \in beyond |-> side * (l - entry)]
  <1>1. CASE beyond = {}
    <2>1. TargetFrom(levels, entry, side, stop) = entry + 2 * side * Distance(entry, stop)
      BY <1>1 DEF TargetFrom
    <2>2. Distance(entry, stop) \in Nat /\ Distance(entry, stop) > 0
      BY DEF Distance, Sides
    <2> QED
      BY <2>1, <2>2 DEF Sides
  <1>2. CASE beyond # {}
    <2>1. f \in [beyond -> Nat]
      <3>1. ASSUME NEW l \in beyond PROVE side * (l - entry) \in Nat
        <4>1. l \in Int /\ side * (l - entry) > 0
          OBVIOUS
        <4>2. side * (l - entry) \in Int
          BY <4>1 DEF Sides
        <4> QED
          BY <4>1, <4>2
      <3> QED
        BY <3>1
    <2>2. PICK x \in beyond : \A y \in beyond : f[x] <= f[y]
      <3> HIDE DEF beyond, f
      <3> QED
        BY <1>2, <2>1, ANearest
    <2>3. CASE side = 1
      <3>1. \A y \in beyond : x <= y
        BY <2>2, <2>3
      <3>2. Min(beyond) \in beyond
        <4> HIDE DEF beyond
        <4> QED
          BY <3>1, Zenon DEF Min
      <3>3. TargetFrom(levels, entry, side, stop) = Min(beyond)
        BY <1>2, <2>3 DEF TargetFrom
      <3> QED
        BY <3>2, <3>3
    <2>4. CASE side = -1
      <3>1. \A y \in beyond : x >= y
        BY <2>2, <2>4
      <3>2. Max(beyond) \in beyond
        <4> HIDE DEF beyond
        <4> QED
          BY <3>1, Zenon DEF Max
      <3>3. TargetFrom(levels, entry, side, stop) = Max(beyond)
        BY <1>2, <2>4 DEF TargetFrom
      <3> QED
        BY <3>2, <3>3
    <2> QED
      BY <2>3, <2>4 DEF Sides
  <1> QED
    BY <1>1, <1>2

(* The foremost of some levels is one of them: nearest to the close, then  *)
(* to the middle, then lowest.                                             *)
LEMMA ForemostIsOne ==
    ASSUME NEW prev \in Candles, NEW c \in Candles, NEW levels \in SUBSET Int, levels # {}
    PROVE  Foremost(prev, c, levels) \in levels
  <1> DEFINE middle == Min({prev.low, c.low}) + Max({prev.high, c.high})
             close(l) == Distance(c.close, l)
             central(l) == Distance(2 * l, middle)
  <1>1. middle \in Int
    <2>1. Min({prev.low, c.low}) \in {prev.low, c.low}
      <3>1. \E x \in {prev.low, c.low} : \A y \in {prev.low, c.low} : x =< y
        BY DEF Candles
      <3> QED
        BY <3>1, Zenon DEF Min
    <2>2. Max({prev.high, c.high}) \in {prev.high, c.high}
      <3>1. \E x \in {prev.high, c.high} : \A y \in {prev.high, c.high} : x >= y
        BY DEF Candles
      <3> QED
        BY <3>1, Zenon DEF Max
    <2> QED
      BY <2>1, <2>2 DEF Candles
  <1>2. \A l \in Int : close(l) \in Nat
    BY DEF Distance, Candles
  <1>3. \A l \in Int : central(l) \in Nat
    <2> HIDE DEF middle
    <2> QED
      BY <1>1 DEF Distance
  <1>4. \A a, b : Before(prev, c, a, b) <=>
          \/ close(a) < close(b)
          \/ /\ close(a) = close(b)
             /\ \/ central(a) < central(b)
                \/ central(a) = central(b) /\ a < b
    BY DEF Before
  <1> HIDE DEF close, central
  <1> DEFINE f == [l \in levels |-> close(l)]
  <1>5. PICK near \in levels : \A y \in levels : close(near) <= close(y)
    <2>1. f \in [levels -> Nat]
      BY <1>2
    <2>2. PICK near \in levels : \A y \in levels : f[near] <= f[y]
      <3> HIDE DEF f
      <3> QED
        BY <2>1, ANearest
    <2> QED
      BY <2>2
  <1> DEFINE A == { l \in levels : close(l) = close(near) }
             g == [l \in A |-> central(l)]
  <1>6. PICK mid \in A : \A y \in A : central(mid) <= central(y)
    <2>1. g \in [A -> Nat] /\ A # {}
      BY <1>3
    <2>2. PICK mid \in A : \A y \in A : g[mid] <= g[y]
      <3> HIDE DEF g, A
      <3> QED
        BY <2>1, ANearest
    <2> QED
      BY <2>2
  <1> DEFINE B == { l \in A : central(l) = central(mid) }
  <1>7. PICK low \in B : \A y \in B : low <= y
    <2>1. \A y \in B : 2 * y \in {middle + central(mid), middle - central(mid)}
      <3>1. \A y \in Int : central(y) = Distance(2 * y, middle)
        BY DEF central
      <3> SUFFICES ASSUME NEW y \in B
                   PROVE  2 * y \in {middle + central(mid), middle - central(mid)}
        OBVIOUS
      <3>2. y \in Int /\ central(y) = central(mid)
        OBVIOUS
      <3>3. central(mid) = Distance(2 * y, middle) /\ 2 * y \in Int
        BY <3>1, <3>2
      <3> HIDE DEF middle
      <3> QED
        BY <1>1, <3>3 DEF Distance
    <2>2. central(mid) \in Nat /\ mid \in B
      BY <1>3, <1>6
    <2>3. B \subseteq Int
      OBVIOUS
    <2> HIDE DEF middle, B
    <2>4. CASE \E y \in B : 2 * y = middle - central(mid)
      BY <1>1, <2>1, <2>2, <2>3, <2>4
    <2>5. CASE \A y \in B : 2 * y = middle + central(mid)
      BY <1>1, <2>1, <2>2, <2>3, <2>5
    <2> QED
      BY <2>1, <2>4, <2>5
  <1>8. \A m \in levels \ {low} : Before(prev, c, low, m)
    <2> SUFFICES ASSUME NEW m \in levels, m # low PROVE Before(prev, c, low, m)
      OBVIOUS
    <2>1. /\ close(low) = close(near) /\ central(low) = central(mid)
          /\ close(low) <= close(m)
          /\ close(low) \in Nat /\ close(m) \in Nat
          /\ central(low) \in Nat /\ central(m) \in Nat /\ low \in Int /\ m \in Int
      BY <1>2, <1>3, <1>5, <1>7
    <2>2. close(m) = close(near) => central(mid) <= central(m)
      BY <1>6
    <2>3. close(m) = close(near) /\ central(m) = central(mid) => low <= m
      BY <1>7
    <2> QED
      BY <1>4, <2>1, <2>2, <2>3
  <1>9. \E l \in levels : \A m \in levels \ {l} : Before(prev, c, l, m)
    BY <1>7, <1>8
  <1> QED
    BY <1>9, Zenon DEF Foremost

(* The strongest pattern is at one of the levels.                          *)
LEMMA StrongestIsAtLevel ==
    ASSUME NEW prev \in Candles, NEW c \in Candles, NEW levels \in SUBSET Int, levels # {}
    PROVE  Strongest(prev, c, levels).level \in levels
  <1> DEFINE rank(l) == Rank(Detect(prev, c, l))
             f == [l \in levels |-> 3 - rank(l)]
             best == { l \in levels : \A m \in levels : rank(m) <= rank(l) }
  <1>1. \A l : rank(l) \in 0..3
    BY DEF Rank
  <1> HIDE DEF rank
  <1>2. f \in [levels -> Nat]
    BY <1>1
  <1>3. PICK x \in levels : \A y \in levels : f[x] <= f[y]
    <2> HIDE DEF f
    <2> QED
      BY <1>2, ANearest
  <1>4. x \in best
    BY <1>1, <1>3
  <1>5. Foremost(prev, c, best) \in best
    <2>1. best \in SUBSET Int /\ best # {}
      BY <1>4
    <2> HIDE DEF best
    <2> QED
      BY <2>1, ForemostIsOne
  <1>6. Strongest(prev, c, levels).level = Foremost(prev, c, best)
    BY DEF Strongest, rank
  <1> QED
    BY <1>5, <1>6

(* The lot of an order loses no more than the risk money at its stop, and  *)
(* only stops within the limits get one.                                   *)
LEMMA LotFitsRisk ==
    ASSUME NEW entry \in Int, NEW stop \in Int, NEW spread, NEW least \in Int,
           NEW most \in Int, 0 < least, LotSize(entry, stop, spread, least, most) > 0
    PROVE  /\ LotSize(entry, stop, spread, least, most) \in Nat
           /\ Distance(entry, stop) * LotSize(entry, stop, spread, least, most)
                * LotOunces <= RiskMoney
           /\ Distance(entry, stop) \in least..most
  <1> DEFINE d == Distance(entry, stop)
             q == RiskMoney \div (d * LotOunces)
             lots == Min({q, MaxLots})
  <1>1. LotSize(entry, stop, spread, least, most)
          = IF d < least \/ d > most \/ d < 3 * spread THEN 0 ELSE lots
    BY DEF LotSize
  <1>2. d \in Nat /\ RiskMoney \in Nat
    BY ChartConfig DEF Distance
  <1>3. /\ ~(d < least) /\ ~(d > most)
        /\ LotSize(entry, stop, spread, least, most) = lots
    <2> HIDE DEF d, lots
    <2> QED
      BY <1>1
  <1>4. d > 0 /\ d \in least..most
    <2> HIDE DEF d
    <2> QED
      BY <1>2, <1>3
  <1>5. q \in Nat /\ d * q <= RiskMoney
    <2>1. d * LotOunces = d
      BY <1>2 DEF LotOunces
    <2>2. q = RiskMoney \div d
      BY <2>1
    <2> HIDE DEF d, q
    <2> QED
      BY <1>2, <1>4, <2>2
  <1>6. lots \in Nat /\ lots <= q
    <2> HIDE DEF q
    <2>1. MaxLots \in Nat
      BY DEF MaxLots
    <2> DEFINE cap == MaxLots
    <2> HIDE DEF cap
    <2>2. \E x \in {q, cap} : \A y \in {q, cap} : x =< y
      BY <1>5, <2>1 DEF cap
    <2>3. Min({q, cap}) \in {q, cap} /\ \A y \in {q, cap} : Min({q, cap}) =< y
      BY <2>2, Zenon DEF Min
    <2>4. lots = Min({q, cap})
      BY DEF cap
    <2> HIDE DEF lots
    <2> QED
      BY <1>5, <2>1, <2>3, <2>4 DEF cap
  <1>7. d * lots <= d * q /\ d * lots \in Nat
    <2> HIDE DEF d, q, lots
    <2> QED
      BY <1>2, <1>5, <1>6
  <1>8. d * lots * LotOunces <= RiskMoney
    <2>1. d * lots * LotOunces = d * lots
      BY <1>7 DEF LotOunces
    <2>2. d * q \in Nat
      <3> HIDE DEF d, q
      <3> QED
        BY <1>2, <1>5
    <2> HIDE DEF d, q, lots
    <2> QED
      BY <1>2, <1>5, <1>7, <2>1, <2>2
  <1> HIDE DEF d, lots
  <1> QED
    BY <1>3, <1>4, <1>6, <1>8 DEF d

(* The lot and the target of a sized market order are numbers.             *)
Priced(o) == SizedMarket(o) => o.lots \in Nat /\ o.target \in Int

LEMMA OrderIsSound ==
    ASSUME NEW levels \in SUBSET Int, NEW prev \in Candles, prev.high >= prev.low,
           NEW match, match.level \in Int, NEW side \in Sides, NEW spread
    PROVE  /\ SoundOffer("LEGACY_LEVELS", OrderAt(levels, prev, match, side, spread))
           /\ Priced(OrderAt(levels, prev, match, side, spread))
  <1> DEFINE level == match.level
             stop == level - side * StopOffset
             target == TargetFrom(levels, level, side, stop)
             lots == LotSize(level, stop, spread, StopMinDistance, StopMaxDistance)
             inside == InsideBarEntry(levels, prev, level, side)
             order == OrderAt(levels, prev, match, side, spread)
  <1>1. stop \in Int /\ side * (level - stop) > 0
    BY DEF StopOffset, Sides
  <1>2. target \in Int /\ side * (target - level) > 0
    <2> HIDE DEF stop
    <2> QED
      BY <1>1, TargetIsBeyond
  <1>3. CASE match.pattern.kind = "INSIDE_BAR"
    <2>1. /\ order.side = side /\ order.kind = "STOP" /\ order.entry = inside.entry
          /\ order.stop = inside.stop /\ order.target = inside.target
      BY <1>3 DEF OrderAt, Offer, InsideBarEntry
    <2>2. /\ inside.entry \in Int /\ inside.stop \in Int
          /\ side * (inside.entry - inside.stop) > 0
          /\ inside.target = TargetFrom(levels, inside.entry, side, inside.stop)
      <3>1. CASE side = 1
        <4>1. inside.entry = prev.high + 100 /\ inside.stop = prev.low - StopMinDistance
          BY <3>1 DEF InsideBarEntry
        <4> QED
          BY <3>1, <4>1 DEF InsideBarEntry, Candles, StopMinDistance
      <3>2. CASE side = -1
        <4>1. inside.entry = prev.low - 100 /\ inside.stop = prev.high + StopMinDistance
          BY <3>2 DEF InsideBarEntry
        <4> QED
          BY <3>2, <4>1 DEF InsideBarEntry, Candles, StopMinDistance
      <3> QED
        BY <3>1, <3>2 DEF Sides
    <2>3. inside.target \in Int /\ side * (inside.target - inside.entry) > 0
      <3> HIDE DEF inside
      <3> QED
        BY <2>2, TargetIsBeyond
    <2> HIDE DEF inside
    <2> QED
      BY <2>1, <2>2, <2>3 DEF SoundOffer, SizedMarket, Priced
  <1>4. CASE match.pattern.kind # "INSIDE_BAR"
    <2>1. /\ order.side = side /\ order.entry = level /\ order.stop = stop
          /\ order.target = target /\ order.lots = lots
      BY <1>4 DEF OrderAt, Sized, Offer
    <2>2. lots > 0 =>
            /\ lots \in Nat
            /\ Distance(level, stop) * lots * LotOunces <= RiskMoney
            /\ Distance(level, stop) \in StopMinDistance..StopMaxDistance
      <3> DEFINE least == StopMinDistance
                 most == StopMaxDistance
      <3>1. least \in Int /\ most \in Int /\ 0 < least
        BY DEF StopMinDistance, StopMaxDistance
      <3> HIDE DEF stop, least, most
      <3>2. LotSize(level, stop, spread, least, most) > 0 =>
              /\ LotSize(level, stop, spread, least, most) \in Nat
              /\ Distance(level, stop) * LotSize(level, stop, spread, least, most)
                   * LotOunces <= RiskMoney
              /\ Distance(level, stop) \in least..most
        BY <1>1, <3>1, LotFitsRisk
      <3> QED
        BY <3>2 DEF least, most
    <2> HIDE DEF stop, target, lots
    <2> QED
      BY <1>1, <1>2, <2>1, <2>2
      DEF SoundOffer, SizedMarket, Loss, StopLimits, Priced
  <1> QED
    BY <1>3, <1>4

(* What the level strategy decides is sound, for any bars, any set of      *)
(* levels, any daily closes and any spread: the stop is on the losing and  *)
(* the target on the winning side of the entry decided on, which is the    *)
(* level for a market order, and one that is sized loses no more than the  *)
(* risk money from there, at a stop within the limits.  What the order     *)
(* opens at the market is PositionsAreSound.                               *)
THEOREM LevelOffersAreSound ==
    ASSUME NEW bars, NEW i, bars[i - 1] \in Candles, bars[i] \in Candles,
           bars[i - 1].high >= bars[i - 1].low,
           NEW daily, NEW levels \in SUBSET Int, NEW spread
    PROVE  /\ SoundOffer("LEGACY_LEVELS", LevelReaction(bars, i, daily, levels, spread))
           /\ Priced(LevelReaction(bars, i, daily, levels, spread))
  <1> DEFINE prev == bars[i - 1]
             near == Touched(levels, prev, bars[i])
             match == MatchLevel(levels, prev, bars[i])
             bias == AlignedBias(daily, Closes(SubSeq(bars, 1, i)))
  <1>1. SoundOffer("LEGACY_LEVELS", NoOffer) /\ Priced(NoOffer)
    BY DEF SoundOffer, SizedMarket, Priced, NoOffer, Offer, NoEntry
  <1>2. CASE near # {}
    <2>1. near \in SUBSET Int /\ near \subseteq levels
      BY DEF Touched
    <2>2. match.level \in Int
      <3>1. match = Strongest(prev, bars[i], near)
        BY DEF MatchLevel
      <3> HIDE DEF near, match
      <3> QED
        BY <1>2, <2>1, <3>1, StrongestIsAtLevel
    <2>3. bias \in Sides \cup {0}
      BY BiasType
    <2> HIDE DEF match, bias
    <2>4. Reaction(levels, prev, match, bias, spread)
            \in {NoOffer, OrderAt(levels, prev, match, bias, spread)}
          /\ (bias = 0 => Reaction(levels, prev, match, bias, spread) = NoOffer)
      BY DEF Reaction
    <2>5. bias \in Sides =>
            /\ SoundOffer("LEGACY_LEVELS", OrderAt(levels, prev, match, bias, spread))
            /\ Priced(OrderAt(levels, prev, match, bias, spread))
      BY <2>2, OrderIsSound
    <2>6. LevelReaction(bars, i, daily, levels, spread)
            = Reaction(levels, prev, match, bias, spread)
      BY <1>2 DEF LevelReaction, match, bias
    <2> QED
      BY <1>1, <2>3, <2>4, <2>5, <2>6
  <1>3. CASE near = {}
    BY <1>1, <1>3 DEF LevelReaction
  <1> QED
    BY <1>2, <1>3

(* A trailing stop only tightens, stays short of the price and, once       *)
(* moved, loses nothing: for any position and price, whatever the risk it  *)
(* reconstructs.                                                           *)
THEOREM TrailingIsSound ==
    ASSUME NEW p, p.side \in Sides, p.entry \in Int, p.stop \in Int, NEW price \in Int
    PROVE  SoundTrail(p, price)
  <1> DEFINE trailed == TrailedStop(p, price)
             stop == AmendedStop(p, price)
             risk == Distance(p.entry, p.stop)
  <1>1. risk \in Nat
    BY DEF Distance
  <1>2. trailed \in Int
        /\ (trailed # p.stop => p.side * (trailed - p.entry) >= 0)
    <2>1. \/ trailed = p.stop
          \/ trailed = p.entry
          \/ /\ trailed = price - p.side * risk
             /\ ~(p.side * (price - p.entry) < risk)
      BY DEF TrailedStop
    <2> HIDE DEF risk, trailed
    <2>2. CASE p.side = 1
      BY <1>1, <2>1, <2>2
    <2>3. CASE p.side = -1
      BY <1>1, <2>1, <2>3
    <2> QED
      BY <2>2, <2>3 DEF Sides
  <1>3. \/ stop = p.stop
        \/ /\ stop = trailed
           /\ ~(p.side * (trailed - p.stop) < 0)
           /\ ~(p.side * (price - trailed) <= 0)
    BY DEF AmendedStop
  <1>4. stop # p.stop => /\ p.side * (stop - p.stop) > 0
                         /\ p.side * (price - stop) > 0
                         /\ p.side * (stop - p.entry) >= 0
    <2> HIDE DEF trailed, stop
    <2>1. CASE p.side = 1
      BY <1>2, <1>3, <2>1
    <2>2. CASE p.side = -1
      BY <1>2, <1>3, <2>2
    <2> QED
      BY <2>1, <2>2 DEF Sides
  <1> QED
    BY <1>4, Zenon DEF SoundTrail

(* Evidence never supports both sides: on any bars and levels, a pattern   *)
(* that matches one side is a mismatch for the other.                      *)
THEOREM EvidenceIsOneSided ==
    ASSUME NEW levels, NEW bars, NEW now, NEW side \in Sides,
           PatternEvidence(levels, bars, now, side) = "PATTERN_MATCH"
    PROVE  PatternEvidence(levels, bars, now, -side) = "PATTERN_DIRECTION_MISMATCH"
  <1>1. \A pattern : Supports(pattern, side) = "PATTERN_MATCH" =>
          Supports(pattern, -side) = "PATTERN_DIRECTION_MISMATCH"
    BY DEF Supports, Sides
  <1> QED
    BY <1>1 DEF PatternEvidence, PatternCheck

-----------------------------------------------------------------------------
(* Recursion over 0..N, and what Max and Min return *)

(* Induction as a fact about sets of numbers.                              *)
LEMMA AllNaturals ==
    ASSUME NEW T, 0 \in T, \A n \in Nat : n \in T => n + 1 \in T
    PROVE  Nat \subseteq T
  <1> DEFINE S == Nat \ T
  <1> SUFFICES ASSUME S # {} PROVE FALSE
    OBVIOUS
  <1>1. PICK x \in S : \A y \in S : x <= y
    <2>1. S \subseteq Nat
      OBVIOUS
    <2> HIDE DEF S
    <2> QED
      BY <2>1, ALeastNatural
  <1>2. x # 0 /\ x - 1 \in Nat
    OBVIOUS
  <1>3. x - 1 \in T
    BY <1>1, <1>2
  <1> QED
    BY <1>2, <1>3

(* What a recursion over 0..N computes exists.                             *)
Computes(f, V, N, base, step) ==
    /\ f \in [0..N -> V] /\ f[0] = base
    /\ \A k \in 1..N : f[k] = step[k][f[k - 1]]

LEMMA ARecursion ==
    ASSUME NEW V, NEW N \in Nat, NEW base \in V, NEW step \in [1..N -> [V -> V]]
    PROVE  \E f : Computes(f, V, N, base, step)
  <1> DEFINE P(g, n) == /\ g \in [0..n -> V] /\ g[0] = base
                        /\ \A k \in 1..n : g[k] = step[k][g[k - 1]]
             T == { n \in Nat : n <= N => \E g : P(g, n) }
  <1>1. 0 \in T
    <2>1. P([k \in 0..0 |-> base], 0)
      OBVIOUS
    <2> QED
      BY <2>1
  <1>2. \A n \in Nat : n \in T => n + 1 \in T
    <2> SUFFICES ASSUME NEW n \in Nat, n \in T, n + 1 <= N
                 PROVE  \E g : P(g, n + 1)
      <3> HIDE DEF P
      <3> QED
        OBVIOUS
    <2>1. PICK g : P(g, n)
      OBVIOUS
    <2> DEFINE h == [k \in 0..n + 1 |->
                       IF k = n + 1 THEN step[n + 1][g[n]] ELSE g[k]]
    <2>2. step[n + 1][g[n]] \in V
      BY <2>1
    <2>3. h \in [0..n + 1 -> V]
      BY <2>1, <2>2
    <2>4. h[0] = base
      BY <2>1
    <2>5. ASSUME NEW k \in 1..n + 1 PROVE h[k] = step[k][h[k - 1]]
      <3>1. CASE k = n + 1
        <4>1. h[k] = step[n + 1][g[n]] /\ k - 1 = n /\ n \in 0..n + 1
          BY <3>1
        <4>2. h[n] = g[n]
          OBVIOUS
        <4> QED
          BY <3>1, <4>1, <4>2
      <3>2. CASE k # n + 1
        <4>1. k \in 1..n /\ h[k] = g[k] /\ h[k - 1] = g[k - 1]
          BY <3>2
        <4> QED
          BY <2>1, <4>1
      <3> QED
        BY <3>1, <3>2
    <2>6. P(h, n + 1)
      BY <2>3, <2>4, <2>5
    <2> QED
      BY <2>6
  <1>3. N \in T
    <2> HIDE DEF T
    <2> QED
      BY <1>1, <1>2, AllNaturals
  <1> QED
    BY <1>3 DEF Computes

LEMMA UpTo ==
    ASSUME NEW N \in Nat, NEW T, 0 \in T, \A k \in 1..N : k - 1 \in T => k \in T
    PROVE  \A k \in 0..N : k \in T
  <1> DEFINE S == { k \in Nat : k <= N => k \in T }
  <1>1. 0 \in S
    OBVIOUS
  <1>2. \A k \in Nat : k \in S => k + 1 \in S
    <2> SUFFICES ASSUME NEW k \in Nat, k \in S, k + 1 <= N PROVE k + 1 \in T
      OBVIOUS
    <2>1. k \in T /\ k + 1 \in 1..N /\ (k + 1) - 1 = k
      OBVIOUS
    <2> QED
      BY <2>1
  <1>3. Nat \subseteq S
    <2> HIDE DEF S
    <2> QED
      BY <1>1, <1>2, AllNaturals
  <1> QED
    BY <1>3

LEMMA TotalType ==
    ASSUME NEW s \in Seq(Int)
    PROVE  Total(s) \in Int
  <1> DEFINE N == Len(s)
             Is(f) == f = [k \in 0..N |-> IF k = 0 THEN 0 ELSE f[k - 1] + s[k]]
             total == CHOOSE f : Is(f)
  <1>1. Total(s) = total[N]
    BY DEF Total
  <1>2. \E f : Is(f)
    <2> DEFINE V == Int
               n == N
               zero == 0
               step == [k \in 1..n |-> [v \in V |-> v + s[k]]]
    <2>1. n \in Nat /\ zero \in V /\ step \in [1..n -> [V -> V]]
      OBVIOUS
    <2>2. \A k \in 1..n : \A v \in V : step[k][v] = v + s[k]
      OBVIOUS
    <2> HIDE DEF n, step, zero, V
    <2>3. PICK f : Computes(f, V, n, zero, step)
      BY <2>1, ARecursion
    <2>4. /\ f \in [0..n -> V] /\ f[0] = zero
          /\ \A k \in 1..n : f[k] = f[k - 1] + s[k]
      BY <2>1, <2>2, <2>3 DEF Computes
    <2>5. f = [k \in 0..n |-> IF k = 0 THEN 0 ELSE f[k - 1] + s[k]]
      BY <2>1, <2>4 DEF zero
    <2> QED
      BY <2>5 DEF n
  <1>3. Is(total)
    <2> HIDE DEF Is
    <2> QED
      BY <1>2
  <1> DEFINE T == { k \in 0..N : total[k] \in Int }
  <1>4. \A k \in 0..N : k \in T
    <2> HIDE DEF total
    <2>1. 0 \in T /\ \A k \in 1..N : k - 1 \in T => k \in T
      BY <1>3
    <2>2. N \in Nat
      OBVIOUS
    <2> HIDE DEF T, N
    <2> QED
      BY <2>1, <2>2, UpTo
  <1> QED
    BY <1>1, <1>4

LEMMA EmaType ==
    ASSUME NEW closes \in Seq(Int), NEW period \in Nat \ {0}
    PROVE  Ema(closes, period) \in Int
  <1> DEFINE N == Len(closes)
             base == Total(SubSeq(closes, 1, period)) \div period
             next(v, k) == (2 * closes[k] + (period - 1) * v) \div (period + 1)
             Is(f) == f = [k \in 0..N |-> IF k <= period THEN base
                                          ELSE next(f[k - 1], k)]
             ema == CHOOSE f : Is(f)
  <1>1. Ema(closes, period) = IF N < period THEN Unknown ELSE ema[N]
    BY DEF Ema
  <1> SUFFICES ASSUME N >= period PROVE ema[N] \in Int
    BY <1>1 DEF Unknown
  <1>2. base \in Int
    <2>1. SubSeq(closes, 1, period) \in Seq(Int)
      OBVIOUS
    <2>2. Total(SubSeq(closes, 1, period)) \in Int
      BY <2>1, TotalType
    <2> QED
      BY <2>2
  <1>3. \A v \in Int, k \in 1..N : next(v, k) \in Int
    <2> SUFFICES ASSUME NEW v \in Int, NEW k \in 1..N PROVE next(v, k) \in Int
      OBVIOUS
    <2>1. 2 * closes[k] \in Int /\ (period - 1) * v \in Int
      OBVIOUS
    <2> QED
      BY <2>1
  <1>4. N \in Nat
    OBVIOUS
  <1> HIDE DEF next, base
  <1>5. \E f : Is(f)
    <2> DEFINE V == Int
               n == N
               start == base
               step == [k \in 1..n |-> [v \in V |->
                          IF k <= period THEN base ELSE next(v, k)]]
    <2>1. n \in Nat /\ start \in V /\ step \in [1..n -> [V -> V]]
      <3>1. \A k \in 1..n : \A v \in V :
              (IF k <= period THEN base ELSE next(v, k)) \in V
        BY <1>2, <1>3
      <3> QED
        BY <1>2, <1>4, <3>1
    <2>2. \A k \in 1..n : \A v \in V :
            step[k][v] = IF k <= period THEN base ELSE next(v, k)
      OBVIOUS
    <2> HIDE DEF n, step, start, V
    <2>3. PICK f : Computes(f, V, n, start, step)
      BY <2>1, ARecursion
    <2>4. /\ f \in [0..n -> V] /\ f[0] = base
          /\ \A k \in 1..n : f[k] = IF k <= period THEN base ELSE next(f[k - 1], k)
      BY <2>1, <2>2, <2>3 DEF Computes, start
    <2>5. f = [k \in 0..n |-> IF k <= period THEN base ELSE next(f[k - 1], k)]
      BY <2>1, <2>4
    <2> QED
      BY <2>5 DEF n
  <1>6. Is(ema)
    <2> HIDE DEF Is
    <2> QED
      BY <1>5
  <1> DEFINE T == { k \in 0..N : ema[k] \in Int }
  <1>7. \A k \in 0..N : k \in T
    <2> HIDE DEF ema, N
    <2>a. \A k \in 0..N : ema[k] = IF k <= period THEN base ELSE next(ema[k - 1], k)
      BY <1>6
    <2>b. 0 <= period
      OBVIOUS
    <2>1. 0 \in T /\ \A k \in 1..N : k - 1 \in T => k \in T
      <3>1. 0 \in T
        BY <1>2, <1>4, <2>a, <2>b
      <3>2. ASSUME NEW k \in 1..N, k - 1 \in T PROVE k \in T
        <4>1. ema[k - 1] \in Int /\ k \in 0..N
          BY <1>4, <3>2
        <4>2. next(ema[k - 1], k) \in Int
          BY <1>3, <4>1
        <4>3. ema[k] \in Int
          BY <1>2, <2>a, <4>1, <4>2
        <4> QED
          BY <4>1, <4>3
      <3> QED
        BY <3>1, <3>2
    <2> HIDE DEF T
    <2> QED
      BY <1>4, <2>1, UpTo
  <1> QED
    BY <1>4, <1>7

(* The greatest and the least of some of finitely many numbers.            *)
LEMMA AnExtreme ==
    ASSUME NEW n \in Nat, NEW f \in [1..n -> Int], NEW S \in SUBSET (1..n), S # {}
    PROVE  \E x \in S : \A y \in S : f[y] <= f[x]
  <1> DEFINE Has(R) == R = {} \/ \E x \in R : \A y \in R : f[y] <= f[x]
             T == { k \in 0..n : Has(S \cap (1..k)) }
  <1>1. 0 \in T
    OBVIOUS
  <1>2. ASSUME NEW k \in 1..n, k - 1 \in T PROVE k \in T
    <2> DEFINE R == S \cap (1..k - 1)
    <2>1. S \cap (1..k) = IF k \in S THEN R \cup {k} ELSE R
      OBVIOUS
    <2>2. Has(R) /\ R \subseteq 1..n
      BY <1>2
    <2>3. Has(R \cup {k})
      <3>1. CASE R = {}
        <4>1. \A y \in R \cup {k} : f[y] <= f[k]
          BY <3>1
        <4> QED
          BY <4>1
      <3>2. CASE R # {}
        <4>1. PICK x \in R : \A y \in R : f[y] <= f[x]
          BY <2>2, <3>2
        <4>2. CASE f[k] <= f[x]
          <5>1. \A y \in R \cup {k} : f[y] <= f[x]
            BY <4>1, <4>2
          <5> QED
            BY <4>1, <5>1
        <4>3. CASE ~(f[k] <= f[x])
          <5>1. \A y \in R \cup {k} : f[y] <= f[k]
            BY <2>2, <4>1, <4>3
          <5> QED
            BY <5>1
        <4> QED
          BY <4>2, <4>3
      <3> QED
        BY <3>1, <3>2
    <2>4. Has(S \cap (1..k))
      <3> HIDE DEF Has, R
      <3> QED
        BY <2>1, <2>2, <2>3
    <2> QED
      BY <2>4
  <1>3. \A k \in 0..n : k \in T
    <2> HIDE DEF T
    <2> QED
      BY <1>1, <1>2, UpTo
  <1>4. n \in T
    <2> HIDE DEF T
    <2> QED
      BY <1>3
  <1>5. S \cap (1..n) = S
    OBVIOUS
  <1> QED
    BY <1>4, <1>5

LEMMA MaxIsOne ==
    ASSUME NEW n \in Nat, NEW f \in [1..n -> Int], NEW S \in SUBSET (1..n), S # {}
    PROVE  /\ Max({ f[k] : k \in S }) \in Int
           /\ Min({ f[k] : k \in S }) \in Int
  <1> DEFINE V == { f[k] : k \in S }
             g == [k \in 1..n |-> -f[k]]
  <1>1. V \subseteq Int
    OBVIOUS
  <1>2. \E v \in V : \A w \in V : v >= w
    <2>1. PICK x \in S : \A y \in S : f[y] <= f[x]
      BY AnExtreme
    <2> QED
      BY <2>1
  <1>3. \E v \in V : \A w \in V : v <= w
    <2>1. g \in [1..n -> Int]
      OBVIOUS
    <2>2. PICK x \in S : \A y \in S : g[y] <= g[x]
      <3> HIDE DEF g
      <3> QED
        BY <2>1, AnExtreme
    <2>3. \A y \in S : g[y] = -f[y] /\ f[y] \in Int
      OBVIOUS
    <2>4. \A y \in S : f[x] <= f[y]
      <3> HIDE DEF g
      <3> QED
        BY <2>2, <2>3
    <2> QED
      BY <2>4
  <1> HIDE DEF V
  <1>4. Max(V) \in V /\ Min(V) \in V
    BY <1>2, <1>3, Zenon DEF Max, Min
  <1> QED
    BY <1>1, <1>4 DEF V

LEMMA MaxOfTwo ==
    ASSUME NEW a \in Int, NEW b \in Int
    PROVE  /\ Max({a, b}) \in {a, b} /\ Max({a, b}) >= a /\ Max({a, b}) >= b
           /\ Min({a, b}) \in {a, b} /\ Min({a, b}) <= a /\ Min({a, b}) <= b
  <1>1. /\ \E x \in {a, b} : \A y \in {a, b} : x >= y
        /\ \E x \in {a, b} : \A y \in {a, b} : x =< y
    OBVIOUS
  <1>2. /\ Max({a, b}) \in {a, b} /\ \A y \in {a, b} : Max({a, b}) >= y
        /\ Min({a, b}) \in {a, b} /\ \A y \in {a, b} : Min({a, b}) =< y
    BY <1>1, Zenon DEF Max, Min
  <1> QED
    BY <1>2

LEMMA MaxOfThree ==
    ASSUME NEW a \in Int, NEW b \in Int, NEW c \in Int
    PROVE  Max({a, b, c}) \in Int /\ Max({a, b, c}) >= a
  <1>1. \E x \in {a, b, c} : \A y \in {a, b, c} : x >= y
    OBVIOUS
  <1>2. Max({a, b, c}) \in {a, b, c} /\ \A y \in {a, b, c} : Max({a, b, c}) >= y
    BY <1>1, Zenon DEF Max
  <1> QED
    BY <1>2

(* A window back from bar i begins at the first bar or later.              *)
LEMMA WindowStart ==
    ASSUME NEW i \in Int, NEW back \in Int
    PROVE  Max({1, i - back + 1}) \in Int /\ Max({1, i - back + 1}) >= 1
  <1> DEFINE one == 1
             begin == i - back + 1
  <1>1. one \in Int /\ begin \in Int
    OBVIOUS
  <1>2. Max({one, begin}) \in {one, begin} /\ Max({one, begin}) >= one
    <2> HIDE DEF one, begin
    <2> QED
      BY <1>1, MaxOfTwo
  <1> DEFINE first == Max({one, begin})
  <1>3. first \in Int /\ first >= 1
    <2> HIDE DEF begin, first
    <2>1. first \in {one, begin} /\ first >= one
      BY <1>2 DEF first
    <2> QED
      BY <1>1, <2>1
  <1> QED
    BY <1>3

LEMMA ClosesType ==
    ASSUME NEW bars \in Seq(Candles)
    PROVE  Closes(bars) \in Seq(Int)
  <1> DEFINE n == Len(bars)
             closes == [k \in 1..n |-> bars[k].close]
  <1>1. n \in Nat /\ Closes(bars) = closes
    BY DEF Closes
  <1>2. \A k \in 1..n : bars[k] \in Candles
    OBVIOUS
  <1>3. closes \in [1..n -> Int]
    BY <1>2 DEF Candles
  <1> HIDE DEF n, closes
  <1> QED
    BY <1>1, <1>3

LEMMA AtrType ==
    ASSUME NEW bars \in Seq(Candles)
    PROVE  Atr(bars) \in Int
  <1> DEFINE n == Len(bars)
             ranges == [k \in 1..AtrPeriod |-> TrueRange(bars, n - AtrPeriod + k)]
  <1>1. AtrPeriod \in Nat \ {0}
    BY ChartConfig
  <1>2. Atr(bars) = IF n < AtrPeriod + 1 THEN Unknown
                    ELSE Total(ranges) \div AtrPeriod
    BY DEF Atr
  <1> SUFFICES ASSUME ~(n < AtrPeriod + 1)
               PROVE  Total(ranges) \div AtrPeriod \in Int
    BY <1>2 DEF Unknown
  <1>3. ASSUME NEW k \in 2..n PROVE TrueRange(bars, k) \in Int
    <2>1. bars[k] \in Candles /\ bars[k - 1] \in Candles
      OBVIOUS
    <2> DEFINE a == Span(bars[k])
               b == Distance(bars[k].high, bars[k - 1].close)
               c == Distance(bars[k].low, bars[k - 1].close)
    <2>2. a \in Int /\ b \in Int /\ c \in Int
      <3>1. /\ bars[k].high \in Int /\ bars[k].low \in Int
            /\ bars[k - 1].close \in Int
        BY <2>1 DEF Candles
      <3> QED
        BY <3>1 DEF Span, Distance
    <2>3. TrueRange(bars, k) = Max({a, b, c})
      BY DEF TrueRange
    <2>4. Max({a, b, c}) \in Int
      <3> HIDE DEF a, b, c
      <3> QED
        BY <2>2, MaxOfThree
    <2> QED
      BY <2>3, <2>4
  <1>4. ranges \in Seq(Int)
    <2>1. n \in Nat
      OBVIOUS
    <2>2. \A k \in 1..AtrPeriod : n - AtrPeriod + k \in 2..n
      BY <1>1, <2>1
    <2>3. ranges \in [1..AtrPeriod -> Int]
      BY <1>3, <2>2
    <2> HIDE DEF ranges
    <2> QED
      BY <1>1, <2>3
  <1>5. Total(ranges) \in Int
    <2> HIDE DEF ranges
    <2> QED
      BY <1>4, TotalType
  <1> HIDE DEF ranges
  <1> QED
    BY <1>1, <1>5

LEMMA AnchorType ==
    ASSUME NEW bars \in Seq(Candles), NEW indices \in SUBSET (1..Len(bars)),
           indices # {}, NEW side
    PROVE  Anchor(bars, indices, side) \in Int
  <1> DEFINE n == Len(bars)
             lows == [k \in 1..n |-> bars[k].low]
             highs == [k \in 1..n |-> bars[k].high]
  <1>1. n \in Nat /\ lows \in [1..n -> Int] /\ highs \in [1..n -> Int]
    <2>1. n \in Nat /\ \A k \in 1..n : bars[k] \in Candles
      OBVIOUS
    <2>2. \A k \in 1..n : bars[k].low \in Int /\ bars[k].high \in Int
      <3> HIDE DEF n
      <3> QED
        BY <2>1 DEF Candles
    <2>3. lows \in [1..n -> Int]
      <3> HIDE DEF n
      <3> QED
        BY <2>2
    <2>4. highs \in [1..n -> Int]
      <3> HIDE DEF n
      <3> QED
        BY <2>2
    <2> QED
      BY <2>1, <2>3, <2>4
  <1>2. /\ { bars[k].low : k \in indices } = { lows[k] : k \in indices }
        /\ { bars[k].high : k \in indices } = { highs[k] : k \in indices }
    OBVIOUS
  <1>3. /\ Min({ lows[k] : k \in indices }) \in Int
        /\ Max({ highs[k] : k \in indices }) \in Int
    <2> HIDE DEF lows, highs, n
    <2>1. indices \in SUBSET (1..n)
      BY DEF n
    <2> QED
      BY <1>1, <2>1, MaxIsOne
  <1> QED
    BY <1>2, <1>3 DEF Anchor

(* A stop is on the losing side, and at least least away.                  *)
LEMMA StopIsBehind ==
    ASSUME NEW side \in Sides, NEW entry \in Int, NEW supports, NEW buffer \in Int,
           NEW least \in Int, Min(supports) \in Int, Max(supports) \in Int
    PROVE  LET stop == StopLoss(side, entry, supports, buffer, least)
           IN  stop \in Int /\ side * (entry - stop) >= least
  <1> DEFINE low == Min(supports) - buffer
             high == Max(supports) + buffer
  <1>1. low \in Int /\ high \in Int
    OBVIOUS
  <1>2. StopLoss(side, entry, supports, buffer, least)
          = IF side = 1 THEN Min({low, entry - least}) ELSE Max({high, entry + least})
    BY DEF StopLoss
  <1> HIDE DEF low, high
  <1> DEFINE below == entry - least
             above == entry + least
  <1>3. below \in Int /\ above \in Int
    OBVIOUS
  <1>4. /\ Min({low, below}) \in Int /\ Min({low, below}) <= below
        /\ Max({high, above}) \in Int /\ Max({high, above}) >= above
    <2> HIDE DEF below, above
    <2> QED
      BY <1>1, <1>3, MaxOfTwo
  <1> QED
    BY <1>2, <1>4 DEF Sides

(* A price as level, the stop on the losing side and the target on the     *)
(* winning one.                                                            *)
Sided(e) ==
    /\ e.level \in Int
    /\ e.side # 0 => /\ e.side \in Sides /\ e.entry \in Int /\ e.stop \in Int
                     /\ e.target \in Int
                     /\ e.side * (e.entry - e.stop) > 0
                     /\ e.side * (e.target - e.entry) > 0

LEMMA EntryIsSided ==
    ASSUME NEW side \in Sides, NEW level \in Int, NEW price \in Int,
           NEW stop \in Int, NEW reward \in Nat \ {0},
           side * (price - stop) >= 100
    PROVE  Sided(Entry(side, level, price, stop, reward))
  <1> DEFINE d == Distance(price, stop)
             gain == Percent(d, reward)
             e == Entry(side, level, price, stop, reward)
  <1>1. d \in Int /\ d >= 100
    BY DEF Distance, Sides
  <1>2. gain \in Int /\ gain > 0
    <2>1. gain = (d * reward) \div 100
      BY DEF Percent
    <2> HIDE DEF d, gain
    <2>2. d * reward \in Int /\ d * reward >= d
      BY <1>1
    <2> QED
      BY <1>1, <2>1, <2>2
  <1>3. /\ e.side = side /\ e.entry = price /\ e.stop = stop
        /\ e.target = price + side * gain /\ e.level = level
    BY DEF Entry
  <1> HIDE DEF d, gain, e
  <1>4. /\ side * (price - stop) > 0
        /\ side * ((price + side * gain) - price) > 0
        /\ price + side * gain \in Int
    BY <1>2 DEF Sides
  <1>5. Sided(e)
    BY <1>3, <1>4 DEF Sided
  <1> QED
    BY <1>5 DEF e

(* The pullback strategy's stop and target, on any bars.                   *)
LEMMA PullbackIsSided ==
    ASSUME NEW bars \in Seq(Candles), NEW i \in Int, NEW daily, NEW price \in Int,
           NEW spread \in Int
    PROVE  Sided(EmaPullback(bars, i, daily, price, spread))
  <1> DEFINE past == SubSeq(bars, 1, i)
             closes == Closes(past)
             side == AlignedBias(daily, closes)
             fast == Ema(closes, ExecFast)
             slow == Ema(closes, ExecSlow)
             atr == Atr(past)
             zone == Max({PullbackProximity, Percent(atr, PullbackAtr)})
             run == PullbackRun(bars, i, fast, zone)
             clusters == BrokenClusters(bars, i, side, atr, fast, zone)
             buffer == Max({BufferMin, Percent(atr, BufferAtr), 3 * spread})
             entry(indices) ==
                 Entry(side, fast, price,
                       StopLoss(side, price, {Anchor(bars, indices, side), slow},
                                buffer, StopTotalMin),
                       PullbackReward)
             e == EmaPullback(bars, i, daily, price, spread)
  <1>0. Sided(NoEntry)
    BY DEF Sided, NoEntry
  <1>1. \/ e = NoEntry
        \/ /\ ~(i < 2 \/ i > Len(bars)) /\ side # 0
           /\ \/ run # {} /\ e = entry(run)
              \/ clusters # {} /\ e = entry((i - Min(clusters))..(i - 1))
    BY Zenon DEF EmaPullback
  <1> SUFFICES ASSUME e # NoEntry PROVE Sided(e)
    BY <1>0, Zenon
  <1>a. /\ i >= 2 /\ i <= Len(bars) /\ Len(bars) \in Nat
        /\ side # 0
        /\ \/ run # {} /\ e = entry(run)
           \/ clusters # {} /\ e = entry((i - Min(clusters))..(i - 1))
    <2>1. Len(bars) \in Nat
      OBVIOUS
    <2> HIDE DEF e, entry, run, clusters, side
    <2> QED
      BY <1>1, <2>1
  <1>2. side \in Sides
    <2>1. side \in Sides \cup {0}
      BY BiasType
    <2>2. side # 0
      BY <1>a, Zenon
    <2> HIDE DEF side, e, run, clusters, entry
    <2> QED
      BY <2>1, <2>2, Zenon
  <1>3. past \in Seq(Candles) /\ closes \in Seq(Int)
    <2>a. i >= 2 /\ i <= Len(bars)
      BY <1>a, Zenon
    <2>1. past \in Seq(Candles)
      BY <2>a
    <2> HIDE DEF past
    <2> QED
      BY <2>1, ClosesType
  <1>4. fast \in Int /\ slow \in Int /\ atr \in Int
    <2>1. ExecFast \in Nat \ {0} /\ ExecSlow \in Nat \ {0}
      BY ChartConfig
    <2> HIDE DEF past, closes
    <2> QED
      BY <1>3, <2>1, EmaType, AtrType
  <1>5. buffer \in Int
    <2> DEFINE a == BufferMin
               b == Percent(atr, BufferAtr)
               c == 3 * spread
    <2>1. a \in Int /\ b \in Int /\ c \in Int
      <3> HIDE DEF atr
      <3> QED
        BY <1>4 DEF BufferMin, BufferAtr, Percent
    <2>2. Max({a, b, c}) \in Int
      <3> HIDE DEF a, b, c
      <3> QED
        BY <2>1, MaxOfThree
    <2> QED
      BY <2>2
  <1>6. ASSUME NEW indices \in SUBSET (1..Len(bars)), indices # {}
        PROVE  Sided(entry(indices))
    <2> DEFINE anchor == Anchor(bars, indices, side)
               least == StopTotalMin
               reward == PullbackReward
               stop == StopLoss(side, price, {anchor, slow}, buffer, least)
    <2>1. anchor \in Int
      <3> HIDE DEF side
      <3> QED
        BY <1>6, AnchorType
    <2>2. least \in Int /\ least >= 100 /\ reward \in Nat \ {0}
      BY DEF StopTotalMin, PullbackReward
    <2> HIDE DEF anchor, least, reward, slow, buffer, side
    <2>3. Min({anchor, slow}) \in Int /\ Max({anchor, slow}) \in Int
      BY <1>4, <2>1, MaxOfTwo
    <2>4. stop \in Int /\ side * (price - stop) >= least
      <3> DEFINE supports == {anchor, slow}
      <3>1. Min(supports) \in Int /\ Max(supports) \in Int
        BY <2>3
      <3> HIDE DEF supports
      <3>2. LET away == StopLoss(side, price, supports, buffer, least)
            IN  away \in Int /\ side * (price - away) >= least
        BY <1>2, <1>5, <2>2, <3>1, StopIsBehind
      <3> QED
        BY <3>2 DEF supports
    <2> HIDE DEF stop, fast
    <2>5. Sided(Entry(side, fast, price, stop, reward))
      <3>1. side * (price - stop) >= 100
        BY <1>2, <2>2, <2>4 DEF Sides
      <3> QED
        BY <1>2, <1>4, <2>2, <2>4, <3>1, EntryIsSided
    <2> QED
      BY <2>5 DEF stop, anchor, least, reward
  <1>7. run \subseteq 1..Len(bars)
    <2> DEFINE first == Max({1, i - PullbackLookback + 1})
    <2>a. PullbackLookback \in Int
      BY DEF PullbackLookback
    <2>1. first \in Int /\ first >= 1
      BY <2>a, WindowStart
    <2>2. run \subseteq first..i
      BY DEF PullbackRun
    <2> HIDE DEF run, first
    <2> QED
      BY <1>a, <2>1, <2>2
  <1>8. ASSUME clusters # {}
        PROVE  LET m == Min(clusters)
               IN  (i - m)..(i - 1) \subseteq 1..Len(bars) /\ (i - m)..(i - 1) # {}
    <2>1. clusters \subseteq { n \in Nat : n >= 1 /\ i - n >= 2 }
      BY DEF BrokenClusters, ClusterMin, ClusterMax
    <2> HIDE DEF clusters
    <2>2. \E x \in clusters : \A y \in clusters : x <= y
      <3>1. clusters \subseteq Nat
        BY <2>1
      <3> QED
        BY <1>8, <3>1, ALeastNatural
    <2>3. Min(clusters) \in clusters
      BY <2>2, Zenon DEF Min
    <2> DEFINE m == Min(clusters)
    <2>4. m \in Nat /\ m >= 1 /\ i - m >= 2
      BY <2>1, <2>3
    <2> HIDE DEF m
    <2>5. (i - m)..(i - 1) \subseteq 1..Len(bars) /\ i - 1 \in (i - m)..(i - 1)
      BY <1>a, <2>4
    <2> QED
      BY <2>5 DEF m
  <1> HIDE DEF run, clusters, entry, e
  <1> QED
    BY <1>a, <1>6, <1>7, <1>8

(* The scalper's stop and target, on any bars and under any policy that    *)
(* asks for some reward.                                                   *)
LEMMA ScalpIsSided ==
    ASSUME NEW bars \in Seq(Candles), NEW i \in Int, NEW daily, NEW hours,
           NEW price \in Int, NEW spread \in Int, NEW macro, NEW policy,
           policy.reward \in Nat \ {0}
    PROVE  Sided(Scalp(bars, i, daily, hours, price, spread, macro, policy))
  <1> DEFINE past == SubSeq(bars, 1, i)
             closes == Closes(past)
             side == ScalpSide(daily, hours, macro)
             fast == Ema(closes, ScalpFast)
             slow == Ema(closes, ScalpSlow)
             atr == Atr(past)
             zone == Max({ScalpTouch, Percent(Percent(atr, ScalpPullbackAtr),
                                              policy.width)})
             window == Max({1, i - ScalpLookback + 1})..i
             touched == { k \in window : \/ Touches(bars[k], fast, zone)
                                         \/ Touches(bars[k], slow, zone) }
             buffer == Max({ScalpBufferMin, Percent(atr, ScalpBufferAtr), 2 * spread})
             anchor == Anchor(bars, touched, side)
             wide == StopLoss(side, price, {anchor}, buffer, ScalpStopMin)
             stop == IF Distance(price, wide) > ScalpStopMax
                     THEN price - side * ScalpStopMax ELSE wide
             reward == Percent(ScalpReward, policy.reward)
             e == Scalp(bars, i, daily, hours, price, spread, macro, policy)
  <1>0. Sided(NoEntry)
    BY DEF Sided, NoEntry
  <1>1. \/ e = NoEntry
        \/ /\ ~(i < 2 \/ i > Len(bars)) /\ side # 0 /\ touched # {}
           /\ e = Entry(side, fast, price, stop, reward)
    BY Zenon DEF Scalp
  <1> SUFFICES ASSUME e # NoEntry PROVE Sided(e)
    BY <1>0, Zenon
  <1>2. /\ i >= 2 /\ i <= Len(bars) /\ Len(bars) \in Nat
        /\ side # 0 /\ touched # {}
        /\ e = Entry(side, fast, price, stop, reward)
    <2>1. Len(bars) \in Nat
      OBVIOUS
    <2> HIDE DEF e, touched, side, stop, reward
    <2> QED
      BY <1>1, <2>1
  <1>3. side \in Sides
    <2>1. side \in Sides \cup {0}
      <3>1. \A x : Sign(x) \in Sides \cup {0}
        BY DEF Sign, Sides
      <3> QED
        BY <3>1 DEF ScalpSide, Slope
    <2> HIDE DEF side, e, touched, stop, reward
    <2> QED
      BY <1>2, <2>1
  <1>4. fast \in Int /\ atr \in Int
    <2>1. past \in Seq(Candles)
      BY <1>2
    <2>2. ScalpFast \in Nat \ {0}
      BY ChartConfig
    <2> HIDE DEF past
    <2>3. closes \in Seq(Int)
      BY <2>1, ClosesType
    <2> HIDE DEF closes
    <2> QED
      BY <2>1, <2>2, <2>3, AtrType, EmaType
  <1>5. buffer \in Int
    <2> DEFINE a == ScalpBufferMin
               b == Percent(atr, ScalpBufferAtr)
               c == 2 * spread
    <2>1. a \in Int /\ b \in Int /\ c \in Int
      <3> HIDE DEF atr
      <3> QED
        BY <1>4 DEF ScalpBufferMin, ScalpBufferAtr, Percent
    <2>2. Max({a, b, c}) \in Int
      <3> HIDE DEF a, b, c
      <3> QED
        BY <2>1, MaxOfThree
    <2> QED
      BY <2>2
  <1>6. touched \subseteq 1..Len(bars)
    <2> DEFINE first == Max({1, i - ScalpLookback + 1})
    <2>a. ScalpLookback \in Int
      BY DEF ScalpLookback
    <2>1. first \in Int /\ first >= 1
      BY <2>a, WindowStart
    <2>2. touched \subseteq first..i
      OBVIOUS
    <2> HIDE DEF touched, first
    <2> QED
      BY <1>2, <2>1, <2>2
  <1>7. anchor \in Int
    <2> HIDE DEF touched, side
    <2> QED
      BY <1>2, <1>6, AnchorType
  <1> DEFINE least == ScalpStopMin
  <1>8. least \in Int /\ least >= 100
    BY DEF ScalpStopMin
  <1>9. wide \in Int /\ side * (price - wide) >= least
    <2> DEFINE supports == {anchor}
    <2> HIDE DEF anchor, buffer, side, least
    <2>1. Min(supports) \in Int /\ Max(supports) \in Int
      <3>1. supports = {anchor, anchor}
        OBVIOUS
      <3> QED
        BY <1>7, <3>1, MaxOfTwo
    <2> HIDE DEF supports
    <2>2. LET away == StopLoss(side, price, supports, buffer, least)
          IN  away \in Int /\ side * (price - away) >= least
      BY <1>3, <1>5, <1>8, <2>1, StopIsBehind
    <2> QED
      BY <2>2 DEF supports, least
  <1>10. stop \in Int /\ side * (price - stop) >= 100
    <2> HIDE DEF wide, side
    <2>1. \/ stop = wide
          \/ stop = price - side * ScalpStopMax
      OBVIOUS
    <2> HIDE DEF stop, least
    <2> QED
      BY <1>3, <1>8, <1>9, <2>1 DEF Sides, ScalpStopMax
  <1>11. reward \in Nat \ {0}
    BY DEF Percent, ScalpReward
  <1> HIDE DEF side, fast, stop, reward, e
  <1> QED
    BY <1>2, <1>3, <1>4, <1>10, <1>11, EntryIsSided

(* A sized order of a sided entry is sound.                                *)
LEMMA SizedIsSound ==
    ASSUME NEW e, Sided(e), NEW spread, NEW mode, NEW least \in Int, NEW most \in Int,
           0 < least, least..most = StopLimits(mode)
    PROVE  SoundOffer(mode, Sized(e, spread, least, most))
           /\ Priced(Sized(e, spread, least, most))
  <1> DEFINE lots == LotSize(e.entry, e.stop, spread, least, most)
             o == Sized(e, spread, least, most)
  <1>1. /\ o.side = e.side /\ o.entry = e.entry /\ o.stop = e.stop
        /\ o.target = e.target /\ o.lots = lots /\ o.kind = "MARKET"
    BY DEF Sized, Offer
  <1> SUFFICES ASSUME e.side # 0 PROVE SoundOffer(mode, o) /\ Priced(o)
    BY <1>1 DEF SoundOffer, SizedMarket, Priced
  <1>2. /\ e.entry \in Int /\ e.stop \in Int /\ e.side \in Sides /\ e.target \in Int
        /\ e.side * (e.entry - e.stop) > 0 /\ e.side * (e.target - e.entry) > 0
    BY DEF Sided
  <1>3. lots > 0 => /\ Distance(e.entry, e.stop) * lots * LotOunces <= RiskMoney
                    /\ Distance(e.entry, e.stop) \in least..most
                    /\ lots \in Nat
    BY <1>2, LotFitsRisk
  <1> HIDE DEF lots, o
  <1>4. SizedMarket(o) => Loss(o) <= RiskMoney /\ Distance(o.entry, o.stop) \in StopLimits(mode)
    BY <1>1, <1>3 DEF SizedMarket, Loss
  <1> QED
    BY <1>1, <1>2, <1>3, <1>4, Zenon DEF SoundOffer, SizedMarket, Priced

-----------------------------------------------------------------------------
(* Levels *)

(* Sequences in ascending order, and those of levels far enough apart.     *)
Ascending(s) == \A j, k \in 1..Len(s) : j <= k => s[j] <= s[k]
Gaps(s) == \A k \in 2..Len(s) : s[k] - s[k - 1] > DedupDistance
Ascendants == { s \in Seq(Int) : Ascending(s) }

LEMMA InsertedType ==
    ASSUME NEW s \in Ascendants, NEW x \in Int
    PROVE  Inserted(s, x) \in Ascendants /\ Len(Inserted(s, x)) = Len(s) + 1
  <1> DEFINE n == Len(s)
             S == { k \in DOMAIN s : s[k] <= x }
  <1>1. n \in Nat /\ s \in [1..n -> Int] /\ S \subseteq 1..n
        /\ \A j, k \in 1..n : j <= k => s[j] <= s[k]
    BY DEF Ascendants, Ascending
  <1>2. PICK m \in 0..n : S = 1..m
    <2>1. CASE S = {}
      <3>1. S = 1..0 /\ 0 \in 0..n
        BY <1>1, <2>1
      <3> QED
        BY <3>1
    <2>2. CASE S # {}
      <3> DEFINE id == [k \in 1..n |-> k]
      <3>1. id \in [1..n -> Int]
        OBVIOUS
      <3>2. PICK m \in S : \A k \in S : id[k] <= id[m]
        <4> HIDE DEF id, S, n
        <4>1. S \in SUBSET (1..n)
          BY <1>1
        <4> QED
          BY <1>1, <2>2, <3>1, <4>1, AnExtreme
      <3>3. \A k \in S : k <= m
        BY <1>1, <3>2
      <3>4. m \in 1..n /\ s[m] <= x
        BY <1>1
      <3>5. \A k \in 1..m : k \in S
        <4> SUFFICES ASSUME NEW k \in 1..m PROVE k \in S
          OBVIOUS
        <4>1. k \in 1..n /\ k <= m
          BY <1>1, <3>4
        <4>2. s[k] <= s[m] /\ s[k] \in Int /\ s[m] \in Int
          BY <1>1, <3>4, <4>1
        <4>3. k \in DOMAIN s /\ s[k] <= x
          BY <1>1, <3>4, <4>1, <4>2
        <4> QED
          BY <4>3
      <3>6. S = 1..m
        BY <1>1, <3>3, <3>4, <3>5
      <3> QED
        BY <3>4, <3>6
    <2> QED
      BY <2>1, <2>2
  <1>3. Cardinality(S) = m
    <2> DEFINE one == 1
    <2>1. one \in Int /\ m \in Int /\ one <= m + 1
      BY <1>1
    <2> HIDE DEF one
    <2>2. Cardinality(one..m) = IF one > m THEN 0 ELSE m - one + 1
      BY <2>1, FS_Interval
    <2> HIDE DEF S
    <2> QED
      BY <1>1, <1>2, <2>2 DEF one
  <1> DEFINE a == SubSeq(s, 1, m)
             c == SubSeq(s, m + 1, n)
             r == Inserted(s, x)
  <1>4. r = a \o <<x>> \o c
    <2>1. r = SubSeq(s, 1, (Cardinality(S) + 1) - 1) \o <<x>>
                \o SubSeq(s, Cardinality(S) + 1, n)
      BY Zenon DEF Inserted, InsertAt
    <2>2. (Cardinality(S) + 1) - 1 = m /\ Cardinality(S) + 1 = m + 1
      <3> HIDE DEF S
      <3> QED
        BY <1>1, <1>3
    <2> HIDE DEF r, S
    <2> QED
      BY <2>1, <2>2, Zenon
  <1>5. /\ a \in Seq(Int) /\ Len(a) = m /\ \A k \in 1..m : a[k] = s[k]
        /\ c \in Seq(Int) /\ Len(c) = n - m
        /\ \A k \in 1..n - m : c[k] = s[m + k]
    <2>0. s \in Seq(Int) /\ n \in Nat /\ m \in 0..n
      BY <1>1
    <2>1. a \in Seq(Int) /\ Len(a) = m /\ \A k \in 1..m : a[k] = s[k]
      <3> HIDE DEF S, r, c
      <3> QED
        BY <2>0
    <2>2. c \in Seq(Int) /\ Len(c) = n - m
          /\ \A k \in 1..n - m : c[k] = s[m + k]
      <3> HIDE DEF S, r, a
      <3>1. c \in Seq(Int) /\ Len(c) = n - m
        BY <2>0
      <3>2. ASSUME NEW k \in 1..n - m PROVE c[k] = s[m + k]
        <4>1. c[k] = s[(m + 1) + k - 1]
          BY <2>0
        <4>2. (m + 1) + k - 1 = m + k
          BY <2>0
        <4> QED
          BY <4>1, <4>2
      <3> QED
        BY <3>1, <3>2
    <2> QED
      BY <2>1, <2>2
  <1>6. /\ r \in Seq(Int) /\ Len(r) = n + 1
        /\ \A k \in 1..n + 1 : r[k] = IF k <= m THEN s[k]
                                      ELSE IF k = m + 1 THEN x ELSE s[k - 1]
    <2> HIDE DEF a, c, r, S
    <2>1. /\ a \o <<x>> \in Seq(Int) /\ Len(a \o <<x>>) = m + 1
          /\ \A k \in 1..m + 1 : (a \o <<x>>)[k] = IF k <= m THEN s[k] ELSE x
      BY <1>1, <1>5
    <2> DEFINE b == a \o <<x>>
    <2> HIDE DEF b
    <2>2. b \in Seq(Int) /\ Len(b) = m + 1
          /\ \A k \in 1..m + 1 : b[k] = IF k <= m THEN s[k] ELSE x
      BY <2>1 DEF b
    <2>3. r = b \o c
      BY <1>4 DEF b
    <2>4. r \in Seq(Int) /\ Len(r) = n + 1
      BY <1>1, <1>5, <2>2, <2>3
    <2>5. ASSUME NEW k \in 1..n + 1
          PROVE  r[k] = IF k <= m THEN s[k] ELSE IF k = m + 1 THEN x ELSE s[k - 1]
      <3>1. CASE k <= m + 1
        <4>1. k \in 1..m + 1 /\ r[k] = b[k]
          BY <1>1, <1>5, <2>2, <2>3, <3>1
        <4> QED
          BY <1>1, <2>2, <3>1, <4>1
      <3>2. CASE k > m + 1
        <4> DEFINE j == k - (m + 1)
        <4>1. r[k] = c[j] /\ j \in 1..n - m
          BY <1>1, <1>5, <2>2, <2>3, <3>2
        <4>2. m + j = k - 1
          BY <1>1
        <4> HIDE DEF j
        <4>3. c[j] = s[k - 1]
          BY <1>5, <4>1, <4>2
        <4>4. ~(k <= m) /\ k # m + 1
          BY <1>1, <3>2
        <4> QED
          BY <4>1, <4>3, <4>4
      <3> QED
        BY <1>1, <3>1, <3>2
    <2> QED
      BY <2>4, <2>5
  <1>7. Ascending(r)
    <2>1. \A k \in 1..n : k <= m <=> s[k] <= x
      BY <1>1, <1>2
    <2> HIDE DEF r, S
    <2> SUFFICES ASSUME NEW j \in 1..n + 1, NEW k \in 1..n + 1, j <= k
                 PROVE  r[j] <= r[k]
      BY <1>6 DEF Ascending
    <2>2. /\ r[j] = IF j <= m THEN s[j] ELSE IF j = m + 1 THEN x ELSE s[j - 1]
          /\ r[k] = IF k <= m THEN s[k] ELSE IF k = m + 1 THEN x ELSE s[k - 1]
      BY <1>6
    <2>3. \A i \in 1..n : s[i] \in Int
      BY <1>1
    <2>4. CASE k <= m
      <3>1. j \in 1..n /\ k \in 1..n /\ r[j] = s[j] /\ r[k] = s[k]
        BY <1>1, <2>2, <2>4
      <3> QED
        BY <1>1, <3>1
    <2>5. CASE k = m + 1
      <3>1. CASE j <= m
        <4>1. j \in 1..n /\ r[j] = s[j] /\ r[k] = x
          BY <1>1, <2>2, <2>5, <3>1
        <4> QED
          BY <2>1, <3>1, <4>1
      <3>2. CASE j = m + 1
        BY <2>2, <2>5, <3>2
      <3> QED
        BY <1>1, <2>5, <3>1, <3>2
    <2>6. CASE k > m + 1
      <3>1. k - 1 \in 1..n /\ r[k] = s[k - 1] /\ ~(k - 1 <= m)
        BY <1>1, <2>2, <2>6
      <3>2. x < s[k - 1]
        BY <2>1, <2>3, <3>1
      <3>3. CASE j <= m
        <4>1. j \in 1..n /\ r[j] = s[j] /\ j <= k - 1
          BY <1>1, <2>2, <3>3, <2>6
        <4> QED
          BY <1>1, <3>1, <4>1
      <3>4. CASE j = m + 1
        <4>1. r[j] = x
          BY <2>2, <3>4
        <4> QED
          BY <2>3, <3>1, <3>2, <4>1
      <3>5. CASE j > m + 1
        <4>1. j - 1 \in 1..n /\ r[j] = s[j - 1] /\ j - 1 <= k - 1
          BY <1>1, <2>2, <3>5
        <4> QED
          BY <1>1, <3>1, <4>1
      <3> QED
        BY <1>1, <3>3, <3>4, <3>5
    <2> QED
      BY <1>1, <2>4, <2>5, <2>6
  <1> QED
    BY <1>6, <1>7 DEF Ascendants

LEMMA SortedType ==
    ASSUME NEW s \in Seq(Int)
    PROVE  Sorted(s) \in Ascendants /\ Len(Sorted(s)) = Len(s)
  <1> DEFINE N == Len(s)
             Is(f) == f = [k \in 0..N |->
                             IF k = 0 THEN << >> ELSE Inserted(f[k - 1], s[k])]
             sorted == CHOOSE f : Is(f)
  <1>1. Sorted(s) = sorted[N]
    BY DEF Sorted
  <1>2. N \in Nat /\ << >> \in Ascendants
        /\ \A k \in 1..N : s[k] \in Int
    BY DEF Ascendants, Ascending
  <1>3. \E f : Is(f)
    <2> DEFINE V == Ascendants
               n == N
               none == << >>
               step == [k \in 1..n |-> [v \in V |-> Inserted(v, s[k])]]
    <2>1. n \in Nat /\ none \in V /\ step \in [1..n -> [V -> V]]
      BY <1>2, InsertedType
    <2>2. \A k \in 1..n : \A v \in V : step[k][v] = Inserted(v, s[k])
      OBVIOUS
    <2> HIDE DEF n, step, none, V
    <2>3. PICK f : Computes(f, V, n, none, step)
      BY <2>1, ARecursion
    <2>4. /\ f \in [0..n -> V] /\ f[0] = none
          /\ \A k \in 1..n : f[k] = Inserted(f[k - 1], s[k])
      BY <2>1, <2>2, <2>3 DEF Computes
    <2>5. f = [k \in 0..n |-> IF k = 0 THEN << >> ELSE Inserted(f[k - 1], s[k])]
      BY <2>1, <2>4 DEF none
    <2> QED
      BY <2>5 DEF n
  <1>4. Is(sorted)
    <2> HIDE DEF Is
    <2> QED
      BY <1>3
  <1> DEFINE T == { k \in 0..N : sorted[k] \in Ascendants /\ Len(sorted[k]) = k }
  <1>5. \A k \in 0..N : k \in T
    <2> HIDE DEF sorted
    <2>1. 0 \in T
      BY <1>2, <1>4
    <2>2. ASSUME NEW k \in 1..N, k - 1 \in T PROVE k \in T
      <3>1. sorted[k] = Inserted(sorted[k - 1], s[k]) /\ k \in 0..N
        <4>1. \A i \in 0..N : sorted[i] = IF i = 0 THEN << >>
                                         ELSE Inserted(sorted[i - 1], s[i])
          BY <1>4
        <4>2. k \in 0..N /\ k # 0
          BY <1>2
        <4> QED
          BY <4>1, <4>2
      <3>2. sorted[k - 1] \in Ascendants /\ Len(sorted[k - 1]) = k - 1
        BY <2>2
      <3>3. sorted[k] \in Ascendants /\ Len(sorted[k]) = (k - 1) + 1
        BY <1>2, <3>1, <3>2, InsertedType
      <3> QED
        BY <3>1, <3>3
    <2> HIDE DEF T, N
    <2> QED
      BY <1>2, <2>1, <2>2, UpTo
  <1> QED
    BY <1>1, <1>2, <1>5

(* A pass keeps the order; it shortens what is not far enough apart and    *)
(* leaves the rest as it is.                                               *)
LEMMA MergeOnceType ==
    ASSUME NEW s \in Ascendants
    PROVE  /\ MergeOnce(s) \in Ascendants
           /\ \/ MergeOnce(s) = s /\ Gaps(s)
              \/ Len(MergeOnce(s)) < Len(s) /\ ~Gaps(s)
  <1> DEFINE n == Len(s)
             m == n + 1
             joins(v, k) == k \in 2..n /\ ~v /\ s[k] - s[k - 1] <= DedupDistance
             Is(f) == f = [k \in 0..m |-> joins(f[k - 1], k)]
             skipped == CHOOSE f : Is(f)
             level(k) == IF skipped[k + 1] THEN (s[k] + s[k + 1]) \div 2 ELSE s[k]
             next(v, k) == IF skipped[k] THEN v ELSE Append(v, level(k))
             Iz(f) == f = [k \in 0..n |-> IF k = 0 THEN << >> ELSE next(f[k - 1], k)]
             merged == CHOOSE f : Iz(f)
  <1>1. MergeOnce(s) = merged[n]
    BY Zenon DEF MergeOnce
  <1>2. /\ n \in Nat /\ m \in Nat /\ \A k \in 1..n : s[k] \in Int
        /\ \A j, k \in 1..n : j <= k => s[j] <= s[k]
    BY DEF Ascendants, Ascending
  <1>3. Is(skipped)
    <2>1. \E f : Is(f)
      <3> DEFINE V == BOOLEAN
                 none == FALSE
                 step == [k \in 1..m |-> [v \in V |-> joins(v, k)]]
      <3>1. m \in Nat /\ none \in V /\ step \in [1..m -> [V -> V]]
        BY <1>2
      <3>2. \A k \in 1..m : \A v \in V : step[k][v] = joins(v, k)
        OBVIOUS
      <3>3. \A v : joins(v, 0) = none
        BY <1>2
      <3> HIDE DEF n, m, step, none, V, joins
      <3>4. PICK f : Computes(f, V, m, none, step)
        BY <3>1, ARecursion
      <3>5. /\ f \in [0..m -> V] /\ f[0] = none
            /\ \A k \in 1..m : f[k] = joins(f[k - 1], k)
        BY <3>1, <3>2, <3>4 DEF Computes
      <3>6. \A k \in 0..m : f[k] = joins(f[k - 1], k)
        <4> SUFFICES ASSUME NEW k \in 0..m PROVE f[k] = joins(f[k - 1], k)
          OBVIOUS
        <4>1. CASE k = 0
          BY <3>3, <3>5, <4>1, Zenon
        <4>2. CASE k # 0
          <5>1. k \in 1..m
            BY <3>1, <4>2
          <5> QED
            BY <3>5, <5>1
        <4> QED
          BY <4>1, <4>2
      <3>7. f = [k \in 0..m |-> joins(f[k - 1], k)]
        BY <3>5, <3>6, Zenon
      <3> QED
        BY <3>7
    <2> HIDE DEF Is
    <2> QED
      BY <2>1
  <1>4. \A k \in 0..m : skipped[k] \in BOOLEAN /\ skipped[k] = joins(skipped[k - 1], k)
    <2> HIDE DEF skipped, m, n
    <2>1. \A k \in 0..m : skipped[k] = joins(skipped[k - 1], k)
      BY <1>3, Zenon
    <2> QED
      BY <2>1, Zenon
  <1>5. \A k \in 1..n : k \in 0..m /\ k + 1 \in 0..m /\ k - 1 \in 0..m
                         /\ (k + 1) - 1 = k
    BY <1>2
  <1>6. /\ skipped[1] = FALSE
        /\ \A k \in 0..m : skipped[k] => k \in 2..n
    <2> HIDE DEF skipped
    <2>1. \A k \in 0..m : skipped[k] => k \in 2..n
      BY <1>4
    <2>2. 1 \in 0..m /\ 1 \notin 2..n
      BY <1>2
    <2> QED
      BY <1>4, <2>1, <2>2
  <1>7. ASSUME NEW k \in 1..n
        PROVE  /\ level(k) \in Int /\ s[k] <= level(k)
               /\ k + 1 <= n => level(k) <= s[k + 1]
               /\ ~skipped[k + 1] => level(k) = s[k]
    <2> HIDE DEF skipped
    <2>1. CASE skipped[k + 1]
      <3>1. k + 1 \in 1..n /\ s[k + 1] \in Int /\ s[k] \in Int /\ s[k] <= s[k + 1]
        BY <1>2, <1>5, <1>6, <2>1
      <3>2. level(k) = (s[k] + s[k + 1]) \div 2
        BY <2>1
      <3>3. level(k) \in Int /\ s[k] <= level(k) /\ level(k) <= s[k + 1]
        BY <3>1, <3>2
      <3> HIDE DEF level
      <3> QED
        BY <2>1, <3>3
    <2>2. CASE ~skipped[k + 1]
      <3>1. level(k) = s[k]
        BY <2>2
      <3>2. k + 1 <= n => s[k] <= s[k + 1]
        BY <1>2
      <3> HIDE DEF level
      <3> QED
        BY <1>2, <3>1, <3>2
    <2> QED
      BY <2>1, <2>2
  <1>7b. ASSUME NEW k \in 1..n, NEW j \in k + 1..n PROVE level(k) <= s[j]
    <2> DEFINE y == level(k)
    <2>1. y \in Int /\ (k + 1 <= n => y <= s[k + 1])
      BY <1>7
    <2>2. /\ k + 1 \in 1..n /\ k + 1 <= n /\ s[k + 1] \in Int
          /\ s[k + 1] <= s[j] /\ s[j] \in Int
      BY <1>2
    <2> HIDE DEF y
    <2>3. y <= s[j]
      BY <2>1, <2>2
    <2> QED
      BY <2>3 DEF y
  <1> DEFINE V == Seq(Int)
  <1>8. Iz(merged)
    <2>1. \E f : Iz(f)
      <3> DEFINE none == << >>
                 step == [k \in 1..n |-> [v \in V |-> next(v, k)]]
      <3>1. n \in Nat /\ none \in V /\ step \in [1..n -> [V -> V]]
        <4>1. \A k \in 1..n : \A v \in V : next(v, k) \in V
          <5> HIDE DEF level, skipped
          <5> QED
            BY <1>7
        <4> HIDE DEF next
        <4> QED
          BY <1>2, <4>1
      <3>2. \A k \in 1..n : \A v \in V : step[k][v] = next(v, k)
        OBVIOUS
      <3> HIDE DEF n, step, none, V, next
      <3>3. PICK f : Computes(f, V, n, none, step)
        BY <3>1, ARecursion
      <3>4. /\ f \in [0..n -> V] /\ f[0] = none
            /\ \A k \in 1..n : f[k] = next(f[k - 1], k)
        BY <3>1, <3>2, <3>3 DEF Computes
      <3>5. f = [k \in 0..n |-> IF k = 0 THEN << >> ELSE next(f[k - 1], k)]
        BY <3>1, <3>4 DEF none
      <3> QED
        BY <3>5
    <2> HIDE DEF Iz
    <2> QED
      BY <2>1
  <1>9. /\ merged[0] = << >>
        /\ \A k \in 1..n : merged[k] = next(merged[k - 1], k)
    <2> HIDE DEF merged, next
    <2>1. \A k \in 0..n : merged[k] = IF k = 0 THEN << >> ELSE next(merged[k - 1], k)
      BY <1>8, Zenon
    <2>2. 0 \in 0..n /\ \A k \in 1..n : k \in 0..n /\ k # 0
      BY <1>2
    <2> QED
      BY <2>1, <2>2
  <1> DEFINE Good(t, k) ==
               /\ t \in Seq(Int) /\ Ascending(t) /\ Len(t) <= k
               /\ \A i \in 1..Len(t) : \A j \in k + 1..n : t[i] <= s[j]
               /\ (\E j \in 1..k : skipped[j]) => Len(t) < k
               /\ (\A j \in 1..k + 1 : ~skipped[j]) =>
                     Len(t) = k /\ \A i \in 1..k : t[i] = s[i]
             T == { k \in 0..n : Good(merged[k], k) }
  <1>10. \A k \in 0..n : k \in T
    <2>1. 0 \in T
      <3>1. Good(<< >>, 0)
        <4> HIDE DEF skipped
        <4> QED
          BY DEF Ascending
      <3> HIDE DEF merged, Good
      <3> QED
        BY <1>2, <1>9, <3>1
    <2>2. ASSUME NEW k \in 1..n, k - 1 \in T PROVE k \in T
      <3> DEFINE t == merged[k - 1]
                 r == merged[k]
      <3>1. /\ k \in Nat /\ k >= 1 /\ k <= n
            /\ t \in Seq(Int) /\ Ascending(t) /\ Len(t) <= k - 1
            /\ \A i \in 1..Len(t) : \A j \in k..n : t[i] <= s[j]
            /\ (\E j \in 1..k - 1 : skipped[j]) => Len(t) < k - 1
            /\ (\A j \in 1..k : ~skipped[j]) =>
                  Len(t) = k - 1 /\ \A i \in 1..k - 1 : t[i] = s[i]
        <4>1. (k - 1) + 1 = k
          OBVIOUS
        <4> HIDE DEF merged, skipped
        <4> QED
          BY <1>2, <2>2, <4>1
      <3>2. r = next(t, k)
        BY <1>9
      <3> HIDE DEF merged, t, r, skipped
      <3>3. Len(t) \in Nat /\ \A i \in 1..Len(t) : t[i] \in Int
        BY <3>1
      <3>4. CASE skipped[k]
        <4>1. r = t
          BY <3>2, <3>4
        <4>2. Len(r) < k
          BY <3>1, <3>3, <4>1
        <4>3. \A i \in 1..Len(t) : \A j \in k + 1..n : t[i] <= s[j]
          BY <1>2, <3>1
        <4>4. k \in 1..k + 1
          BY <3>1
        <4> QED
          BY <3>1, <3>3, <3>4, <4>1, <4>2, <4>3, <4>4 DEF r
      <3>5. CASE ~skipped[k]
        <4> DEFINE x == level(k)
        <4>1. r = Append(t, x)
          BY <3>2, <3>5
        <4>2. x \in Int /\ s[k] <= x /\ \A j \in k + 1..n : x <= s[j]
          <5>1. x \in Int
            BY <1>7, Zenon
          <5>2. s[k] <= x
            <6>1. s[k] <= level(k)
              BY <1>7
            <6> QED
              BY <6>1, Zenon
          <5>4. ASSUME NEW j \in k + 1..n PROVE x <= s[j]
            <6>1. level(k) <= s[j]
              BY <1>7b
            <6> QED
              BY <6>1, Zenon
          <5> HIDE DEF x
          <5> QED
            BY <5>1, <5>2, <5>4
        <4>3. ~skipped[k + 1] => x = s[k]
          BY <1>7, Zenon
        <4> HIDE DEF x
        <4>4. /\ r \in Seq(Int) /\ Len(r) = Len(t) + 1
              /\ \A i \in 1..Len(t) : r[i] = t[i]
              /\ r[Len(t) + 1] = x
          BY <3>1, <3>3, <4>1, <4>2
        <4>5. \A i \in 1..Len(t) : t[i] <= x
          <5> SUFFICES ASSUME NEW i \in 1..Len(t) PROVE t[i] <= x
            OBVIOUS
          <5>1. t[i] <= s[k] /\ t[i] \in Int /\ s[k] \in Int
            BY <1>2, <3>1, <3>3
          <5> QED
            BY <4>2, <5>1
        <4>6. Ascending(r)
          <5> SUFFICES ASSUME NEW i \in 1..Len(r), NEW j \in 1..Len(r), i <= j
                       PROVE  r[i] <= r[j]
            BY DEF Ascending
          <5>1. CASE j = Len(t) + 1
            <6>1. CASE i = Len(t) + 1
              BY <4>2, <4>4, <5>1, <6>1
            <6>2. CASE i # Len(t) + 1
              BY <3>3, <4>4, <4>5, <5>1, <6>2
            <6> QED
              BY <6>1, <6>2
          <5>2. CASE j # Len(t) + 1
            <6>1. i \in 1..Len(t) /\ j \in 1..Len(t)
              BY <3>3, <4>4, <5>2
            <6>2. t[i] <= t[j]
              BY <3>1, <6>1 DEF Ascending
            <6> QED
              BY <4>4, <6>1, <6>2
          <5> QED
            BY <5>1, <5>2
        <4>7. ASSUME NEW i \in 1..Len(r), NEW j \in k + 1..n PROVE r[i] <= s[j]
          <5>1. CASE i = Len(t) + 1
            BY <4>2, <4>4, <5>1
          <5>2. CASE i # Len(t) + 1
            <6>1. i \in 1..Len(t) /\ r[i] = t[i]
              BY <3>3, <4>4, <5>2
            <6>2. j \in k..n
              BY <3>1
            <6> QED
              BY <3>1, <6>1, <6>2
          <5> QED
            BY <5>1, <5>2
        <4>8. (\E j \in 1..k : skipped[j]) => Len(r) < k
          <5> SUFFICES ASSUME NEW j \in 1..k, skipped[j] PROVE Len(r) < k
            OBVIOUS
          <5>1. j \in 1..k - 1
            BY <3>1, <3>5
          <5>2. Len(t) < k - 1
            BY <3>1, <5>1
          <5> QED
            BY <3>1, <3>3, <4>4, <5>2
        <4>9. (\A j \in 1..k + 1 : ~skipped[j]) =>
                 Len(r) = k /\ \A i \in 1..k : r[i] = s[i]
          <5> SUFFICES ASSUME \A j \in 1..k + 1 : ~skipped[j]
                       PROVE  Len(r) = k /\ \A i \in 1..k : r[i] = s[i]
            OBVIOUS
          <5>1. /\ \A j \in 1..k : j \in 1..k + 1
                /\ k + 1 \in 1..k + 1
            BY <3>1
          <5>2. (\A j \in 1..k : ~skipped[j]) /\ x = s[k]
            BY <4>3, <5>1
          <5>3. Len(t) = k - 1 /\ \A i \in 1..k - 1 : t[i] = s[i]
            BY <3>1, <5>2
          <5> QED
            BY <3>1, <4>4, <5>2, <5>3
        <4>10. Good(r, k)
          <5>1. Len(r) <= k
            BY <3>1, <3>3, <4>4
          <5> QED
            BY <4>4, <4>6, <4>7, <4>8, <4>9, <5>1
        <4> HIDE DEF Good
        <4> QED
          BY <1>2, <3>1, <4>10 DEF r
      <3> QED
        BY <3>4, <3>5
    <2> HIDE DEF T, n
    <2> QED
      BY <1>2, <2>1, <2>2, UpTo
  <1>11. Good(merged[n], n)
    <2> HIDE DEF merged, Good
    <2> QED
      BY <1>2, <1>10
  <1>12. (\A j \in 1..m : ~skipped[j]) <=> Gaps(s)
    <2> HIDE DEF skipped
    <2>1. ASSUME \A j \in 1..m : ~skipped[j], NEW k \in 2..n
          PROVE  s[k] - s[k - 1] > DedupDistance
      <3>1. k \in 0..m /\ k \in 1..m /\ k - 1 \in 1..m /\ k - 1 \in 1..n /\ k \in 1..n
        BY <1>2
      <3>2. ~skipped[k] /\ ~skipped[k - 1]
        BY <2>1, <3>1
      <3>3. ~(s[k] - s[k - 1] <= DedupDistance)
        BY <1>4, <3>1, <3>2
      <3> QED
        BY <1>2, <3>1, <3>3 DEF DedupDistance
    <2>2. ASSUME Gaps(s), NEW j \in 1..m, skipped[j] PROVE FALSE
      <3>1. j \in 0..m
        BY <1>2
      <3>2. j \in 2..n /\ s[j] - s[j - 1] <= DedupDistance
        BY <1>4, <2>2, <3>1
      <3>3. s[j] - s[j - 1] > DedupDistance /\ j \in 1..n /\ j - 1 \in 1..n
        BY <1>2, <2>2, <3>2 DEF Gaps
      <3> QED
        BY <1>2, <3>2, <3>3 DEF DedupDistance
    <2> QED
      BY <2>1, <2>2 DEF Gaps
  <1>13. CASE Gaps(s)
    <2> DEFINE t == merged[n]
    <2>1. t \in Seq(Int) /\ Len(t) = n /\ \A i \in 1..n : t[i] = s[i]
      <3> HIDE DEF merged, skipped
      <3> QED
        BY <1>11, <1>12, <1>13
    <2>2. s \in Seq(Int)
      BY DEF Ascendants
    <2> HIDE DEF merged, t
    <2>3. t = s
      BY <2>1, <2>2, SeqEqual
    <2> QED
      BY <1>1, <1>13, <2>3 DEF t
  <1>14. CASE ~Gaps(s)
    <2> HIDE DEF merged, skipped
    <2>1. PICK j \in 1..m : skipped[j]
      BY <1>12, <1>14
    <2>2. j \in 0..m
      BY <1>2
    <2>3. j \in 1..n
      BY <1>2, <1>6, <2>1, <2>2
    <2>4. Len(merged[n]) < n /\ merged[n] \in Seq(Int) /\ Ascending(merged[n])
      BY <1>11, <2>1, <2>3
    <2> QED
      BY <1>1, <1>14, <2>4 DEF Ascendants
  <1> QED
    BY <1>13, <1>14

(* Passes until nothing merges: what is left is far enough apart.          *)
LEMMA DeduplicatedType ==
    ASSUME NEW s \in Seq(Int)
    PROVE  Deduplicate(s) \in Ascendants /\ Gaps(Deduplicate(s))
  <1> DEFINE N == Len(s)
             start == Sorted(s)
             Is(f) == f = [k \in 0..N |->
                             IF k = 0 THEN start ELSE MergeOnce(f[k - 1])]
             passes == CHOOSE f : Is(f)
  <1>1. Deduplicate(s) = passes[N]
    BY DEF Deduplicate
  <1>2. N \in Nat /\ start \in Ascendants /\ Len(start) = N
    BY SortedType
  <1>3. Is(passes)
    <2>1. \E f : Is(f)
      <3> DEFINE V == Ascendants
                 n == N
                 step == [k \in 1..n |-> [v \in V |-> MergeOnce(v)]]
      <3>1. n \in Nat /\ start \in V /\ step \in [1..n -> [V -> V]]
        BY <1>2, MergeOnceType
      <3>2. \A k \in 1..n : \A v \in V : step[k][v] = MergeOnce(v)
        OBVIOUS
      <3> HIDE DEF n, step, start, V
      <3>3. PICK f : Computes(f, V, n, start, step)
        BY <3>1, ARecursion
      <3>4. /\ f \in [0..n -> V] /\ f[0] = start
            /\ \A k \in 1..n : f[k] = MergeOnce(f[k - 1])
        BY <3>1, <3>2, <3>3 DEF Computes
      <3>5. f = [k \in 0..n |-> IF k = 0 THEN start ELSE MergeOnce(f[k - 1])]
        BY <3>1, <3>4
      <3> QED
        BY <3>5 DEF n
    <2> HIDE DEF Is
    <2> QED
      BY <2>1
  <1> HIDE DEF start
  <1>4. /\ passes[0] = start
        /\ \A k \in 1..N : passes[k] = MergeOnce(passes[k - 1])
    <2> HIDE DEF passes
    <2>1. \A k \in 0..N : passes[k] = IF k = 0 THEN start
                                      ELSE MergeOnce(passes[k - 1])
      BY <1>3, Zenon
    <2>2. 0 \in 0..N /\ \A k \in 1..N : k \in 0..N /\ k # 0
      BY <1>2
    <2> QED
      BY <2>1, <2>2
  <1> DEFINE T == { k \in 0..N : /\ passes[k] \in Ascendants
                                 /\ Gaps(passes[k]) \/ Len(passes[k]) <= N - k }
  <1>5. \A k \in 0..N : k \in T
    <2> HIDE DEF passes
    <2>1. 0 \in T
      BY <1>2, <1>4
    <2>2. ASSUME NEW k \in 1..N, k - 1 \in T PROVE k \in T
      <3> DEFINE t == passes[k - 1]
                 r == passes[k]
      <3>1. /\ t \in Ascendants /\ r = MergeOnce(t) /\ k \in 0..N
            /\ Gaps(t) \/ Len(t) <= N - (k - 1)
        BY <1>2, <1>4, <2>2
      <3> HIDE DEF t, r
      <3>2. /\ r \in Ascendants
            /\ \/ r = t /\ Gaps(t)
               \/ Len(r) < Len(t) /\ ~Gaps(t)
        BY <3>1, MergeOnceType
      <3>3. Len(t) \in Nat /\ Len(r) \in Nat
        BY <3>1, <3>2 DEF Ascendants
      <3>4. Gaps(r) \/ Len(r) <= N - k
        <4>1. CASE r = t /\ Gaps(t)
          BY <4>1
        <4>2. CASE Len(r) < Len(t) /\ ~Gaps(t)
          BY <1>2, <3>1, <3>3, <4>2
        <4> QED
          BY <3>2, <4>1, <4>2
      <3> QED
        BY <3>1, <3>2, <3>4 DEF r
    <2> HIDE DEF T, N
    <2> QED
      BY <1>2, <2>1, <2>2, UpTo
  <1> DEFINE t == passes[N]
  <1>6. t \in Ascendants /\ (Gaps(t) \/ Len(t) <= N - N)
    BY <1>2, <1>5
  <1> HIDE DEF passes, t
  <1>7. Len(t) <= N - N => Gaps(t)
    <2>1. Len(t) \in Nat
      BY <1>6 DEF Ascendants
    <2> QED
      BY <1>2, <2>1 DEF Gaps
  <1> QED
    BY <1>1, <1>6, <1>7 DEF t

(* Whatever the bars, fresh levels are more than a dollar apart.           *)
THEOREM LevelsAreSpread ==
    ASSUME NEW old \in SUBSET Int, NEW bars \in Seq(Quotes)
    PROVE  /\ RefreshedLevels(old, bars) \in SUBSET Int
           /\ SoundLevels(old, RefreshedLevels(old, bars))
  <1> DEFINE raw == RawValues(bars)
             t == Deduplicate(raw)
             new == RefreshedLevels(old, bars)
  <1>1. new = old \/ new = { t[k] : k \in DOMAIN t }
    BY Zenon DEF RefreshedLevels, ToSet
  <1>2. raw \in Seq(Int)
    <2> DEFINE n == 4 * Len(bars)
               value == [k \in 1..n |-> raw[k]]
    <2>1. n \in Nat
      OBVIOUS
    <2>2. ASSUME NEW k \in 1..n PROVE raw[k] \in Int
      <3> DEFINE b == bars[(k + 3) \div 4]
      <3>1. (k + 3) \div 4 \in 1..Len(bars)
        OBVIOUS
      <3>2. b \in Quotes
        BY <3>1
      <3>3. /\ b.open \in Int /\ b.high \in Int /\ b.low \in Int
            /\ b.close \in Int
        <4> HIDE DEF b
        <4> QED
          BY <3>2 DEF Quotes
      <3>4. raw[k] \in {b.open, b.high, b.low, b.close}
        BY DEF RawValues
      <3> HIDE DEF b, raw
      <3> QED
        BY <3>3, <3>4
    <2>3. raw = value
      BY DEF RawValues
    <2> HIDE DEF raw, n
    <2>4. value \in [1..n -> Int]
      BY <2>2
    <2> HIDE DEF value
    <2> QED
      BY <2>1, <2>3, <2>4
  <1>3. t \in Ascendants /\ Gaps(t)
    <2> HIDE DEF raw
    <2> QED
      BY <1>2, DeduplicatedType
  <1> HIDE DEF t, raw, new
  <1>4. /\ Len(t) \in Nat /\ DOMAIN t = 1..Len(t)
        /\ \A k \in 1..Len(t) : t[k] \in Int
        /\ \A j, k \in 1..Len(t) : j <= k => t[j] <= t[k]
        /\ \A k \in 2..Len(t) : t[k] - t[k - 1] > DedupDistance
    BY <1>3 DEF Ascendants, Ascending, Gaps
  <1>5. new \in SUBSET Int
    BY <1>1, <1>4
  <1>6. ASSUME NEW j \in 1..Len(t), NEW k \in 1..Len(t), j < k
        PROVE  t[k] - t[j] > DedupDistance
    <2>1. k \in 2..Len(t) /\ k - 1 \in 1..Len(t) /\ j <= k - 1
      BY <1>4, <1>6
    <2>2. t[k] - t[k - 1] > DedupDistance /\ t[j] <= t[k - 1]
      BY <1>4, <2>1
    <2>3. t[j] \in Int /\ t[k] \in Int /\ t[k - 1] \in Int
      BY <1>4, <2>1
    <2> QED
      BY <2>2, <2>3 DEF DedupDistance
  <1>7. ASSUME NEW j \in 1..Len(t), NEW k \in 1..Len(t), t[j] # t[k]
        PROVE  Distance(t[j], t[k]) > DedupDistance
    <2>1. t[j] \in Int /\ t[k] \in Int
      BY <1>4
    <2>2. CASE j < k
      BY <1>6, <2>1, <2>2 DEF Distance, DedupDistance
    <2>3. CASE k < j
      BY <1>6, <2>1, <2>3 DEF Distance, DedupDistance
    <2>4. CASE j = k
      BY <1>7, <2>4
    <2> QED
      BY <1>4, <2>2, <2>3, <2>4
  <1>8. new = old \/ \A a, b \in new : a # b => Distance(a, b) > DedupDistance
    <2> SUFFICES ASSUME new # old, NEW a \in new, NEW b \in new, a # b
                 PROVE  Distance(a, b) > DedupDistance
      OBVIOUS
    <2>1. PICK j \in 1..Len(t) : a = t[j]
      BY <1>1, <1>4
    <2>2. PICK k \in 1..Len(t) : b = t[k]
      BY <1>1, <1>4
    <2> QED
      BY <1>7, <2>1, <2>2
  <1> QED
    BY <1>5, <1>8 DEF SoundLevels, new

-----------------------------------------------------------------------------
(* The bar that is forming *)

(* The pullback strategy reads no bar after the closed one it is asked     *)
(* about.                                                                  *)
LEMMA PullbackReadsPast ==
    ASSUME NEW a, NEW b, NEW i \in Nat, i >= 2, i <= Len(a), i <= Len(b),
           Len(a) \in Nat, Len(b) \in Nat,
           SubSeq(a, 1, i) = SubSeq(b, 1, i), \A k \in 1..i : a[k] = b[k],
           NEW daily, NEW price, NEW spread
    PROVE  EmaPullback(a, i, daily, price, spread)
             = EmaPullback(b, i, daily, price, spread)
  <1>1. \A ema, zone : PullbackRun(a, i, ema, zone) = PullbackRun(b, i, ema, zone)
    <2> SUFFICES ASSUME NEW ema, NEW zone
                 PROVE  PullbackRun(a, i, ema, zone) = PullbackRun(b, i, ema, zone)
      OBVIOUS
    <2> DEFINE first == Max({1, i - PullbackLookback + 1})
               window == first..i
               A == { k \in window : Touches(a[k], ema, zone) }
               B == { k \in window : Touches(b[k], ema, zone) }
    <2>1. window \subseteq 1..i
      <3>a. PullbackLookback \in Int /\ i \in Int
        BY DEF PullbackLookback
      <3>1. first \in Int /\ first >= 1
        <4>1. Max({1, i - PullbackLookback + 1}) \in Int
              /\ Max({1, i - PullbackLookback + 1}) >= 1
          BY <3>a, WindowStart
        <4> QED
          BY <4>1, Zenon
      <3> HIDE DEF first
      <3> QED
        BY <3>1
    <2>2. A = B
      <3> HIDE DEF window
      <3> QED
        BY <2>1
    <2>3. /\ PullbackRun(a, i, ema, zone) = { k \in A : k..Max(A) \subseteq A }
          /\ PullbackRun(b, i, ema, zone) = { k \in B : k..Max(B) \subseteq B }
      BY DEF PullbackRun
    <2> HIDE DEF A, B
    <2> QED
      BY <2>2, <2>3
  <1>2. \A side, atr, ema, zone :
          BrokenClusters(a, i, side, atr, ema, zone)
            = BrokenClusters(b, i, side, atr, ema, zone)
    <2> SUFFICES ASSUME NEW side, NEW atr, NEW ema, NEW zone
                 PROVE  BrokenClusters(a, i, side, atr, ema, zone)
                          = BrokenClusters(b, i, side, atr, ema, zone)
      OBVIOUS
    <2> DEFINE breaks(s, n) ==
                 LET cluster == (i - n)..(i - 1)
                     c == s[i]
                 IN  /\ \A k \in cluster :
                            Span(s[k]) <= Percent(atr, ClusterRangeAtr)
                     /\ \E k \in cluster : Touches(s[k], ema, zone)
                     /\ IF side = 1
                        THEN /\ c.close > Max({ s[k].high : k \in cluster })
                             /\ c.close > ema /\ c.close > c.open
                        ELSE /\ c.close < Min({ s[k].low : k \in cluster })
                             /\ c.close < ema /\ c.close < c.open
    <2>1. ASSUME NEW n \in ClusterMin..ClusterMax, i - n >= 2
          PROVE  breaks(a, n) <=> breaks(b, n)
      <3> DEFINE cluster == (i - n)..(i - 1)
      <3>1. n \in Nat /\ cluster \subseteq 1..i /\ i \in 1..i
        BY <2>1 DEF ClusterMin, ClusterMax
      <3>2. a[i] = b[i] /\ \A k \in cluster : a[k] = b[k]
        BY <3>1
      <3>3. /\ { a[k].high : k \in cluster } = { b[k].high : k \in cluster }
            /\ { a[k].low : k \in cluster } = { b[k].low : k \in cluster }
        <4> HIDE DEF cluster
        <4> QED
          BY <3>2
      <3> QED
        BY <3>2, <3>3, Zenon
    <2>2. /\ BrokenClusters(a, i, side, atr, ema, zone)
               = { n \in ClusterMin..ClusterMax : i - n >= 2 /\ breaks(a, n) }
          /\ BrokenClusters(b, i, side, atr, ema, zone)
               = { n \in ClusterMin..ClusterMax : i - n >= 2 /\ breaks(b, n) }
      BY Zenon DEF BrokenClusters
    <2> HIDE DEF breaks
    <2> QED
      BY <2>1, <2>2
  <1>3. \A side, indices : indices \subseteq 1..i =>
          Anchor(a, indices, side) = Anchor(b, indices, side)
    <2> SUFFICES ASSUME NEW side, NEW indices, indices \subseteq 1..i
                 PROVE  Anchor(a, indices, side) = Anchor(b, indices, side)
      OBVIOUS
    <2>1. /\ { a[k].low : k \in indices } = { b[k].low : k \in indices }
          /\ { a[k].high : k \in indices } = { b[k].high : k \in indices }
      OBVIOUS
    <2> QED
      BY <2>1 DEF Anchor
  <1> DEFINE past == SubSeq(a, 1, i)
             closes == Closes(past)
             side == AlignedBias(daily, closes)
             fast == Ema(closes, ExecFast)
             slow == Ema(closes, ExecSlow)
             atr == Atr(past)
             zone == Max({PullbackProximity, Percent(atr, PullbackAtr)})
             buffer == Max({BufferMin, Percent(atr, BufferAtr), 3 * spread})
             run == PullbackRun(a, i, fast, zone)
             clusters == BrokenClusters(a, i, side, atr, fast, zone)
             broken == (i - Min(clusters))..(i - 1)
             entry(anchor) ==
                 Entry(side, fast, price,
                       StopLoss(side, price, {anchor, slow}, buffer, StopTotalMin),
                       PullbackReward)
             Chosen(r, cs, prev, c, onRun, onBreak) ==
                 IF side = 0 \/ atr = Unknown THEN NoEntry
                 ELSE IF RegimeBlocks(side, fast, slow, atr, EmaSlope(closes))
                 THEN NoEntry
                 ELSE IF r = {} THEN NoEntry
                 ELSE IF Detect(prev, c, fast).side = side /\ CloseConfirms(c, fast, side)
                 THEN entry(onRun)
                 ELSE IF cs # {} THEN entry(onBreak)
                 ELSE IF Continues(prev, c, side, fast, zone) THEN entry(onRun)
                 ELSE NoEntry
  <1>4. Anchor(a, run, side) = Anchor(b, run, side)
    <2>1. run \subseteq 1..i
      <3> DEFINE first == Max({1, i - PullbackLookback + 1})
      <3>a. PullbackLookback \in Int /\ i \in Int
        BY DEF PullbackLookback
      <3>1. first \in Int /\ first >= 1
        <4>1. Max({1, i - PullbackLookback + 1}) \in Int
              /\ Max({1, i - PullbackLookback + 1}) >= 1
          BY <3>a, WindowStart
        <4> QED
          BY <4>1, Zenon
      <3>2. run \subseteq first..i
        BY DEF PullbackRun
      <3> HIDE DEF run, first
      <3> QED
        BY <3>1, <3>2
    <2> HIDE DEF run, side
    <2> QED
      BY <1>3, <2>1
  <1>5. clusters # {} => Anchor(a, broken, side) = Anchor(b, broken, side)
    <2> SUFFICES ASSUME clusters # {}
                 PROVE  Anchor(a, broken, side) = Anchor(b, broken, side)
      OBVIOUS
    <2>1. clusters \subseteq { n \in Nat : i - n >= 2 }
      BY DEF BrokenClusters, ClusterMin, ClusterMax
    <2> HIDE DEF clusters
    <2>2. \E x \in clusters : \A y \in clusters : x <= y
      <3>1. clusters \subseteq Nat
        BY <2>1
      <3> QED
        BY <3>1, ALeastNatural
    <2>3. Min(clusters) \in clusters
      BY <2>2, Zenon DEF Min
    <2> DEFINE m == Min(clusters)
    <2>4. m \in Nat /\ i - m >= 2
      BY <2>1, <2>3
    <2>5. broken \subseteq 1..i
      <3> HIDE DEF m
      <3>1. (i - m)..(i - 1) \subseteq 1..i
        BY <2>4
      <3> QED
        BY <3>1 DEF m
    <2> HIDE DEF broken, side
    <2> QED
      BY <1>3, <2>5
  <1>6. i - 1 \in 1..i /\ i \in 1..i /\ ~(i < 2) /\ ~(i > Len(a)) /\ ~(i > Len(b))
    OBVIOUS
  <1>7. a[i - 1] = b[i - 1] /\ a[i] = b[i]
    BY <1>6
  <1>8. EmaPullback(a, i, daily, price, spread)
          = Chosen(run, clusters, a[i - 1], a[i], Anchor(a, run, side),
                   Anchor(a, broken, side))
    BY <1>6, Zenon DEF EmaPullback
  <1>9. EmaPullback(b, i, daily, price, spread)
          = Chosen(PullbackRun(b, i, fast, zone),
                   BrokenClusters(b, i, side, atr, fast, zone),
                   b[i - 1], b[i], Anchor(b, PullbackRun(b, i, fast, zone), side),
                   Anchor(b, (i - Min(BrokenClusters(b, i, side, atr, fast, zone)))
                                ..(i - 1), side))
    BY <1>6, Zenon DEF EmaPullback
  <1>10. /\ PullbackRun(b, i, fast, zone) = run
         /\ BrokenClusters(b, i, side, atr, fast, zone) = clusters
    BY <1>1, <1>2, Zenon
  <1>11. \A r, cs, prev, c, x, y, z : cs = {} =>
            Chosen(r, cs, prev, c, x, y) = Chosen(r, cs, prev, c, x, z)
    <2> HIDE DEF entry, side, atr, fast, slow, closes, zone
    <2> QED
      OBVIOUS
  <1> DEFINE onA == Anchor(a, broken, side)
             onB == Anchor(b, broken, side)
             onRun == Anchor(a, run, side)
  <1>12. EmaPullback(b, i, daily, price, spread)
          = Chosen(run, clusters, a[i - 1], a[i], onRun, onB)
    <2> HIDE DEF Chosen, run, clusters, fast, zone, side, atr
    <2> QED
      BY <1>4, <1>7, <1>9, <1>10, Zenon
  <1> HIDE DEF Chosen, run, clusters, onA, onB, onRun
  <1>13. clusters # {} => onA = onB
    BY <1>5, Zenon DEF onA, onB
  <1>14. EmaPullback(a, i, daily, price, spread)
          = Chosen(run, clusters, a[i - 1], a[i], onRun, onA)
    BY <1>8, Zenon DEF onA, onRun
  <1>15. CASE clusters = {}
    <2>1. Chosen(run, clusters, a[i - 1], a[i], onRun, onA)
            = Chosen(run, clusters, a[i - 1], a[i], onRun, onB)
      BY <1>11, <1>15
    <2> QED
      BY <1>12, <1>14, <2>1
  <1>16. CASE clusters # {}
    BY <1>12, <1>13, <1>14, <1>16
  <1> QED
    BY <1>15, <1>16

(* The bars without the one that is forming.                               *)
Forming(chart) == Last(chart.bars).at = chart.now

LEMMA ChartTypes ==
    ASSUME NEW chart, RealChart(chart)
    PROVE  /\ chart.bars \in Seq(Candles) /\ chart.now \in Int
           /\ chart.levels \in SUBSET Int /\ chart.htf \in Seq(Quotes)
           /\ chart.price \in Int /\ chart.spread \in Nat /\ chart.quotes \subseteq Int
           /\ chart.policy \in File([sides : SUBSET Sides, width : Nat,
                                     reward : Nat \ {0}])
           /\ Len(chart.bars) \in Nat \ {0}
           /\ \A k \in 1..Len(chart.bars) :
                /\ chart.bars[k] \in Candles
                /\ chart.bars[k].low <= chart.bars[k].high
                /\ chart.bars[k].at <= chart.now
                /\ \A j \in 1..k - 1 : chart.bars[j].at < chart.bars[k].at
  <1>1. /\ chart.bars \in Seq(Candles) /\ chart.now \in Int
        /\ chart.levels \in SUBSET Int /\ chart.htf \in Seq(Quotes)
        /\ chart.price \in Int /\ chart.spread \in Nat /\ chart.quotes \subseteq Int
        /\ chart.policy \in File([sides : SUBSET Sides, width : Nat,
                                  reward : Nat \ {0}])
        /\ chart.bars # << >>
    BY Zenon DEF RealChart
  <1>2. Len(chart.bars) \in Nat \ {0} /\ DOMAIN chart.bars = 1..Len(chart.bars)
        /\ \A k \in 1..Len(chart.bars) : chart.bars[k] \in Candles
    BY <1>1
  <1>3. \A k \in DOMAIN chart.bars :
          /\ chart.bars[k].low <= chart.bars[k].high
          /\ chart.bars[k].at <= chart.now
          /\ \A j \in 1..k - 1 : chart.bars[j].at < chart.bars[k].at
    BY Zenon DEF RealChart
  <1> QED
    BY <1>1, <1>2, <1>3

(* Without a forming bar the closed chart is the chart itself; otherwise   *)
(* it has the bars before the last and nothing else changes.               *)
LEMMA ClosedChart ==
    ASSUME NEW chart, RealChart(chart)
    PROVE  /\ ~Forming(chart) => Closed(chart) = chart
           /\ Forming(chart) =>
                /\ Closed(chart).bars = SubSeq(chart.bars, 1, Len(chart.bars) - 1)
                /\ Closed(chart).now = chart.now
                /\ Closed(chart).daily = chart.daily
                /\ Closed(chart).levels = chart.levels
                /\ Closed(chart).htf = chart.htf
                /\ Closed(chart).price = chart.price
                /\ Closed(chart).spread = chart.spread
  <1> DEFINE R == [ bars : Seq(Candles), now : Int, daily : Seq(Int),
                    levels : SUBSET Int, htf : Seq(Quotes), price : Int, spread : Nat,
                    quotes : SUBSET Int,
                    macro : File([side : Sides \cup {0}, confidence : Nat]),
                    policy : File([sides : SUBSET Sides, width : Nat,
                                   reward : Nat \ {0}]) ]
  <1>1. chart \in R
    BY Zenon DEF RealChart
  <1> DEFINE kept == IF Last(chart.bars).at = chart.now THEN Front(chart.bars)
                     ELSE chart.bars
  <1>2. Closed(chart) = [chart EXCEPT !.bars = kept]
    BY Zenon DEF Closed
  <1>3. ~Forming(chart) => kept = chart.bars
    BY Zenon DEF Forming
  <1>4. Forming(chart) => kept = SubSeq(chart.bars, 1, Len(chart.bars) - 1)
    BY Zenon DEF Forming, Front
  <1> HIDE DEF kept
  <1>5. [chart EXCEPT !.bars = chart.bars] = chart
    BY <1>1
  <1>6. LET c == [chart EXCEPT !.bars = kept]
        IN  /\ c.bars = kept /\ c.now = chart.now /\ c.daily = chart.daily
            /\ c.levels = chart.levels /\ c.htf = chart.htf
            /\ c.price = chart.price /\ c.spread = chart.spread
    BY <1>1
  <1> QED
    BY <1>2, <1>3, <1>4, <1>5, <1>6, Zenon

(* The last bar to look at is the same with and without the forming one.   *)
LEMMA FormingBars ==
    ASSUME NEW chart, RealChart(chart), Forming(chart)
    PROVE  LET n == Len(chart.bars)
               front == Closed(chart).bars
           IN  /\ front \in Seq(Candles) /\ Len(front) = n - 1
               /\ \A k \in 1..n - 1 : front[k] = chart.bars[k]
               /\ SignalIndex(chart.bars, chart.now) = n - 1
               /\ n > 1 => SignalIndex(front, chart.now) = n - 1
               /\ SubSeq(front, 1, n - 1) = SubSeq(chart.bars, 1, n - 1)
               /\ chart.bars[n].at = chart.now
  <1> DEFINE bars == chart.bars
             n == Len(bars)
             front == Closed(chart).bars
  <1>1. /\ bars \in Seq(Candles) /\ n \in Nat /\ n >= 1
        /\ \A k \in 1..n : bars[k] \in Candles
        /\ \A k \in 1..n : \A j \in 1..k - 1 : bars[j].at < bars[k].at
    BY ChartTypes
  <1>2. front = SubSeq(bars, 1, n - 1)
    BY ClosedChart
  <1>3. bars[n].at = chart.now
    BY DEF Forming, Last
  <1> HIDE DEF front
  <1>4. /\ front \in Seq(Candles) /\ Len(front) = n - 1
        /\ \A k \in 1..n - 1 : front[k] = bars[k]
    <2> HIDE DEF bars, n
    <2>1. n = Len(bars)
      BY DEF n
    <2> QED
      BY <1>1, <1>2, <2>1
  <1>5. SignalIndex(bars, chart.now) = n - 1
    BY <1>3 DEF SignalIndex
  <1>6. n > 1 => SignalIndex(front, chart.now) = n - 1
    <2> SUFFICES ASSUME n > 1 PROVE SignalIndex(front, chart.now) = n - 1
      OBVIOUS
    <2> DEFINE m == n - 1
    <2>1. m \in 1..n - 1 /\ n \in 1..n /\ m \in 1..n
      BY <1>1
    <2>2. front[m] = bars[m] /\ bars[m].at < bars[n].at
      BY <1>1, <1>4, <2>1
    <2>3. bars[m].at \in Int /\ bars[n].at \in Int
      BY <1>1, <2>1 DEF Candles
    <2>4. front[Len(front)].at # chart.now
      <3> HIDE DEF bars, n
      <3> QED
        BY <1>3, <1>4, <2>2, <2>3
    <2> QED
      BY <1>4, <2>4 DEF SignalIndex
  <1>7. SubSeq(front, 1, n - 1) = SubSeq(bars, 1, n - 1)
    <2>1. SubSeq(front, 1, n - 1) = front
      <3> DEFINE again == SubSeq(front, 1, n - 1)
      <3>1. /\ again \in Seq(Candles) /\ Len(again) = Len(front)
            /\ \A k \in 1..Len(front) : again[k] = front[k]
        <4> HIDE DEF bars, n
        <4>1. n - 1 = Len(front) /\ n - 1 \in Nat
          BY <1>1, <1>4
        <4> QED
          BY <1>4, <4>1
      <3> HIDE DEF again
      <3>2. again = front
        BY <1>4, <3>1, SeqEqual
      <3> QED
        BY <3>2 DEF again
    <2> QED
      BY <1>2, <2>1
  <1> QED
    BY <1>3, <1>4, <1>5, <1>6, <1>7 DEF front

LEMMA LevelReactionReadsPast ==
    ASSUME NEW a, NEW b, NEW i \in Nat, a[i - 1] = b[i - 1], a[i] = b[i],
           SubSeq(a, 1, i) = SubSeq(b, 1, i), NEW daily, NEW levels, NEW spread
    PROVE  LevelReaction(a, i, daily, levels, spread)
             = LevelReaction(b, i, daily, levels, spread)
  BY DEF LevelReaction

(* The offer of the level and of the pullback strategy is the one of the   *)
(* closed bars, if there are enough of them.                               *)
LEMMA FormingHasNoOffer ==
    ASSUME NEW chart, RealChart(chart), UsableBars(Closed(chart).bars),
           NEW mode \in {"LEGACY_LEVELS", "EMA_PULLBACK_H1"}
    PROVE  OfferOf(mode, Closed(chart)) = OfferOf(mode, chart)
  <1> DEFINE closed == Closed(chart)
  <1>1. CASE ~Forming(chart)
    <2>1. closed = chart
      BY <1>1, ClosedChart
    <2> HIDE DEF closed
    <2> QED
      BY <2>1 DEF closed
  <1>2. CASE Forming(chart)
    <2> DEFINE bars == chart.bars
               n == Len(bars)
               i == n - 1
               front == closed.bars
    <2>1. /\ front \in Seq(Candles) /\ Len(front) = i
          /\ \A k \in 1..i : front[k] = bars[k]
          /\ SignalIndex(bars, chart.now) = i
          /\ n > 1 => SignalIndex(front, chart.now) = i
          /\ SubSeq(front, 1, i) = SubSeq(bars, 1, i)
      BY <1>2, FormingBars
    <2>2. /\ closed.now = chart.now /\ closed.daily = chart.daily
          /\ closed.levels = chart.levels /\ closed.htf = chart.htf
          /\ closed.price = chart.price /\ closed.spread = chart.spread
      BY <1>2, ClosedChart
    <2>3. n \in Nat \ {0}
      BY ChartTypes
    <2> HIDE DEF front, closed, bars
    <2>4. i >= 3 /\ i \in Nat /\ n > 1
      BY <2>1, <2>3 DEF UsableBars, front, closed
    <2>5. UsableBars(front) /\ UsableBars(bars)
      BY <2>1, <2>4 DEF UsableBars
    <2>6. SignalIndex(closed.bars, closed.now) = i /\ SignalIndex(chart.bars, chart.now) = i
      BY <2>1, <2>2, <2>4 DEF front, bars
    <2>7. front[i] = bars[i] /\ front[i - 1] = bars[i - 1]
      BY <2>1, <2>4
    <2>8. CASE mode = "LEGACY_LEVELS"
      <3> DEFINE levels == RefreshedLevels(chart.levels, chart.htf)
      <3>1. /\ OfferOf(mode, chart)
                 = LevelReaction(bars, i, chart.daily, levels, chart.spread)
            /\ OfferOf(mode, closed)
                 = LevelReaction(front, i, chart.daily, levels, chart.spread)
        BY <2>2, <2>5, <2>6, <2>8, Zenon DEF OfferOf, front, bars
      <3>2. LevelReaction(front, i, chart.daily, levels, chart.spread)
              = LevelReaction(bars, i, chart.daily, levels, chart.spread)
        <4> DEFINE daily == chart.daily
                   spread == chart.spread
        <4>1. /\ front[i - 1] = bars[i - 1] /\ front[i] = bars[i]
              /\ SubSeq(front, 1, i) = SubSeq(bars, 1, i)
          BY <2>1, <2>7
        <4>a. i \in Nat
          BY <2>4
        <4> HIDE DEF levels, i, daily, spread
        <4>2. LevelReaction(front, i, daily, levels, spread)
                = LevelReaction(bars, i, daily, levels, spread)
          BY <4>a, <4>1, LevelReactionReadsPast
        <4> QED
          BY <4>2 DEF daily, spread
      <3> QED
        BY <3>1, <3>2 DEF closed
    <2>9. CASE mode = "EMA_PULLBACK_H1"
      <3> DEFINE sized(e) == Sized(e, chart.spread, StopMinDistance, StopMaxDistance)
                 mine == EmaPullback(bars, i, chart.daily, chart.price, chart.spread)
                 its == EmaPullback(front, i, chart.daily, chart.price, chart.spread)
      <3>1. OfferOf(mode, chart) = sized(mine) /\ OfferOf(mode, closed) = sized(its)
        BY <2>2, <2>5, <2>6, <2>9, Zenon DEF OfferOf, front, bars
      <3>2. its = mine
        <4>1. i >= 2 /\ i <= Len(front) /\ i <= Len(bars) /\ Len(front) \in Nat
              /\ Len(bars) \in Nat
          BY <2>1, <2>3, <2>4
        <4> DEFINE daily == chart.daily
                   spread == chart.spread
                   price == chart.price
        <4>2. /\ SubSeq(front, 1, i) = SubSeq(bars, 1, i)
              /\ \A k \in 1..i : front[k] = bars[k]
              /\ i \in Nat
          BY <2>1, <2>4
        <4> HIDE DEF i, daily, spread, price
        <4>3. EmaPullback(front, i, daily, price, spread)
                = EmaPullback(bars, i, daily, price, spread)
          BY <4>1, <4>2, PullbackReadsPast
        <4> QED
          BY <4>3 DEF daily, spread, price
      <3> HIDE DEF its, mine
      <3> QED
        BY <3>1, <3>2 DEF closed
    <2> QED
      BY <2>8, <2>9
  <1> QED
    BY <1>1, <1>2

(* A set of indices has a greatest one.                                    *)
LEMMA MaxOfIndices ==
    ASSUME NEW n \in Nat, NEW S \in SUBSET (1..n), S # {}
    PROVE  Max(S) \in S
  <1> DEFINE id == [k \in 1..n |-> k]
  <1>1. id \in [1..n -> Int]
    OBVIOUS
  <1>2. PICK x \in S : \A y \in S : id[y] <= id[x]
    <2> HIDE DEF id
    <2> QED
      BY <1>1, AnExtreme
  <1>3. \A y \in S : x >= y
    BY <1>2
  <1> QED
    BY <1>3, Zenon DEF Max

(* Pattern evidence is that of the closed bars.                            *)
LEMMA FormingIsNoEvidence ==
    ASSUME NEW chart, RealChart(chart), NEW levels, NEW side
    PROVE  PatternEvidence(levels, Closed(chart).bars, Closed(chart).now, side)
             = PatternEvidence(levels, chart.bars, chart.now, side)
  <1> DEFINE closed == Closed(chart)
  <1>1. CASE ~Forming(chart)
    <2>1. closed = chart
      BY <1>1, ClosedChart
    <2> HIDE DEF closed
    <2> QED
      BY <2>1 DEF closed
  <1>2. CASE Forming(chart)
    <2> DEFINE bars == chart.bars
               n == Len(bars)
               now == chart.now
               front == closed.bars
               S == ClosedBars(bars, now)
               last == Max(S)
               prev == Max(S \ {last})
    <2>1. /\ front \in Seq(Candles) /\ Len(front) = n - 1
          /\ \A k \in 1..n - 1 : front[k] = bars[k]
          /\ bars[n].at = now
      BY <1>2, FormingBars
    <2>2. closed.now = now
      BY <1>2, ClosedChart
    <2>3. /\ n \in Nat \ {0} /\ bars \in Seq(Candles) /\ now \in Int
      BY ChartTypes
    <2> HIDE DEF front, closed, bars
    <2>4. DOMAIN bars = 1..n /\ DOMAIN front = 1..n - 1
      BY <2>1, <2>3
    <2>5. S = { k \in 1..n - 1 : bars[k].at + 1 <= now }
      <3>1. ~(bars[n].at + 1 <= now)
        BY <2>1, <2>3
      <3>2. \A k \in 1..n : k = n \/ k \in 1..n - 1
        BY <2>3
      <3>3. 1..n - 1 \subseteq 1..n
        BY <2>3
      <3>4. S = { k \in 1..n : bars[k].at + 1 <= now }
        BY <2>4 DEF ClosedBars
      <3> HIDE DEF n, now, S
      <3> QED
        BY <3>1, <3>2, <3>3, <3>4
    <2>6. ClosedBars(front, now) = S
      <3> HIDE DEF S
      <3> QED
        BY <2>1, <2>4, <2>5 DEF ClosedBars
    <2>7. ASSUME ~(Cardinality(S) < 2)
          PROVE  front[last] = bars[last] /\ front[prev] = bars[prev]
      <3>1. S \in SUBSET (1..n - 1) /\ n - 1 \in Nat
        BY <2>3, <2>5
      <3> HIDE DEF S
      <3>2. S # {}
        BY <2>7, FS_EmptySet
      <3> DEFINE m == n - 1
      <3>3. S \in SUBSET (1..m) /\ m \in Nat
        BY <3>1
      <3> HIDE DEF m
      <3>4. last \in S
        BY <3>2, <3>3, MaxOfIndices
      <3> HIDE DEF last
      <3>5. S \ {last} # {}
        <4> SUFFICES ASSUME S \ {last} = {} PROVE FALSE
          OBVIOUS
        <4>1. S = {last}
          BY <3>4
        <4>2. Cardinality(S) = 1
          BY <4>1, FS_Singleton
        <4> QED
          BY <2>7, <4>2
      <3>6. prev \in S \ {last}
        <4>1. S \ {last} \in SUBSET (1..m)
          BY <3>3
        <4> DEFINE R == S \ {last}
        <4> HIDE DEF R
        <4>2. Max(R) \in R
          BY <3>3, <3>5, <4>1, MaxOfIndices DEF R
        <4> QED
          BY <4>2 DEF R
      <3> HIDE DEF prev
      <3> QED
        BY <2>1, <3>1, <3>4, <3>6
    <2> DEFINE Of(card, p, c) ==
                 LET near == Touched(levels, p, c)
                 IN  IF card < 2 \/ levels = {} THEN "PATTERN_DATA_UNAVAILABLE"
                     ELSE PatternCheck(IF near = {} THEN levels ELSE near, p, c, side)
    <2>8. PatternEvidence(levels, bars, now, side)
            = Of(Cardinality(S), bars[prev], bars[last])
      BY Zenon DEF PatternEvidence
    <2>9. PatternEvidence(levels, front, now, side)
            = Of(Cardinality(S), front[prev], front[last])
      <3> HIDE DEF S
      <3>1. PatternEvidence(levels, front, now, side)
              = LET T == ClosedBars(front, now)
                IN  Of(Cardinality(T), front[Max(T \ {Max(T)})], front[Max(T)])
        BY Zenon DEF PatternEvidence
      <3> HIDE DEF Of
      <3> QED
        BY <2>6, <3>1, Zenon
    <2>10. \A c, x, y, u, v : c < 2 => Of(c, x, y) = Of(c, u, v)
      BY Zenon
    <2> HIDE DEF Of, S, last, prev
    <2>11. PatternEvidence(levels, front, now, side)
             = PatternEvidence(levels, bars, now, side)
      <3>1. CASE Cardinality(S) < 2
        BY <2>8, <2>9, <2>10, <3>1, Zenon
      <3>2. CASE ~(Cardinality(S) < 2)
        <4>1. front[last] = bars[last] /\ front[prev] = bars[prev]
          BY <2>7, <3>2
        <4> QED
          BY <2>8, <2>9, <4>1, Zenon
      <3> QED
        BY <3>1, <3>2
    <2> QED
      BY <2>2, <2>11 DEF front, closed, bars
  <1> QED
    BY <1>1, <1>2

-----------------------------------------------------------------------------
(* The rules on every chart *)

(* An offer with prices, so that a position of it can be trailed.          *)
Trailable(o) ==
    /\ o.level \in Int
    /\ o.side \in Sides \cup {0}
    /\ o.side # 0 => o.entry \in Int /\ o.stop \in Int

LEMMA LevelOffersTrail ==
    ASSUME NEW bars, NEW i, bars[i - 1] \in Candles, bars[i] \in Candles,
           NEW daily, NEW levels \in SUBSET Int, NEW spread
    PROVE  Trailable(LevelReaction(bars, i, daily, levels, spread))
  <1> DEFINE prev == bars[i - 1]
             near == Touched(levels, prev, bars[i])
             match == MatchLevel(levels, prev, bars[i])
             bias == AlignedBias(daily, Closes(SubSeq(bars, 1, i)))
             order == OrderAt(levels, prev, match, bias, spread)
  <1>1. Trailable(NoOffer)
    BY DEF Trailable, NoOffer, Offer, NoEntry
  <1>2. CASE near # {}
    <2>1. near \in SUBSET Int /\ near \subseteq levels
      BY DEF Touched
    <2>2. match.level \in Int
      <3>1. match = Strongest(prev, bars[i], near)
        BY DEF MatchLevel
      <3> HIDE DEF near, match
      <3> QED
        BY <1>2, <2>1, <3>1, StrongestIsAtLevel
    <2>3. bias \in Sides \cup {0}
      BY BiasType
    <2>4. prev.high \in Int /\ prev.low \in Int
      BY DEF Candles
    <2> HIDE DEF match, bias, prev
    <2>5. LevelReaction(bars, i, daily, levels, spread) \in {NoOffer, order}
      BY <1>2 DEF LevelReaction, Reaction, match, bias, prev
    <2>6. bias \in Sides => Trailable(order)
      <3> SUFFICES ASSUME bias \in Sides PROVE Trailable(order)
        OBVIOUS
      <3>1. \/ /\ order.side = bias /\ order.entry = match.level
               /\ order.stop = match.level - bias * StopOffset
            \/ /\ order.side = bias
               /\ order.entry \in {prev.high + 100, prev.low - 100}
               /\ order.stop \in {prev.low - StopMinDistance, prev.high + StopMinDistance}
        BY DEF OrderAt, Sized, Offer, InsideBarEntry
      <3>2. order.level = match.level
        BY DEF OrderAt, Sized, Offer, InsideBarEntry
      <3> HIDE DEF order
      <3> QED
        BY <2>2, <2>4, <3>1, <3>2 DEF Trailable, Sides, StopOffset, StopMinDistance
    <2>7. order.side = bias /\ order.level = match.level
      BY DEF OrderAt, Sized, Offer, InsideBarEntry
    <2> HIDE DEF order
    <2>8. bias = 0 => Trailable(order)
      BY <2>2, <2>7 DEF Trailable
    <2> QED
      BY <1>1, <2>3, <2>5, <2>6, <2>8
  <1>3. CASE near = {}
    BY <1>1, <1>3 DEF LevelReaction
  <1> QED
    BY <1>2, <1>3

LEMMA SizedTrails ==
    ASSUME NEW e, Sided(e), NEW spread, NEW least, NEW most
    PROVE  Trailable(Sized(e, spread, least, most))
  BY DEF Sized, Offer, Sided, Trailable

(* The policy a scalp goes by asks for some reward.                        *)
LEMMA PolicyRewards ==
    ASSUME NEW chart, RealChart(chart)
    PROVE  Loaded(chart.policy, chart.now, NoPolicy).reward \in Nat \ {0}
  <1> DEFINE P == [sides : SUBSET Sides, width : Nat, reward : Nat \ {0}]
             file == chart.policy
  <1>1. file \in [readable : {FALSE}]
               \cup [readable : {TRUE}, made : Int, expires : Nat, content : P]
    BY ChartTypes DEF File
  <1>2. NoPolicy.reward \in Nat \ {0}
    BY DEF NoPolicy
  <1>3. file.readable => file.content.reward \in Nat \ {0}
    <2> HIDE DEF file
    <2>1. file.readable => file.content \in P
      BY <1>1
    <2> QED
      BY <2>1
  <1> QED
    BY <1>2, <1>3 DEF Loaded

(* Whatever chart comes up, the decision of a mode is sound: the stop is   *)
(* on the losing and the target on the winning side of the entry decided   *)
(* on, and a sized market order loses no more than the risk money from     *)
(* there, at a stop within the limits of the mode.                         *)
THEOREM OffersAreSound ==
    ASSUME NEW chart, RealChart(chart), NEW mode \in TradeModes
    PROVE  /\ SoundOffer(mode, OfferOf(mode, chart))
           /\ Trailable(OfferOf(mode, chart)) /\ Priced(OfferOf(mode, chart))
  <1> DEFINE bars == chart.bars
             n == Len(bars)
             i == SignalIndex(bars, chart.now)
             offer == OfferOf(mode, chart)
             Fine(o) == SoundOffer(mode, o) /\ Trailable(o) /\ Priced(o)
  <1>1. Fine(NoOffer)
    BY DEF SoundOffer, SizedMarket, Priced, Trailable, NoOffer, Offer, NoEntry
  <1>2. CASE ~UsableBars(bars)
    <2>1. offer = NoOffer
      BY <1>2, Zenon DEF OfferOf
    <2> HIDE DEF offer
    <2> QED
      BY <1>1, <2>1 DEF offer
  <1>3. CASE UsableBars(bars)
    <2>1. /\ bars \in Seq(Candles) /\ n \in Nat /\ n >= 3
          /\ \A k \in 1..n : bars[k] \in Candles /\ bars[k].low <= bars[k].high
      BY <1>3, ChartTypes DEF UsableBars
    <2>2. i \in 2..n
      BY <2>1 DEF SignalIndex
    <2>3. chart.price \in Int /\ chart.spread \in Int
      BY ChartTypes
    <2> HIDE DEF i
    <2>4. CASE mode = "LEGACY_LEVELS"
      <3> DEFINE levels == RefreshedLevels(chart.levels, chart.htf)
      <3>1. offer = LevelReaction(bars, i, chart.daily, levels, chart.spread)
        BY <1>3, <2>4, Zenon DEF OfferOf, i
      <3>2. levels \in SUBSET Int
        BY ChartTypes, LevelsAreSpread
      <3>3. /\ bars[i - 1] \in Candles /\ bars[i] \in Candles
            /\ bars[i - 1].high >= bars[i - 1].low
        <4>1. i - 1 \in 1..n /\ i \in 1..n
          BY <2>1, <2>2
        <4>2. bars[i - 1].low <= bars[i - 1].high /\ bars[i - 1] \in Candles
          BY <2>1, <4>1
        <4> QED
          BY <2>1, <4>1, <4>2 DEF Candles
      <3> DEFINE daily == chart.daily
                 spread == chart.spread
      <3> HIDE DEF offer, levels, bars, daily, spread
      <3>4. /\ SoundOffer("LEGACY_LEVELS", LevelReaction(bars, i, daily, levels, spread))
            /\ Trailable(LevelReaction(bars, i, daily, levels, spread))
            /\ Priced(LevelReaction(bars, i, daily, levels, spread))
        BY <3>2, <3>3, LevelOffersAreSound, LevelOffersTrail
      <3> QED
        BY <2>4, <3>1, <3>4 DEF offer, daily, spread
    <2>5. CASE mode = "EMA_PULLBACK_H1"
      <3> DEFINE e == EmaPullback(bars, i, chart.daily, chart.price, chart.spread)
                 least == StopMinDistance
                 most == StopMaxDistance
      <3>1. offer = Sized(e, chart.spread, least, most)
        BY <1>3, <2>5, Zenon DEF OfferOf, i
      <3>2. Sided(e)
        BY <2>1, <2>2, <2>3, PullbackIsSided
      <3>3. /\ least \in Int /\ most \in Int /\ 0 < least
            /\ least..most = StopLimits(mode)
        BY <2>5 DEF StopMinDistance, StopMaxDistance, StopLimits
      <3> HIDE DEF e, least, most, offer
      <3> QED
        BY <3>1, <3>2, <3>3, SizedIsSound, SizedTrails DEF offer
    <2>6. CASE mode = "SCALP_V1"
      <3> DEFINE macro == Loaded(chart.macro, chart.now, NoMacro)
                 policy == Loaded(chart.policy, chart.now, NoPolicy)
                 hours == HourCloses(bars)
                 e == Scalp(bars, i, chart.daily, hours, chart.price, chart.spread,
                            macro, policy)
                 least == ScalpStopMin
                 most == ScalpStopMax
                 sized == Sized(e, chart.spread, least, most)
      <3>1. offer = Governed(macro, sized)
        BY <1>3, <2>6, Zenon DEF OfferOf, i
      <3>2. Sided(e)
        <4>1. policy.reward \in Nat \ {0}
          BY PolicyRewards
        <4> HIDE DEF policy, macro, hours
        <4> QED
          BY <2>1, <2>2, <2>3, <4>1, ScalpIsSided
      <3>3. /\ least \in Int /\ most \in Int /\ 0 < least
            /\ least..most = StopLimits(mode)
        BY <2>6 DEF ScalpStopMin, ScalpStopMax, StopLimits
      <3>4. Fine(sized)
        <4> HIDE DEF e, least, most
        <4> QED
          BY <3>2, <3>3, SizedIsSound, SizedTrails
      <3> HIDE DEF sized, offer, macro
      <3>5. offer \in {NoOffer, sized}
        BY <3>1 DEF Governed
      <3> QED
        BY <1>1, <3>4, <3>5 DEF offer
    <2> QED
      BY <2>4, <2>5, <2>6 DEF TradeModes
  <1> QED
    BY <1>2, <1>3

(* The position a sound decision opens, at whatever quote the order goes   *)
(* out and whatever price it is filled at: it can lose more at its stop    *)
(* than the risk money by no more than the quote's drift from the entry    *)
(* decided on costs the lot, and while the quote is between the stop and   *)
(* the target both are where they were decided but for the slip.           *)
THEOREM PositionsAreSound ==
    ASSUME NEW mode, NEW o, SoundOffer(mode, o), Trailable(o), Priced(o),
           NEW quote \in Int, NEW fill \in Int
    PROVE  SoundPosition(o, quote, fill)
  <1> DEFINE p == Opened(o, quote, fill)
             drift == Distance(quote, o.entry)
             risk == Distance(quote, o.stop)
             reward == Distance(o.target, quote)
             decided == Distance(o.entry, o.stop)
             lots == o.lots
  <1> SUFFICES ASSUME SizedMarket(o)
               PROVE  /\ p.side * (p.entry - p.stop) >= 0
                      /\ p.side * (p.target - p.entry) >= 0
                      /\ Loss(p) <= RiskMoney + drift * o.lots * LotOunces
                      /\ /\ o.side * (quote - o.stop) >= 0
                         /\ o.side * (o.target - quote) >= 0
                         => /\ p.stop - o.stop = fill - quote
                            /\ p.target - o.target = fill - quote
    BY DEF SoundPosition
  <1>1. /\ o.side \in Sides /\ o.kind = "MARKET" /\ o.entry \in Int /\ o.stop \in Int
        /\ o.target \in Int /\ lots \in Nat /\ RiskMoney \in Nat
        /\ decided * lots * LotOunces <= RiskMoney
    BY ChartConfig DEF SizedMarket, Trailable, Priced, SoundOffer, Loss
  <1>2. /\ p.side = o.side /\ p.entry = fill /\ p.stop = fill - o.side * risk
        /\ p.target = fill + o.side * reward /\ p.lots = lots
    BY <1>1 DEF Opened, EnteredAt, Offer
  <1>3. /\ risk \in Nat /\ reward \in Nat /\ drift \in Nat /\ decided \in Nat
        /\ risk <= drift + decided
    BY <1>1 DEF Distance
  <1>4. /\ o.side * (quote - o.stop) >= 0 => o.side * risk = quote - o.stop
        /\ o.side * (o.target - quote) >= 0 => o.side * reward = o.target - quote
    <2>1. CASE o.side = 1
      BY <1>1, <2>1 DEF Distance
    <2>2. CASE o.side = -1
      BY <1>1, <2>2 DEF Distance
    <2> QED
      BY <1>1, <2>1, <2>2 DEF Sides
  <1>5. Distance(p.entry, p.stop) = risk
    <2> HIDE DEF risk, p
    <2> QED
      BY <1>1, <1>2, <1>3 DEF Distance, Sides
  <1>6. risk * lots <= RiskMoney + drift * lots
    <2> HIDE DEF risk, drift, decided, lots
    <2>1. risk * lots <= (drift + decided) * lots
      BY <1>1, <1>3
    <2>2. (drift + decided) * lots = drift * lots + decided * lots
      BY <1>1, <1>3
    <2>3. /\ decided * lots \in Nat /\ drift * lots \in Nat /\ risk * lots \in Nat
          /\ decided * lots * LotOunces = decided * lots
      BY <1>1, <1>3 DEF LotOunces
    <2> QED
      BY <1>1, <2>1, <2>2, <2>3
  <1>7. Loss(p) <= RiskMoney + drift * lots * LotOunces
    <2> HIDE DEF risk, drift, p, lots
    <2>1. risk * lots \in Nat /\ drift * lots \in Nat
      BY <1>1, <1>3
    <2>2. Loss(p) = risk * lots
      BY <1>2, <1>5, <2>1 DEF Loss, LotOunces
    <2>3. drift * lots * LotOunces = drift * lots
      BY <2>1 DEF LotOunces
    <2> QED
      BY <1>6, <2>2, <2>3
  <1> HIDE DEF p, risk, reward
  <1> QED
    BY <1>1, <1>2, <1>3, <1>4, <1>7 DEF Sides

(* The rules hold on every chart that can come up.                         *)
LEMMA SoundOnCharts ==
    ASSUME NEW chart, RealChart(chart)
    PROVE  SoundOn(chart)
  <1> DEFINE closed == Closed(chart)
             levels == RefreshedLevels(chart.levels, chart.htf)
  <1>1. ASSUME NEW mode \in TradeModes
        PROVE  SoundMode(mode, OfferOf(mode, chart), OfferOf(mode, closed),
                         mode # "SCALP_V1" /\ UsableBars(closed.bars), chart.quotes)
    <2> DEFINE offer == OfferOf(mode, chart)
               other == OfferOf(mode, closed)
               whole == mode # "SCALP_V1" /\ UsableBars(closed.bars)
               quotes == chart.quotes
    <2>1. SoundOffer(mode, offer) /\ Trailable(offer) /\ Priced(offer)
      BY OffersAreSound
    <2>2. whole => other = offer
      <3> SUFFICES ASSUME whole PROVE other = offer
        OBVIOUS
      <3>1. mode \in {"LEGACY_LEVELS", "EMA_PULLBACK_H1"}
        BY DEF TradeModes
      <3> QED
        BY <3>1, FormingHasNoOffer
    <2>q. quotes \subseteq Int
      BY ChartTypes
    <2> HIDE DEF offer, other, whole, quotes
    <2>3. ASSUME offer.side # 0, NEW quote \in quotes, NEW fill \in quotes
          PROVE  /\ SoundPosition(offer, quote, fill)
                 /\ \A p \in Tracked(offer, quote, fill), k \in 0..4 :
                      SoundTrail(p, p.entry + p.side * k * 400)
      <3>1. quote \in Int /\ fill \in Int
        BY <2>q
      <3>2. SoundPosition(offer, quote, fill)
        BY <2>1, <3>1, PositionsAreSound
      <3>3. ASSUME NEW p \in Tracked(offer, quote, fill), NEW k \in 0..4
            PROVE  SoundTrail(p, p.entry + p.side * k * 400)
        <4>1. offer.side \in Sides /\ offer.level \in Int /\ offer.stop \in Int
          BY <2>1, <2>3 DEF Trailable
        <4>2. Opened(offer, quote, fill).stop \in Int
          <5>1. Distance(quote, offer.stop) \in Int
            BY <3>1, <4>1 DEF Distance
          <5>2. fill - offer.side * Distance(quote, offer.stop) \in Int
            BY <3>1, <4>1, <5>1 DEF Sides
          <5> QED
            BY <4>1, <5>2 DEF Opened, EnteredAt, Offer
        <4>3. p.side \in Sides /\ p.entry \in Int /\ p.stop \in Int
          BY <3>1, <4>1, <4>2 DEF Tracked
        <4> DEFINE price == p.entry + p.side * k * 400
        <4>4. price \in Int
          BY <4>3 DEF Sides
        <4> HIDE DEF price
        <4>5. SoundTrail(p, price)
          BY <4>3, <4>4, TrailingIsSound
        <4> QED
          BY <4>5 DEF price
      <3> QED
        BY <3>2, <3>3
    <2>4. SoundMode(mode, offer, other, whole, quotes)
      BY <2>1, <2>2, <2>3, Zenon DEF SoundMode
    <2> QED
      BY <2>4 DEF offer, other, whole, quotes
  <1>2. ASSUME NEW side \in Sides
        PROVE  SoundEvidence(PatternEvidence(levels, chart.bars, chart.now, side),
                             PatternEvidence(levels, chart.bars, chart.now, -side),
                             PatternEvidence(levels, closed.bars, closed.now, side))
    <2>1. PatternEvidence(levels, closed.bars, closed.now, side)
            = PatternEvidence(levels, chart.bars, chart.now, side)
      BY FormingIsNoEvidence
    <2>2. PatternEvidence(levels, chart.bars, chart.now, side) = "PATTERN_MATCH" =>
            PatternEvidence(levels, chart.bars, chart.now, -side)
              = "PATTERN_DIRECTION_MISMATCH"
      BY EvidenceIsOneSided
    <2> QED
      BY <2>1, <2>2, Zenon DEF SoundEvidence
  <1>3. SoundLevels(chart.levels, levels)
    BY ChartTypes, LevelsAreSpread
  <1>4. SoundRules(chart, closed, levels)
    BY <1>1, <1>2, <1>3, Zenon DEF SoundRules
  <1> QED
    BY <1>4, Zenon DEF SoundOn

-----------------------------------------------------------------------------
(* Offers *)

(* Every offer has a side or none, and a level.                            *)
LEMMA OfferType ==
    ASSUME NEW m \in Modes, NEW o \in Offers[m]
    PROVE  o.side \in Sides \cup {0} /\ o.level \in Int
  <1>1. PICK chart \in Charts : /\ o.side = OfferOf(m, chart).side
                               /\ o.level = OfferOf(m, chart).level
    BY DEF Offers
  <1>2. m \in TradeModes
    BY DEF Modes, TradeModes
  <1>3. RealChart(chart)
    BY ChartsAreReal
  <1>4. Trailable(OfferOf(m, chart))
    BY <1>2, <1>3, OffersAreSound
  <1> QED
    BY <1>1, <1>4 DEF Trailable

-----------------------------------------------------------------------------
(* The inductive invariant *)

AnyOffer == UNION { Offers[m] : m \in Modes }
Pair == [offer : AnyOffer, index : Nat]
Shadows == { << >>, <<"shadow">> }

Task ==
    [ at : {"idle", "bars", "gate", "news", "daily", "order", "cancel"},
      store : {"live", "shadow"}, queue : Shadows,
      offer : AnyOffer \cup {None}, day : Nat \cup {None}, due : SUBSET Pair ]

Book == [day : Nat \cup {None}, count : Nat, entries : SUBSET Entries]

Typed ==
    /\ setup \in Setups /\ clock \in 0..MaxTime
    /\ watcher \in [Frames -> Nat \cup {None}]
    /\ index \in [Frames -> Nat]
    /\ task \in Task
    /\ book \in [Modes -> Book]
    /\ recent \subseteq Entries
    /\ taken \subseteq [entry : Entries, day : Nat]
    /\ pairs \subseteq Pair
    /\ calendar \in [day : Nat \cup {None}, on : BOOLEAN]
    /\ cache \in Nat \cup {None} /\ poller \in Nat \cup {None}

(* A shadow cycle runs another strategy than the live one, and what an     *)
(* order or a cancellation is awaited for.                                 *)
TaskInv ==
    /\ task.store = "shadow" \/ task.queue # << >> =>
          setup.shadow \in Modes \ {"LEGACY_LEVELS", setup.active}
    /\ task.at = "order" =>
          /\ task.store = "live" /\ ~setup.xauex
          /\ task.offer \in AnyOffer
          /\ task.offer.sized /\ task.offer.side # 0
    /\ task.at = "cancel" => task.store = "live"
    /\ task.at = "cancel" <=> task.due # {}
    /\ task.at = "news" => task.day \in Nat

(* A feed that blocks was last fetched, or last lost, on a day on which    *)
(* saving it failed.                                                       *)
CalendarInv ==
    ~calendar.on \/ cache = None => calendar.day \in unsaved \cup {None}

Candle == index[Frame(setup.active)]

(* A candle under way is not finalised, a finalised one left no expired    *)
(* pair, and one that waits for cancellations has all of them in due.      *)
FinalInv ==
    /\ final \in Nat /\ final <= Candle
    /\ task.at # "idle" /\ task.store = "live" => final < Candle
    /\ task.at = "cancel" => Expired(pairs) \subseteq task.due
    /\ final = Candle /\ final > 0 => Expired(pairs) = {}

StopInv == working \subseteq pairs \cup stray /\ FinalInv

Apart(e, f) ==
    \/ e.side # f.side
    \/ ~Near(e.level, f.level, setup.active)
    \/ Distance(e.index, f.index) > Cooldown[setup.active]

(* What the process took is remembered where the limits look for it, was   *)
(* taken in earlier candles than the one under way, and is apart.          *)
SpacingInv ==
    /\ \A e \in taken :
          /\ e.entry \in IF setup.active = "LEGACY_LEVELS" THEN recent
                          ELSE book[setup.active].entries
          /\ e.entry.index <= Candle
          /\ task.at \notin {"idle", "cancel"} /\ task.store = "live"
                => e.entry.index < Candle
          /\ task.at = "order" => Apart(e.entry, EntryAt(setup.active, task.offer))
    /\ \A e, f \in taken : e = f \/ Apart(e.entry, f.entry)

On(d) == { e \in taken : e.day = d }

(* The count of a day is at least what was taken on it; the order under    *)
(* way still fits, on whichever day it is answered.                        *)
CountsCapped == \A m \in Modes : book[m].count <= Cap[m]

DaysCapped ==
    LET b == book[setup.active]
    IN  /\ b.day <= Today
        /\ \A e \in taken : /\ e.day <= b.day
                             /\ Cardinality(On(e.day)) <= Cap[setup.active]
        /\ Cardinality(On(b.day)) <= b.count
        /\ task.at = "order" => Reset(b).count < Cap[setup.active]

CapInv ==
    /\ IsFiniteSet(taken)
    /\ CountsCapped
    /\ setup.active # "LEGACY_LEVELS" => DaysCapped

IInv == Typed /\ TaskInv /\ CalendarInv /\ StopInv /\ SpacingInv /\ CapInv

-----------------------------------------------------------------------------
(* What a step makes of the task *)

LEMMA Days ==
    ASSUME clock \in 0..MaxTime
    PROVE  Today \in Nat
  BY LoopConfig DEF Today

LEMMA FrameType ==
    ASSUME NEW m
    PROVE  Frame(m) \in Frames
  BY DEF Frame, Frames

LEMMA SetupType ==
    ASSUME setup \in Setups
    PROVE  setup.active \in Modes /\ setup.shadow \in Modes \cup {"NONE"}
  BY LoopConfig

LEMMA ModeType ==
    ASSUME setup \in Setups, task \in Task, TaskInv
    PROVE  /\ Mode \in Modes
           /\ task.store = "live" => Mode = setup.active
           /\ task.store # "live" => Mode \notin {"LEGACY_LEVELS", setup.active}
  <1>1. task.store \in {"live", "shadow"}
    BY DEF Task
  <1> QED
    BY <1>1, SetupType DEF Mode, TaskInv

(* The next cycle of the tick: none, or the shadow strategy's.             *)
LEMMA BegunType ==
    ASSUME NEW q \in Shadows
    PROVE  /\ Begun(q) \in Task
           /\ Begun(q).queue = << >> /\ Begun(q).due = {}
           /\ q = << >> => Begun(q).at = "idle" /\ Begun(q).store = "live"
           /\ q # << >> => Begun(q).at = "bars" /\ Begun(q).store = "shadow"
  <1>1. /\ Idle \in Task /\ Idle.queue = << >> /\ Idle.due = {}
        /\ Idle.at = "idle" /\ Idle.store = "live"
    BY DEF Idle, Task, Shadows
  <1>2. CASE q = << >>
    BY <1>1, <1>2 DEF Begun
  <1>3. CASE q = <<"shadow">>
    <2>1. Head(q) = "shadow" /\ Tail(q) = << >> /\ q # << >>
      BY <1>3
    <2> DEFINE r == [Idle EXCEPT !.at = "bars", !.store = "shadow"]
    <2>2. Begun(q) = [r EXCEPT !.queue = << >>]
      BY <2>1, Zenon DEF Begun
    <2>3. /\ r \in Task /\ r.queue = << >> /\ r.due = {}
          /\ r.at = "bars" /\ r.store = "shadow"
      BY <1>1 DEF Task
    <2> HIDE DEF r
    <2>4. [r EXCEPT !.queue = << >>] = r
      BY <2>3 DEF Task
    <2> QED
      BY <2>1, <2>2, <2>3, <2>4
  <1> QED
    BY <1>2, <1>3 DEF Shadows

(* A cycle that ends begins the next one, or waits for cancellations.      *)
LEMMA EndsType ==
    ASSUME task \in Task, TaskInv, task.at # "cancel",
           NEW ps, ps \subseteq Pair, Ends(ps)
    PROVE  /\ task' \in Task
           /\ \/ /\ task.store = "live" /\ Expired(ps) # {}
                 /\ task'.at = "cancel" /\ task'.store = "live"
                 /\ task'.queue = task.queue /\ task'.due = Expired(ps)
                 /\ final' = final
              \/ /\ task' = Begun(task.queue) /\ task'.due = {}
                 /\ task'.queue = << >>
                 /\ \/ task'.at = "idle" /\ task'.store = "live"
                    \/ /\ task'.at = "bars" /\ task'.store = "shadow"
                       /\ task.queue # << >>
                 /\ \/ /\ task.store = "live" /\ Expired(ps) = {}
                       /\ final' = Candle
                    \/ task.store = "shadow" /\ final' = final
  <1>1. task.store \in {"live", "shadow"} /\ task.queue \in Shadows
    BY DEF Task
  <1>2. CASE task.store = "live" /\ Expired(ps) # {}
    <2>1. task' = [task EXCEPT !.at = "cancel", !.due = Expired(ps)] /\ final' = final
      BY <1>2 DEF Ends, Finalized
    <2>2. Expired(ps) \in SUBSET Pair
      BY DEF Expired
    <2>3. [task EXCEPT !.at = "cancel"] \in Task
      BY DEF Task
    <2>4. /\ task' \in Task /\ task'.at = "cancel" /\ task'.store = "live"
          /\ task'.queue = task.queue /\ task'.due = Expired(ps)
      BY <1>2, <2>1, <2>2, <2>3 DEF Task
    <2> QED
      BY <1>2, <2>1, <2>4
  <1>3. CASE ~(task.store = "live" /\ Expired(ps) # {})
    <2>1. /\ task' = Begun(task.queue)
          /\ \/ task.store = "live" /\ Expired(ps) = {} /\ final' = Candle
             \/ task.store = "shadow" /\ final' = final
      BY <1>1, <1>3 DEF Ends, Finalized, Candle
    <2> QED
      BY <1>1, <2>1, BegunType
  <1> QED
    BY <1>2, <1>3

(* An action that ends a cycle keeps the task sound.                       *)
LEMMA EndsKeepsTask ==
    ASSUME task \in Task, TaskInv, task.at # "cancel", setup' = setup,
           NEW ps, ps \subseteq Pair, Ends(ps)
    PROVE  task' \in Task /\ TaskInv'
  <1>1. task' \in Task /\ task'.at \in {"cancel", "idle", "bars"}
    BY EndsType
  <1>2. task'.at = "cancel" => task'.store = "live" /\ task'.due # {}
    BY EndsType
  <1>3. task'.at # "cancel" => task'.due = {}
    BY EndsType
  <1>4. task'.store = "shadow" \/ task'.queue # << >>
          => setup.shadow \in Modes \ {"LEGACY_LEVELS", setup.active}
    BY EndsType DEF TaskInv
  <1> QED
    BY <1>1, <1>2, <1>3, <1>4 DEF TaskInv

LEMMA IdleKeepsTask ==
    ASSUME task' = Idle
    PROVE  task' \in Task /\ TaskInv'
  BY DEF Idle, Task, Shadows, TaskInv

(* An action that only moves on to the next await of the cycle.            *)
LEMMA MoveKeepsTask ==
    ASSUME task \in Task, TaskInv, task.at # "cancel", setup' = setup,
           NEW at \in {"gate", "news", "daily"}, NEW day \in Nat \cup {None},
           at = "news" => day \in Nat,
           task' = [task EXCEPT !.at = at, !.day = day]
    PROVE  task' \in Task /\ TaskInv'
  <1> DEFINE r == [task EXCEPT !.at = at]
  <1>1. r \in Task
    BY DEF Task
  <1>2. task' = [r EXCEPT !.day = day]
    BY Zenon
  <1>3. /\ r.at = at /\ r.store = task.store /\ r.queue = task.queue
        /\ r.due = task.due
    BY DEF Task
  <1> HIDE DEF r
  <1>4. task' \in Task
    BY <1>1, <1>2 DEF Task
  <1>5. /\ task'.at = at /\ task'.store = task.store
        /\ task'.queue = task.queue /\ task'.due = task.due
        /\ task'.day = day
    BY <1>1, <1>2, <1>3 DEF Task
  <1> QED
    BY <1>4, <1>5 DEF TaskInv

LEMMA LiveThenShadow == <<"live">> \o <<"shadow">> = <<"live", "shadow">>
  <1> DEFINE s == <<"live">> \o <<"shadow">>
             t == <<"live", "shadow">>
  <1>1. /\ s \in Seq({"live", "shadow"})
        /\ Len(s) = 2 /\ s[1] = "live" /\ s[2] = "shadow"
    OBVIOUS
  <1>2. /\ t \in Seq({"live", "shadow"})
        /\ Len(t) = 2 /\ t[1] = "live" /\ t[2] = "shadow"
    OBVIOUS
  <1> HIDE DEF s, t
  <1>3. \A k \in 1..Len(s) : s[k] = t[k]
    BY <1>1, <1>2
  <1>4. s = t
    BY <1>1, <1>2, <1>3, SeqEqual
  <1> QED
    BY <1>4 DEF s, t

(* The tick that closes candles starts their cycles, the live one first.   *)
LEMMA TickStarts ==
    ASSUME Typed, TaskInv, Tick
    PROVE  /\ task' \in Task /\ TaskInv'
           /\ index' \in [Frames -> Nat]
           /\ watcher' \in [Frames -> Nat \cup {None}]
           /\ task'.at \in {"idle", "bars"} /\ task'.due = {}
           /\ \A f \in Frames : index'[f] \in {index[f], index[f] + 1}
           /\ task'.at = "bars" /\ task'.store = "live"
                => index'[Frame(setup.active)] = Candle + 1
  <1>1. PICK t \in {clock, clock - 1} \cap Nat :
          LET closed == { f \in Frames : watcher[f] \notin {None, Bucket(f, t)} }
              live == IF Frame(setup.active) \in closed THEN <<"live">> ELSE << >>
              shadow == IF /\ setup.shadow \notin {"NONE", "LEGACY_LEVELS",
                                                   setup.active}
                           /\ Frame(setup.shadow) \in closed
                        THEN <<"shadow">> ELSE << >>
          IN  /\ watcher' = [f \in Frames |-> Bucket(f, t)]
              /\ index' = [f \in Frames |->
                              IF f \in closed THEN index[f] + 1 ELSE index[f]]
              /\ task' = Begun(live \o shadow)
    BY DEF Tick
  <1> DEFINE closed == { f \in Frames : watcher[f] \notin {None, Bucket(f, t)} }
             live == IF Frame(setup.active) \in closed THEN <<"live">> ELSE << >>
             shadow == IF /\ setup.shadow \notin {"NONE", "LEGACY_LEVELS",
                                                  setup.active}
                          /\ Frame(setup.shadow) \in closed
                       THEN <<"shadow">> ELSE << >>
  <1>2. /\ watcher' = [f \in Frames |-> Bucket(f, t)]
        /\ index' = [f \in Frames |->
                        IF f \in closed THEN index[f] + 1 ELSE index[f]]
        /\ task' = Begun(live \o shadow)
    BY <1>1
  <1>3. \A f \in Frames : Bucket(f, t) \in Nat
    <2>1. t \in Nat /\ HourLength \in Nat \ {0}
      BY ChartConfig
    <2> QED
      BY <2>1 DEF Bucket
  <1>4. /\ index \in [Frames -> Nat] /\ setup' = setup
        /\ Frame(setup.active) \in Frames
        /\ setup.active \in Modes /\ setup.shadow \in Modes \cup {"NONE"}
    BY FrameType, SetupType DEF Typed, Tick
  <1>5. shadow \in Shadows /\ shadow # << >> =>
          setup.shadow \in Modes \ {"LEGACY_LEVELS", setup.active}
    BY <1>4
  <1>6. index' \in [Frames -> Nat]
        /\ \A f \in Frames : index'[f] \in {index[f], index[f] + 1}
    BY <1>2, <1>4
  <1>7. watcher' \in [Frames -> Nat \cup {None}]
    BY <1>2, <1>3
  <1>8. shadow \in Shadows
    BY DEF Shadows
  <1>9. CASE Frame(setup.active) \in closed
    <2>1. index'[Frame(setup.active)] = Candle + 1
      BY <1>2, <1>4, <1>9 DEF Candle
    <2>2. live \o shadow # << >> /\ Head(live \o shadow) = "live"
          /\ Tail(live \o shadow) = shadow
      <3>1. /\ <<"live">> \o << >> = <<"live">>
            /\ Head(<<"live">>) = "live" /\ Tail(<<"live">>) = << >>
        OBVIOUS
      <3>2. live = <<"live">>
        BY <1>9
      <3>3. shadow = << >> \/ shadow = <<"shadow">>
        BY <1>8 DEF Shadows
      <3>4. /\ <<"live", "shadow">> # << >> /\ <<"live">> # << >>
            /\ Head(<<"live", "shadow">>) = "live"
        OBVIOUS
      <3>5. Tail(<<"live", "shadow">>) = <<"shadow">>
        OBVIOUS
      <3> HIDE DEF live, shadow, closed
      <3> QED
        BY <3>1, <3>2, <3>3, <3>4, <3>5, LiveThenShadow
    <2> HIDE DEF live, shadow, closed
    <2> DEFINE r == [Idle EXCEPT !.at = "bars", !.store = "live"]
    <2>3. task' = [r EXCEPT !.queue = shadow]
      BY <1>2, <2>2, Zenon DEF Begun
    <2>4. r \in Task /\ r.at = "bars" /\ r.store = "live" /\ r.due = {}
      BY DEF Idle, Task, Shadows
    <2> HIDE DEF r
    <2>5. /\ task' \in Task /\ task'.at = "bars" /\ task'.store = "live"
          /\ task'.due = {} /\ task'.queue = shadow
      BY <1>8, <2>3, <2>4 DEF Task
    <2>6. TaskInv'
      BY <1>4, <1>5, <1>8, <2>5 DEF TaskInv
    <2> QED
      BY <1>6, <1>7, <2>1, <2>5, <2>6
  <1>10. CASE Frame(setup.active) \notin closed
    <2>1. live \o shadow = shadow
      <3>1. << >> \o << >> = << >> /\ << >> \o <<"shadow">> = <<"shadow">>
        OBVIOUS
      <3>2. live = << >>
        BY <1>10
      <3>3. shadow = << >> \/ shadow = <<"shadow">>
        BY <1>8 DEF Shadows
      <3> HIDE DEF live, shadow, closed
      <3> QED
        BY <3>1, <3>2, <3>3
    <2> HIDE DEF live, shadow, closed
    <2>2. task' = Begun(shadow)
      BY <1>2, <2>1
    <2> QED
      BY <1>4, <1>5, <1>6, <1>7, <1>8, <2>2, BegunType DEF TaskInv
  <1> QED
    BY <1>9, <1>10

(* A fetch of the calendar, or its failure.                                *)
LEMMA FetchedKeeps ==
    ASSUME calendar \in [day : Nat \cup {None}, on : BOOLEAN],
           cache \in Nat \cup {None}, NEW day \in Nat, Fetched(day)
    PROVE  /\ calendar' \in [day : Nat \cup {None}, on : BOOLEAN]
           /\ cache' \in Nat \cup {None}
           /\ CalendarInv => CalendarInv'
  <1>1. None \notin Nat
    BY DEF None
  <1>2. ASSUME NEW c \in [day : Nat \cup {None}, on : BOOLEAN],
               NEW file \in Nat \cup {None}
        PROVE  /\ Reloaded(c, file) \in [day : Nat \cup {None}, on : BOOLEAN]
               /\ file \in Nat => Reloaded(c, file).on /\ Reloaded(c, file).day = file
               /\ file \notin Nat => Reloaded(c, file).day = c.day
    BY DEF Reloaded
  <1>3. CASE calendar' = Reloaded(calendar, cache) /\ UNCHANGED << cache, unsaved >>
    BY <1>1, <1>2, <1>3 DEF CalendarInv
  <1>4. CASE calendar' = [day |-> day, on |-> TRUE] /\ cache' = day /\ UNCHANGED unsaved
    BY <1>1, <1>4 DEF CalendarInv
  <1>5. CASE /\ cache' \in {cache, None}
             /\ calendar' = Reloaded([day |-> day, on |-> TRUE], cache')
             /\ unsaved' = unsaved \cup {day}
    <2>1. cache' \in Nat \cup {None}
      BY <1>5
    <2>2. [day |-> day, on |-> TRUE] \in [day : Nat \cup {None}, on : BOOLEAN]
      OBVIOUS
    <2>3. /\ calendar' \in [day : Nat \cup {None}, on : BOOLEAN]
          /\ cache' \in Nat => calendar'.on /\ calendar'.day = cache'
          /\ cache' \notin Nat => calendar'.day = day
      BY <1>2, <1>5, <2>1, <2>2
    <2> QED
      BY <1>1, <1>5, <2>1, <2>3 DEF CalendarInv
  <1> QED
    BY <1>3, <1>4, <1>5 DEF Fetched

LEMMA RestartKeeps ==
    ASSUME clock \in 0..MaxTime, cache \in Nat \cup {None}, Restart
    PROVE  /\ calendar' \in [day : Nat \cup {None}, on : BOOLEAN]
           /\ cache' \in Nat \cup {None}
           /\ CalendarInv'
  <1>1. None \notin Nat /\ Today \in Nat
    BY Days DEF None
  <1>2. CASE /\ calendar' = Reloaded([day |-> None, on |-> FALSE], cache)
             /\ UNCHANGED << cache, unsaved >>
    <2>1. CASE cache \in Nat
      BY <1>1, <1>2, <2>1 DEF Reloaded, CalendarInv
    <2>2. CASE cache \notin Nat
      <3>1. calendar' = [day |-> None, on |-> FALSE]
        BY <1>2, <2>2 DEF Reloaded
      <3>2. calendar'.day = None /\ calendar'.on = FALSE
        BY <3>1
      <3>3. calendar' \in [day : Nat \cup {None}, on : BOOLEAN]
        BY <3>1
      <3>4. cache' \in Nat \cup {None}
        BY <1>2
      <3> QED
        BY <3>2, <3>3, <3>4 DEF CalendarInv
    <2> QED
      BY <2>1, <2>2
  <1>3. CASE calendar' = [day |-> Today, on |-> TRUE] /\ cache' = Today
    BY <1>1, <1>3 DEF CalendarInv
  <1> QED
    BY <1>2, <1>3 DEF Restart

LEMMA EntryType ==
    ASSUME Typed, NEW m \in Modes, NEW o \in AnyOffer, o.side # 0
    PROVE  EntryAt(m, o) \in Entries
  <1>1. o.side \in Sides /\ o.level \in Int
    BY OfferType DEF AnyOffer
  <1>2. index[Frame(m)] \in Nat
    BY FrameType DEF Typed
  <1> QED
    BY <1>1, <1>2 DEF EntryAt, Entries

LEMMA BookType ==
    ASSUME Typed, NEW m \in Modes
    PROVE  /\ Reset(book[m]) \in Book
           /\ \A o \in AnyOffer : o.side # 0 => Recorded(m, o) \in Book
  <1>1. Today \in Nat /\ book[m] \in Book
    BY Days DEF Typed
  <1>2. Reset(book[m]) \in Book
    <2>1. [book[m] EXCEPT !.day = Today, !.count = 0] \in Book
      BY <1>1 DEF Book
    <2> QED
      BY <1>1, <2>1 DEF Reset
  <1>3. ASSUME NEW o \in AnyOffer, o.side # 0
        PROVE  Recorded(m, o) \in Book
    <2>1. EntryAt(m, o) \in Entries
      BY <1>3, EntryType
    <2>2. Reset(book[m]).count + 1 \in Nat
      BY <1>2 DEF Book
    <2>3. book[m].entries \cup {EntryAt(m, o)} \in SUBSET Entries
      BY <1>1, <2>1 DEF Book
    <2> QED
      BY <1>1, <2>2, <2>3 DEF Recorded, Book
  <1> QED
    BY <1>2, <1>3

LEMMA TypesStep ==
    ASSUME Typed, TaskInv, Step
    PROVE  Typed' /\ TaskInv'
  <1>1. CASE Tick
    BY <1>1, TickStarts DEF Tick, Typed
  <1>2. CASE BarsFail
    <2>1. task' \in Task /\ TaskInv'
      <3>1. CASE Ends(pairs)
        BY <1>2, <3>1, EndsKeepsTask DEF BarsFail, Typed
      <3>2. CASE task' = Begun(task.queue)
        <4>1. task.queue \in Shadows /\ setup' = setup
          BY <1>2 DEF BarsFail, Typed, Task
        <4> QED
          BY <3>2, <4>1, BegunType DEF TaskInv
      <3> QED
        BY <1>2, <3>1, <3>2 DEF BarsFail
    <2> QED
      BY <1>2, <2>1 DEF BarsFail, Typed
  <1>3. CASE BarsArrive
    <2>1. AfterBars \in {"daily", "gate"} /\ task.day \in Nat \cup {None}
      BY DEF AfterBars, Typed, Task
    <2>2. task' = [task EXCEPT !.at = AfterBars, !.day = task.day]
      BY <1>3 DEF BarsArrive, Typed, Task
    <2>3. task' \in Task /\ TaskInv'
      BY <1>3, <2>1, <2>2, MoveKeepsTask DEF BarsArrive, Typed
    <2> QED
      BY <1>3, <2>3 DEF BarsArrive, Typed
  <1>4. ASSUME NEW on, NEW clear, Cleared(on, clear), task.at # "cancel",
               setup' = setup
        PROVE  task' \in Task /\ TaskInv'
    <2>1. CASE Ends(pairs)
      BY <1>4, <2>1, EndsKeepsTask DEF Typed
    <2>2. CASE task' = [task EXCEPT !.at = "daily", !.day = None]
      BY <1>4, <2>2, MoveKeepsTask DEF Typed
    <2> QED
      BY <1>4, <2>1, <2>2 DEF Cleared
  <1>5. CASE Gate
    <2>1. task' \in Task /\ TaskInv'
      <3>1. CASE Ends(pairs)
        BY <1>5, <3>1, EndsKeepsTask DEF Gate, Typed
      <3>2. CASE \E clear \in BOOLEAN : Cleared(calendar.on, clear)
        BY <1>4, <1>5, <3>2 DEF Gate
      <3>3. CASE task' = [task EXCEPT !.at = "news", !.day = Today]
        BY <1>5, <3>3, Days, MoveKeepsTask DEF Gate, Typed
      <3> QED
        BY <1>5, <3>1, <3>2, <3>3 DEF Gate
    <2> QED
      BY <1>5, <2>1 DEF Gate, Typed
  <1>6. CASE NewsDone
    <2>1. task.day \in Nat
      BY <1>6 DEF NewsDone, TaskInv
    <2>2. task' \in Task /\ TaskInv'
      BY <1>4, <1>6 DEF NewsDone
    <2>3. /\ calendar' \in [day : Nat \cup {None}, on : BOOLEAN]
          /\ cache' \in Nat \cup {None}
      BY <1>6, <2>1, FetchedKeeps DEF NewsDone, Typed
    <2> QED
      BY <1>6, <2>2, <2>3 DEF NewsDone, Typed
  <1>7. CASE Decide
    <2>1. PICK offer \in (IF setup.xauex /\ task.store = "live" THEN {}
                          ELSE Offers[Mode])
                         \cup {[kind |-> "NONE", side |-> 0, level |-> 0,
                                sized |-> FALSE]} :
            IF offer.side = 0
            THEN Ends(pairs) /\ UNCHANGED book
            ELSE IF Limited(Mode, offer)
            THEN Ends(pairs) /\ book' = [book EXCEPT ![Mode] = Reset(@)]
            ELSE IF task.store = "shadow"
            THEN Ends(pairs) /\ book' = [book EXCEPT ![Mode] = Recorded(Mode, offer)]
            ELSE IF ~offer.sized
            THEN Ends(pairs) /\ book' = [book EXCEPT ![Mode] = Reset(@)]
            ELSE /\ task' = [task EXCEPT !.at = "order", !.offer = offer]
                 /\ book' = [book EXCEPT ![Mode] = Reset(@)]
                 /\ UNCHANGED final
      BY <1>7 DEF Decide
    <2>2. Mode \in Modes /\ task.store \in {"live", "shadow"}
      BY ModeType DEF Typed, Task
    <2>3. offer.side # 0 =>
            /\ offer \in AnyOffer
            /\ ~(setup.xauex /\ task.store = "live")
      BY <2>1, <2>2 DEF AnyOffer
    <2>4. book' \in [Modes -> Book]
      BY <2>1, <2>2, <2>3, BookType DEF Typed
    <2>5. task' \in Task /\ TaskInv'
      <3>1. CASE Ends(pairs)
        BY <1>7, <3>1, EndsKeepsTask DEF Decide, Typed
      <3>2. CASE /\ offer.side # 0 /\ task.store # "shadow" /\ offer.sized
                 /\ task' = [task EXCEPT !.at = "order", !.offer = offer]
        <4>1. task' \in Task
          BY <2>3, <3>2 DEF Typed, Task
        <4>2. /\ task'.at = "order" /\ task'.store = "live"
              /\ task'.queue = task.queue /\ task'.due = task.due
              /\ task'.offer = offer
          BY <2>2, <3>2 DEF Typed, Task
        <4>3. ~setup'.xauex /\ setup' = setup /\ task.at # "cancel"
          BY <1>7, <2>2, <2>3, <3>2 DEF Decide
        <4> QED
          BY <2>3, <3>2, <4>1, <4>2, <4>3 DEF TaskInv
      <3> QED
        BY <2>1, <3>1, <3>2
    <2> QED
      BY <1>7, <2>4, <2>5 DEF Decide, Typed
  <1>8. CASE OrderTaken
    <2>1. /\ task.offer \in AnyOffer /\ task.offer.side # 0
          /\ Mode \in Modes /\ Today \in Nat
      BY <1>8, ModeType, Days DEF OrderTaken, TaskInv, Typed
    <2>2. StopOrder \in Pair
      BY <2>1, FrameType DEF StopOrder, Pair, Typed
    <2>3. pairs' \subseteq Pair
      BY <1>8, <2>2 DEF OrderTaken, Typed
    <2>4. EntryAt(Mode, task.offer) \in Entries
      BY <2>1, EntryType
    <2>5. Recorded(Mode, task.offer) \in Book
      BY <2>1, BookType
    <2>6. recent' \subseteq Entries /\ book' \in [Modes -> Book]
      BY <1>8, <2>1, <2>4, <2>5 DEF OrderTaken, Typed
    <2>7. taken' \subseteq [entry : Entries, day : Nat]
      BY <1>8, <2>1, <2>4 DEF OrderTaken, Typed
    <2>8. task' \in Task /\ TaskInv'
      <3>1. Ends(pairs')
        BY <1>8 DEF OrderTaken
      <3> QED
        BY <1>8, <2>3, <3>1, EndsKeepsTask DEF OrderTaken, Typed
    <2> QED
      BY <1>8, <2>3, <2>6, <2>7, <2>8 DEF OrderTaken, Typed
  <1>9. CASE OrderFails
    <2>1. task' \in Task /\ TaskInv'
      BY <1>9, EndsKeepsTask DEF OrderFails, Typed
    <2> QED
      BY <1>9, <2>1 DEF OrderFails, Typed
  <1>10. CASE CancelAnswered
    <2>1. PICK p \in task.due :
            /\ pairs' = pairs \ {p}
            /\ IF p \notin pairs
               THEN task' = Idle /\ UNCHANGED final
               ELSE IF task.due = {p}
               THEN task' = Begun(task.queue) /\ final' = index[Frame(setup.active)]
               ELSE task' = [task EXCEPT !.due = @ \ {p}] /\ UNCHANGED final
      BY <1>10 DEF CancelAnswered
    <2>2. task' \in Task /\ TaskInv'
      <3>1. CASE task' = Idle
        BY <3>1, IdleKeepsTask
      <3>2. CASE task' = Begun(task.queue)
        <4>1. task.queue \in Shadows /\ setup' = setup
          BY <1>10 DEF CancelAnswered, Typed, Task
        <4> QED
          BY <3>2, <4>1, BegunType DEF TaskInv
      <3>3. CASE task.due # {p} /\ task' = [task EXCEPT !.due = @ \ {p}]
        <4>1. task.due \ {p} \in SUBSET Pair /\ task.due \ {p} # {}
          BY <2>1, <3>3 DEF Typed, Task
        <4>2. task' \in Task
          BY <3>3, <4>1 DEF Typed, Task
        <4>3. /\ task'.at = task.at /\ task'.store = task.store
              /\ task'.queue = task.queue /\ task'.due = task.due \ {p}
          BY <3>3 DEF Typed, Task
        <4>4. setup' = setup /\ task.at = "cancel"
          BY <1>10 DEF CancelAnswered
        <4> QED
          BY <4>1, <4>2, <4>3, <4>4 DEF TaskInv
      <3> QED
        BY <2>1, <3>1, <3>2, <3>3
    <2> QED
      BY <1>10, <2>1, <2>2 DEF CancelAnswered, Typed
  <1>11. CASE PollerAsks
    BY <1>11, Days DEF PollerAsks, loop, Typed, TaskInv
  <1>12. CASE PollerNews
    <2>1. poller \in Nat
      BY <1>12 DEF PollerNews, Typed
    <2>2. /\ calendar' \in [day : Nat \cup {None}, on : BOOLEAN]
          /\ cache' \in Nat \cup {None}
      BY <1>12, <2>1, FetchedKeeps DEF PollerNews, Typed
    <2> QED
      BY <1>12, <2>2 DEF PollerNews, loop, Typed, TaskInv
  <1>13. CASE StopFills
    BY <1>13 DEF StopFills, Typed, TaskInv
  <1>14. CASE Reconnect
    BY <1>14, IdleKeepsTask DEF Reconnect, Typed
  <1>15. CASE Restart
    <2>1. task' \in Task /\ TaskInv'
      BY <1>15, IdleKeepsTask DEF Restart
    <2>2. /\ watcher' \in [Frames -> Nat \cup {None}]
          /\ index' \in [Frames -> Nat]
          /\ book' \in [Modes -> Book]
      BY <1>15 DEF Restart, FreshProcess, Book
    <2>3. /\ calendar' \in [day : Nat \cup {None}, on : BOOLEAN]
          /\ cache' \in Nat \cup {None}
      BY <1>15, RestartKeeps DEF Typed
    <2> QED
      BY <1>15, <2>1, <2>2, <2>3 DEF Restart, Typed
  <1>16. CASE Advance
    <2>1. clock' \in 0..MaxTime
      BY <1>16, LoopConfig DEF Advance, Typed
    <2> QED
      BY <1>16, <2>1 DEF Advance, loop, Typed, TaskInv
  <1> QED
    BY <1>1, <1>2, <1>3, <1>5, <1>6, <1>7, <1>8, <1>9, <1>10, <1>11, <1>12,
       <1>13, <1>14, <1>15, <1>16 DEF Step

LEMMA CalendarStep ==
    ASSUME Typed, TaskInv, CalendarInv, Step
    PROVE  CalendarInv'
  <1>1. CASE NewsDone
    <2>1. task.day \in Nat
      BY <1>1 DEF NewsDone, TaskInv
    <2> QED
      BY <1>1, <2>1, FetchedKeeps DEF NewsDone, Typed
  <1>2. CASE PollerNews
    <2>1. poller \in Nat
      BY <1>2 DEF PollerNews, Typed
    <2> QED
      BY <1>2, <2>1, FetchedKeeps DEF PollerNews, Typed
  <1>3. CASE Restart
    BY <1>3, RestartKeeps DEF Typed
  <1>4. CASE UNCHANGED << calendar, cache, unsaved >>
    BY <1>4 DEF CalendarInv
  <1> QED
    BY <1>1, <1>2, <1>3, <1>4
    DEF Step, Tick, BarsFail, BarsArrive, Gate, Decide, OrderTaken, OrderFails,
        CancelAnswered, PollerAsks, StopFills, Reconnect, Advance

-----------------------------------------------------------------------------
(* Stop orders *)

LEMMA CandleType ==
    ASSUME Typed
    PROVE  Candle \in Nat
  BY FrameType DEF Typed, Candle

(* A cycle that ends and one that moves on.                                *)
LEMMA EndsKeepsFinal ==
    ASSUME Typed, TaskInv, FinalInv, task.at \notin {"idle", "cancel"},
           UNCHANGED << setup, index >>, pairs' \subseteq Pair, Ends(pairs'),
           task.store # "live" => pairs' = pairs
    PROVE  FinalInv'
  <1>1. /\ Candle' = Candle /\ Expired(pairs)' = Expired(pairs')
        /\ Candle \in Nat
    BY CandleType DEF Candle, Expired
  <1>2. final \in Nat /\ final <= Candle /\ task.store \in {"live", "shadow"}
    BY DEF FinalInv, Typed, Task
  <1>3. CASE /\ task.store = "live"
             /\ task'.at = "cancel" /\ task'.store = "live"
             /\ task'.due = Expired(pairs') /\ final' = final
    BY <1>1, <1>2, <1>3 DEF FinalInv
  <1>4. CASE /\ task'.at = "idle" \/ task'.store = "shadow"
             /\ task'.at # "cancel"
             /\ task.store = "live" /\ Expired(pairs') = {} /\ final' = Candle
    BY <1>1, <1>2, <1>4 DEF FinalInv
  <1>5. CASE /\ task'.at = "idle" \/ task'.store = "shadow"
             /\ task'.at # "cancel"
             /\ task.store = "shadow" /\ final' = final
    BY <1>1, <1>2, <1>5 DEF FinalInv
  <1> QED
    BY <1>3, <1>4, <1>5, EndsType DEF Typed

LEMMA MoveKeepsFinal ==
    ASSUME Typed, FinalInv, task.at \notin {"idle", "cancel"},
           UNCHANGED << setup, index, pairs, final >>,
           task'.at # "cancel", task'.store = task.store
    PROVE  FinalInv'
  BY DEF FinalInv, Candle, Expired

LEMMA StopStep ==
    ASSUME Typed, TaskInv, StopInv, Step
    PROVE  StopInv'
  <1>1. Candle \in Nat /\ FinalInv /\ final \in Nat /\ final <= Candle
    BY CandleType DEF StopInv, FinalInv
  <1>2. ASSUME UNCHANGED << working, pairs, stray >>, FinalInv'
        PROVE  StopInv'
    BY <1>2 DEF StopInv
  <1>3. CASE Tick
    <2>1. /\ task'.at \in {"idle", "bars"}
          /\ Candle' \in {Candle, Candle + 1}
          /\ task'.at = "bars" /\ task'.store = "live" => Candle' = Candle + 1
      BY <1>3, TickStarts, FrameType DEF Candle, Tick
    <2>2. Candle' = Candle => Expired(pairs)' = Expired(pairs)
      BY <1>3 DEF Candle, Expired, Tick
    <2>3. FinalInv'
      BY <1>1, <1>3, <2>1, <2>2 DEF FinalInv, Tick
    <2> QED
      BY <1>2, <1>3, <2>3 DEF Tick
  <1>4. CASE BarsFail
    <2>1. CASE Ends(pairs)
      <3>1. FinalInv'
        BY <1>1, <1>4, <2>1, EndsKeepsFinal DEF BarsFail, Typed
      <3> QED
        BY <1>2, <1>4, <3>1 DEF BarsFail
    <2>2. CASE Mode = "LEGACY_LEVELS" /\ task' = Begun(task.queue) /\ UNCHANGED final
      <3>1. /\ task'.at = "idle" \/ task'.store = "shadow"
            /\ task'.at # "cancel"
        BY <2>2, BegunType DEF Typed, Task
      <3>2. Candle' = Candle /\ Expired(pairs)' = Expired(pairs)
        BY <1>4 DEF Candle, Expired, BarsFail
      <3>3. FinalInv'
        BY <1>1, <2>2, <3>1, <3>2 DEF FinalInv
      <3> QED
        BY <1>2, <1>4, <3>3 DEF BarsFail
    <2> QED
      BY <1>4, <2>1, <2>2 DEF BarsFail
  <1>5. CASE BarsArrive
    <2>1. AfterBars # "cancel"
      BY DEF AfterBars
    <2>2. task'.at # "cancel" /\ task'.store = task.store
      BY <1>5, <2>1 DEF BarsArrive, Typed, Task
    <2>3. FinalInv'
      BY <1>1, <1>5, <2>2, MoveKeepsFinal DEF BarsArrive
    <2> QED
      BY <1>2, <1>5, <2>3 DEF BarsArrive
  <1>6. ASSUME NEW on, NEW clear, Cleared(on, clear),
               task.at \notin {"idle", "cancel"},
               UNCHANGED << setup, index, pairs >>
        PROVE  FinalInv'
    <2>1. CASE Ends(pairs)
      BY <1>1, <1>6, <2>1, EndsKeepsFinal DEF Typed
    <2>2. CASE /\ task' = [task EXCEPT !.at = "daily", !.day = None]
               /\ UNCHANGED final
      <3>1. task'.at # "cancel" /\ task'.store = task.store
        BY <2>2 DEF Typed, Task
      <3> QED
        BY <1>1, <1>6, <2>2, <3>1, MoveKeepsFinal
    <2> QED
      BY <1>6, <2>1, <2>2 DEF Cleared
  <1>7. CASE Gate
    <2>1. CASE Ends(pairs)
      <3>1. FinalInv'
        BY <1>1, <1>7, <2>1, EndsKeepsFinal DEF Gate, Typed
      <3> QED
        BY <1>2, <1>7, <3>1 DEF Gate
    <2>2. CASE \E clear \in BOOLEAN : Cleared(calendar.on, clear)
      BY <1>2, <1>6, <1>7, <2>2 DEF Gate
    <2>3. CASE task' = [task EXCEPT !.at = "news", !.day = Today] /\ UNCHANGED final
      <3>1. task'.at # "cancel" /\ task'.store = task.store
        BY <2>3 DEF Typed, Task
      <3>2. FinalInv'
        BY <1>1, <1>7, <2>3, <3>1, MoveKeepsFinal DEF Gate
      <3> QED
        BY <1>2, <1>7, <3>2 DEF Gate
    <2> QED
      BY <1>7, <2>1, <2>2, <2>3 DEF Gate
  <1>8. CASE NewsDone
    BY <1>2, <1>6, <1>8 DEF NewsDone
  <1>9. CASE Decide
    <2>1. \/ Ends(pairs)
          \/ \E offer : task' = [task EXCEPT !.at = "order", !.offer = offer]
             /\ UNCHANGED final
      BY <1>9 DEF Decide
    <2>2. CASE Ends(pairs)
      <3>1. FinalInv'
        BY <1>1, <1>9, <2>2, EndsKeepsFinal DEF Decide, Typed
      <3> QED
        BY <1>2, <1>9, <3>1 DEF Decide
    <2>3. CASE \E offer : task' = [task EXCEPT !.at = "order", !.offer = offer]
               /\ UNCHANGED final
      <3>1. task'.at # "cancel" /\ task'.store = task.store
        BY <2>3 DEF Typed, Task
      <3>2. FinalInv'
        BY <1>1, <1>9, <2>3, <3>1, MoveKeepsFinal DEF Decide
      <3> QED
        BY <1>2, <1>9, <3>2 DEF Decide
    <2> QED
      BY <2>1, <2>2, <2>3
  <1>10. CASE OrderTaken
    <2>1. /\ task.offer \in AnyOffer /\ task.store = "live"
          /\ StopOrder \in Pair
      BY <1>10, FrameType DEF OrderTaken, TaskInv, StopOrder, Pair, Typed
    <2>2. pairs' \subseteq Pair /\ Ends(pairs')
      BY <1>10, <2>1 DEF OrderTaken, Typed
    <2>3. FinalInv'
      BY <1>1, <1>10, <2>1, <2>2, EndsKeepsFinal DEF OrderTaken
    <2>4. working' \subseteq pairs' \cup stray'
      BY <1>10 DEF OrderTaken, StopInv
    <2> QED
      BY <2>3, <2>4 DEF StopInv
  <1>11. CASE OrderFails
    <2>1. FinalInv'
      BY <1>1, <1>11, EndsKeepsFinal DEF OrderFails, Typed
    <2>2. working' \subseteq pairs' \cup stray'
      BY <1>11 DEF OrderFails, MaybeTaken, StopInv
    <2> QED
      BY <2>1, <2>2 DEF StopInv
  <1>12. CASE CancelAnswered
    <2>1. PICK p \in task.due, ok \in BOOLEAN :
            /\ working' = IF ok THEN working \ {p} ELSE working
            /\ stray' = IF ok \/ p \notin working THEN stray ELSE stray \cup {p}
            /\ pairs' = pairs \ {p}
            /\ IF p \notin pairs
               THEN task' = Idle /\ UNCHANGED final
               ELSE IF task.due = {p}
               THEN task' = Begun(task.queue) /\ final' = index[Frame(setup.active)]
               ELSE task' = [task EXCEPT !.due = @ \ {p}] /\ UNCHANGED final
      BY <1>12 DEF CancelAnswered
    <2>2. working' \subseteq pairs' \cup stray'
      BY <2>1 DEF StopInv
    <2>3. /\ Candle' = Candle /\ Expired(pairs)' = Expired(pairs) \ {p}
          /\ Expired(pairs) \subseteq task.due
          /\ final < Candle /\ task.at = "cancel" /\ task.store = "live"
      <3>1. task.at = "cancel" /\ task.store = "live"
        BY <1>12 DEF CancelAnswered, TaskInv
      <3>2. Candle' = Candle /\ Expired(pairs)' = Expired(pairs) \ {p}
        BY <1>12, <2>1 DEF CancelAnswered, Candle, Expired
      <3> QED
        BY <1>1, <3>1, <3>2 DEF FinalInv
    <2>4. CASE task' = Idle /\ UNCHANGED final
      <3>1. task'.at = "idle"
        BY <2>4 DEF Idle
      <3> QED
        BY <1>1, <2>2, <2>3, <2>4, <3>1 DEF StopInv, FinalInv
    <2>5. CASE /\ task.due = {p} /\ task' = Begun(task.queue)
               /\ final' = index[Frame(setup.active)]
      <3>1. /\ task'.at = "idle" \/ task'.store = "shadow"
            /\ task'.at # "cancel"
        BY <2>5, BegunType DEF Typed, Task
      <3>2. final' = Candle /\ Expired(pairs)' = {}
        BY <2>3, <2>5 DEF Candle
      <3> QED
        BY <1>1, <2>2, <2>3, <3>1, <3>2 DEF StopInv, FinalInv
    <2>6. CASE task' = [task EXCEPT !.due = @ \ {p}] /\ UNCHANGED final
      <3>1. task'.at = "cancel" /\ task'.due = task.due \ {p}
        BY <2>3, <2>6 DEF Typed, Task
      <3>2. Expired(pairs)' \subseteq task'.due
        BY <2>3, <3>1
      <3> QED
        BY <1>1, <2>2, <2>3, <2>6, <3>1, <3>2 DEF StopInv, FinalInv
    <2> QED
      BY <2>1, <2>4, <2>5, <2>6
  <1>13. CASE StopFills
    <2>1. PICK p \in working :
            /\ working' = working \ {p}
            /\ stray' = stray \ {p}
            /\ pairs' = pairs \ {p}
      BY <1>13 DEF StopFills
    <2>2. Expired(pairs)' \subseteq Expired(pairs) /\ Candle' = Candle
      BY <1>13, <2>1 DEF StopFills, Expired, Candle
    <2>3. FinalInv'
      BY <1>1, <1>13, <2>2 DEF StopFills, FinalInv
    <2> QED
      BY <2>1, <2>3 DEF StopInv
  <1>14. CASE Reconnect
    <2>1. task'.at = "idle"
      BY <1>14 DEF Reconnect, Idle
    <2>2. Candle' = Candle /\ Expired(pairs)' = Expired(pairs)
      BY <1>14 DEF Reconnect, Expired, Candle
    <2>3. working' \subseteq pairs' \cup stray'
      BY <1>14 DEF Reconnect, MaybeTaken, StopInv
    <2> QED
      BY <1>1, <1>14, <2>1, <2>2, <2>3 DEF Reconnect, StopInv, FinalInv
  <1>15. CASE Restart
    <2>1. task'.at = "idle" /\ final' = 0 /\ stray' = working'
      BY <1>15 DEF Restart, Idle
    <2>2. Candle' = 0
      BY <1>15, FrameType DEF Restart, FreshProcess, Candle
    <2> QED
      BY <2>1, <2>2 DEF StopInv, FinalInv
  <1>16. CASE /\ UNCHANGED << setup, index, task, pairs, final >>
              /\ UNCHANGED << working, stray >>
    BY <1>16 DEF StopInv, FinalInv, Candle, Expired
  <1> QED
    BY <1>3, <1>4, <1>5, <1>7, <1>8, <1>9, <1>10, <1>11, <1>12, <1>13, <1>14,
       <1>15, <1>16
    DEF Step, PollerAsks, PollerNews, Advance, loop

-----------------------------------------------------------------------------
(* Entries apart *)

LEMMA ApartSymmetric ==
    ASSUME Typed, NEW e \in Entries, NEW f \in Entries, Apart(e, f)
    PROVE  Apart(f, e)
  <1>1. \A a, b \in Int : Distance(a, b) = Distance(b, a)
    BY DEF Distance
  <1>2. /\ e.level \in Int /\ f.level \in Int
        /\ e.index \in Nat /\ f.index \in Nat
    BY DEF Entries
  <1>3. /\ Distance(e.level, f.level) = Distance(f.level, e.level)
        /\ Distance(e.index, f.index) = Distance(f.index, e.index)
    BY <1>1, <1>2
  <1> QED
    BY <1>3 DEF Apart, Near

(* What the limits let through is apart from every entry they look at.     *)
LEMMA UnlimitedIsApart ==
    ASSUME Typed, NEW o \in AnyOffer, ~Limited(setup.active, o),
           NEW e \in Entries, e.index < Candle,
           e \in IF setup.active = "LEGACY_LEVELS" THEN recent
                  ELSE book[setup.active].entries
    PROVE  Apart(e, EntryAt(setup.active, o))
  <1> DEFINE f == EntryAt(setup.active, o)
  <1>1. /\ e.index \in Nat /\ Candle \in Nat
        /\ setup.active \in Modes /\ Cooldown[setup.active] \in Nat
    BY CandleType, SetupType, LoopConfig DEF Entries, Typed
  <1>2. f.side = o.side /\ f.level = o.level /\ f.index = Candle
    BY DEF EntryAt, Candle
  <1>3. Distance(e.index, Candle) = Candle - e.index
    BY <1>1 DEF Distance
  <1>4. \/ ~Repeats(e, setup.active, o)
        \/ setup.active = "LEGACY_LEVELS" /\ ~(Cooldown["LEGACY_LEVELS"] > 0)
    BY DEF Limited, SameLevel
  <1>5. CASE ~Repeats(e, setup.active, o)
    <2>1. \/ e.side # f.side
          \/ ~Near(e.level, f.level, setup.active)
          \/ ~(Candle - e.index <= Cooldown[setup.active])
      BY <1>2, <1>5 DEF Repeats, Candle
    <2>2. ~(Candle - e.index <= Cooldown[setup.active])
            => Distance(e.index, f.index) > Cooldown[setup.active]
      BY <1>1, <1>2, <1>3
    <2> QED
      BY <2>1, <2>2 DEF Apart
  <1>6. CASE setup.active = "LEGACY_LEVELS" /\ ~(Cooldown["LEGACY_LEVELS"] > 0)
    <2>1. Distance(e.index, f.index) > Cooldown[setup.active]
      BY <1>1, <1>2, <1>3, <1>6
    <2> QED
      BY <2>1 DEF Apart
  <1> QED
    BY <1>4, <1>5, <1>6

(* A step that takes no entry, forgets none and asks for no order.         *)
LEMMA QuietKeepsSpacing ==
    ASSUME Typed, SpacingInv, UNCHANGED << setup, taken >>,
           recent \subseteq recent',
           book[setup.active].entries \subseteq book'[setup.active].entries,
           Candle' \in Nat, Candle <= Candle',
           task'.at # "order" \/ UNCHANGED << task, index >>,
           task'.at \notin {"idle", "cancel"} /\ task'.store = "live" =>
              \/ task.at \notin {"idle", "cancel"} /\ task.store = "live"
              \/ Candle' = Candle + 1
    PROVE  SpacingInv'
  <1>1. Candle \in Nat /\ \A e \in taken : e.entry.index \in Nat
    BY CandleType DEF Typed, Entries
  <1>2. \A e, f : Apart(e, f)' <=> Apart(e, f)
    BY DEF Apart
  <1>3. ASSUME NEW e \in taken'
        PROVE  /\ e.entry \in IF setup'.active = "LEGACY_LEVELS" THEN recent'
                               ELSE book'[setup'.active].entries
               /\ e.entry.index <= Candle'
               /\ task'.at \notin {"idle", "cancel"} /\ task'.store = "live"
                     => e.entry.index < Candle'
               /\ task'.at = "order" =>
                     Apart(e.entry, EntryAt(setup.active, task.offer)')
    <2>1. e \in taken /\ e.entry.index \in Nat
      BY <1>1, <1>3
    <2>2. e.entry \in IF setup'.active = "LEGACY_LEVELS" THEN recent'
                      ELSE book'[setup'.active].entries
      BY <2>1 DEF SpacingInv
    <2>3. e.entry.index <= Candle
      BY <2>1 DEF SpacingInv
    <2>4. task.at \notin {"idle", "cancel"} /\ task.store = "live"
            => e.entry.index < Candle
      BY <2>1 DEF SpacingInv
    <2>5. e.entry.index <= Candle'
      BY <1>1, <2>1, <2>3
    <2>6. task'.at \notin {"idle", "cancel"} /\ task'.store = "live"
            => e.entry.index < Candle'
      BY <1>1, <2>1, <2>3, <2>4
    <2>7. task'.at = "order" => Apart(e.entry, EntryAt(setup.active, task.offer)')
      BY <2>1 DEF SpacingInv, EntryAt
    <2> QED
      BY <2>2, <2>5, <2>6, <2>7
  <1>4. \A e, f \in taken' : e = f \/ Apart(e.entry, f.entry)
    BY DEF SpacingInv
  <1> QED
    BY <1>2, <1>3, <1>4, Zenon DEF SpacingInv

LEMMA SpacingStep ==
    ASSUME Typed, TaskInv, SpacingInv, Step
    PROVE  SpacingInv'
  <1>1. /\ Candle \in Nat /\ setup.active \in Modes /\ Mode \in Modes
        /\ task.store = "live" => Mode = setup.active
        /\ \A m \in Modes : Reset(book[m]).entries = book[m].entries
        /\ \A m \in Modes : \A o : book[m].entries \subseteq Recorded(m, o).entries
        /\ task.store \in {"live", "shadow"}
    BY CandleType, SetupType, ModeType DEF Typed, Task, Book, Reset, Recorded
  <1>2. CASE Tick
    <2>1. Candle' \in {Candle, Candle + 1}
      BY <1>2, TickStarts, FrameType DEF Candle, Tick
    <2>2. Candle' \in Nat /\ Candle <= Candle'
      BY <1>1, <2>1
    <2>3. /\ task'.at \in {"idle", "bars"}
          /\ task'.at = "bars" /\ task'.store = "live" => Candle' = Candle + 1
      BY <1>2, TickStarts, FrameType DEF Candle, Tick
    <2> QED
      BY <1>2, <2>2, <2>3, QuietKeepsSpacing DEF Tick
  <1>3. ASSUME UNCHANGED << setup, taken, recent, index >>,
               book[setup.active].entries \subseteq book'[setup.active].entries,
               task'.at # "order" \/ UNCHANGED task,
               task'.at \notin {"idle", "cancel"} /\ task'.store = "live" =>
                  task.at \notin {"idle", "cancel"} /\ task.store = "live"
        PROVE  SpacingInv'
    <2>1. Candle' = Candle
      BY <1>3 DEF Candle
    <2> QED
      BY <1>1, <1>3, <2>1, QuietKeepsSpacing
  <1>4. ASSUME NEW ps, ps \subseteq Pair, Ends(ps), task.at \notin {"idle", "cancel"}
        PROVE  /\ task'.at # "order"
               /\ task'.at = "idle" \/ task'.at = "cancel" \/ task'.store # "live"
    BY <1>4, EndsType DEF Typed
  <1>5. ASSUME NEW at \in {"gate", "news", "daily"}, NEW day,
               task' = [task EXCEPT !.at = at, !.day = day]
        PROVE  task'.at # "order" /\ task'.store = task.store
    BY <1>5 DEF Typed, Task
  <1>6. CASE BarsFail
    <2>1. CASE Ends(pairs)
      BY <1>3, <1>4, <1>6, <2>1 DEF BarsFail, Typed
    <2>2. CASE task' = Begun(task.queue)
      <3>1. /\ task'.at # "order"
            /\ task'.at = "idle" \/ task'.store # "live"
        BY <2>2, BegunType DEF Typed, Task
      <3> QED
        BY <1>3, <1>6, <3>1 DEF BarsFail
    <2> QED
      BY <1>6, <2>1, <2>2 DEF BarsFail
  <1>7. CASE BarsArrive
    <2>1. task'.at # "order" /\ task'.store = task.store
      BY <1>7 DEF BarsArrive, AfterBars, Typed, Task
    <2> QED
      BY <1>3, <1>7, <2>1 DEF BarsArrive
  <1>8. ASSUME NEW on, NEW clear, Cleared(on, clear),
               task.at \notin {"idle", "cancel"},
               UNCHANGED << setup, taken, recent, index, book >>
        PROVE  SpacingInv'
    <2>1. CASE Ends(pairs)
      BY <1>3, <1>4, <1>8, <2>1 DEF Typed
    <2>2. CASE task' = [task EXCEPT !.at = "daily", !.day = None]
      BY <1>3, <1>5, <1>8, <2>2
    <2> QED
      BY <1>8, <2>1, <2>2 DEF Cleared
  <1>9. CASE Gate
    <2>1. CASE Ends(pairs)
      BY <1>3, <1>4, <1>9, <2>1 DEF Gate, Typed
    <2>2. CASE \E clear \in BOOLEAN : Cleared(calendar.on, clear)
      BY <1>8, <1>9, <2>2 DEF Gate
    <2>3. CASE task' = [task EXCEPT !.at = "news", !.day = Today]
      BY <1>3, <1>5, <1>9, <2>3 DEF Gate
    <2> QED
      BY <1>9, <2>1, <2>2, <2>3 DEF Gate
  <1>10. CASE NewsDone
    BY <1>8, <1>10 DEF NewsDone
  <1>11. CASE Decide
    <2>1. PICK offer \in (IF setup.xauex /\ task.store = "live" THEN {}
                          ELSE Offers[Mode])
                         \cup {[kind |-> "NONE", side |-> 0, level |-> 0,
                                sized |-> FALSE]} :
            IF offer.side = 0
            THEN Ends(pairs) /\ UNCHANGED book
            ELSE IF Limited(Mode, offer)
            THEN Ends(pairs) /\ book' = [book EXCEPT ![Mode] = Reset(@)]
            ELSE IF task.store = "shadow"
            THEN Ends(pairs) /\ book' = [book EXCEPT ![Mode] = Recorded(Mode, offer)]
            ELSE IF ~offer.sized
            THEN Ends(pairs) /\ book' = [book EXCEPT ![Mode] = Reset(@)]
            ELSE /\ task' = [task EXCEPT !.at = "order", !.offer = offer]
                 /\ book' = [book EXCEPT ![Mode] = Reset(@)]
                 /\ UNCHANGED final
      BY <1>11 DEF Decide
    <2>2. book[setup.active].entries \subseteq book'[setup.active].entries
      BY <1>1, <2>1 DEF Typed
    <2>3. CASE Ends(pairs)
      BY <1>3, <1>4, <1>11, <2>2, <2>3 DEF Decide, Typed
    <2>4. CASE /\ offer.side # 0 /\ ~Limited(Mode, offer) /\ task.store = "live"
               /\ task' = [task EXCEPT !.at = "order", !.offer = offer]
      <3>1. Mode = setup.active /\ offer \in AnyOffer
        BY <1>1, <2>1, <2>4 DEF AnyOffer
      <3>2. task'.offer = offer
        BY <2>4 DEF Typed, Task
      <3>3. \A e \in taken :
              /\ e.entry \in Entries
              /\ e.entry \in IF setup.active = "LEGACY_LEVELS" THEN recent
                              ELSE book[setup.active].entries
              /\ e.entry.index < Candle
        BY <1>11, <2>4 DEF Decide, SpacingInv, Typed
      <3>4. \A e \in taken : Apart(e.entry, EntryAt(setup.active, offer))
        BY <2>4, <3>1, <3>3, UnlimitedIsApart
      <3>5. /\ UNCHANGED << setup, taken, recent, index >>
            /\ Candle' = Candle
            /\ EntryAt(setup.active, task.offer)' = EntryAt(setup.active, offer)
            /\ \A e, f : Apart(e, f)' <=> Apart(e, f)
        BY <1>11, <3>2 DEF Decide, Candle, EntryAt, Apart
      <3>6. \A e \in taken' :
              /\ e.entry \in IF setup'.active = "LEGACY_LEVELS" THEN recent'
                              ELSE book'[setup'.active].entries
              /\ e.entry.index <= Candle'
              /\ e.entry.index < Candle'
        BY <2>2, <3>3, <3>5 DEF SpacingInv
      <3>7. \A e, f \in taken' : e = f \/ Apart(e.entry, f.entry)
        BY <3>5 DEF SpacingInv
      <3> QED
        BY <3>4, <3>5, <3>6, <3>7, Zenon DEF SpacingInv
    <2> QED
      BY <1>1, <2>1, <2>3, <2>4
  <1>12. CASE OrderTaken
    <2> DEFINE new == [entry |-> EntryAt(Mode, task.offer), day |-> Today]
    <2>1. /\ task.store = "live" /\ Mode = setup.active
          /\ task.offer \in AnyOffer /\ task.offer.side # 0
      BY <1>1, <1>12 DEF OrderTaken, TaskInv
    <2>2. /\ taken' = taken \cup {new} /\ new.entry \in Entries
          /\ new.entry = EntryAt(setup.active, task.offer)
          /\ new.entry.index = Candle
      BY <1>1, <1>12, <2>1, EntryType DEF OrderTaken, EntryAt, Candle
    <2>3. /\ UNCHANGED << setup, index >> /\ Candle' = Candle
          /\ \A e, f : Apart(e, f)' <=> Apart(e, f)
      BY <1>12 DEF OrderTaken, Candle, Apart
    <2>4. /\ task'.at # "order"
          /\ task'.at = "idle" \/ task'.at = "cancel" \/ task'.store # "live"
      <3>1. StopOrder \in Pair
        BY <1>12, <2>1, FrameType DEF StopOrder, Pair, Typed
      <3>2. pairs' \subseteq Pair /\ Ends(pairs')
        BY <1>12, <3>1 DEF OrderTaken, Typed
      <3> QED
        BY <1>4, <1>12, <3>2 DEF OrderTaken
    <2>5. \A e \in taken : /\ e.entry \in Entries
                           /\ Apart(e.entry, new.entry) /\ Apart(new.entry, e.entry)
      <3>1. \A e \in taken : e.entry \in Entries /\ Apart(e.entry, new.entry)
        BY <1>12, <2>2 DEF OrderTaken, SpacingInv, Typed
      <3> QED
        BY <2>2, <3>1, ApartSymmetric
    <2>6. /\ setup.active = "LEGACY_LEVELS" =>
               recent' = recent \cup {new.entry}
          /\ setup.active # "LEGACY_LEVELS" =>
               book'[setup.active].entries
                 = book[setup.active].entries \cup {new.entry}
      BY <1>1, <1>12, <2>1 DEF OrderTaken, Recorded, Typed
    <2> HIDE DEF new
    <2>7. \A e \in taken' :
            /\ e.entry \in IF setup'.active = "LEGACY_LEVELS" THEN recent'
                            ELSE book'[setup'.active].entries
            /\ e.entry.index <= Candle'
      BY <1>1, <2>2, <2>3, <2>6 DEF SpacingInv
    <2>8. \A e, f \in taken' : e = f \/ Apart(e.entry, f.entry)
      BY <2>2, <2>5 DEF SpacingInv
    <2> QED
      BY <2>3, <2>4, <2>7, <2>8, Zenon DEF SpacingInv
  <1>13. CASE OrderFails
    BY <1>3, <1>4, <1>13 DEF OrderFails, Typed
  <1>14. CASE CancelAnswered
    <2>1. PICK p :
            \/ task' = Idle
            \/ task' = Begun(task.queue)
            \/ task' = [task EXCEPT !.due = @ \ {p}]
      BY <1>14 DEF CancelAnswered
    <2>2. /\ task'.at # "order"
          /\ task'.at = "idle" \/ task'.at = "cancel" \/ task'.store # "live"
      <3>1. CASE task' = Idle
        BY <3>1 DEF Idle
      <3>2. CASE task' = Begun(task.queue)
        BY <3>2, BegunType DEF Typed, Task
      <3>3. CASE task' = [task EXCEPT !.due = @ \ {p}]
        BY <1>14, <3>3 DEF CancelAnswered, Typed, Task
      <3> QED
        BY <2>1, <3>1, <3>2, <3>3
    <2> QED
      BY <1>3, <1>14, <2>2 DEF CancelAnswered
  <1>15. CASE Reconnect
    <2>1. task'.at = "idle"
      BY <1>15 DEF Reconnect, Idle
    <2> QED
      BY <1>3, <1>15, <2>1 DEF Reconnect
  <1>16. CASE Restart
    BY <1>16 DEF Restart, SpacingInv
  <1>17. CASE UNCHANGED << setup, index, task, book, recent, taken >>
    BY <1>3, <1>17
  <1> QED
    BY <1>2, <1>6, <1>7, <1>9, <1>10, <1>11, <1>12, <1>13, <1>14, <1>15,
       <1>16, <1>17
    DEF Step, PollerAsks, PollerNews, StopFills, Advance, loop

-----------------------------------------------------------------------------
(* The cap of a day *)

LEMMA OnIsFinite ==
    ASSUME IsFiniteSet(taken)
    PROVE  \A d : IsFiniteSet(On(d)) /\ Cardinality(On(d)) \in Nat
  <1>1. \A d : On(d) \subseteq taken
    BY DEF On
  <1>2. \A d : IsFiniteSet(On(d))
    BY <1>1, FS_Subset
  <1> QED
    BY <1>2, FS_CardinalityType

LEMMA CapTypes ==
    ASSUME Typed
    PROVE  /\ setup.active \in Modes /\ Today \in Nat
           /\ \A m \in Modes :
                 /\ Cap[m] \in Nat /\ Cap[m] > 0
                 /\ book[m].day \in Int /\ book[m].count \in Nat
                 /\ Reset(book[m]).day = Today
                 /\ Reset(book[m]).count =
                       IF book[m].day = Today THEN book[m].count ELSE 0
                 /\ \A o : /\ Recorded(m, o).day = Today
                           /\ Recorded(m, o).count = Reset(book[m]).count + 1
           /\ \A e \in taken : e.day \in Nat
  <1>1. \A m \in Modes : Cap[m] \in Nat /\ Cap[m] > 0
    BY LoopConfig
  <1>2. \A m \in Modes : /\ book[m] \in Book
                         /\ book[m].day \in Int /\ book[m].count \in Nat
    BY DEF Typed, Book, None
  <1>3. setup.active \in Modes /\ Today \in Nat /\ \A e \in taken : e.day \in Nat
    BY SetupType, Days DEF Typed
  <1>4. ASSUME NEW m \in Modes
        PROVE  /\ Reset(book[m]).day = Today
               /\ Reset(book[m]).count =
                     IF book[m].day = Today THEN book[m].count ELSE 0
    <2> DEFINE r == [book[m] EXCEPT !.day = Today]
    <2>1. /\ r.day = Today
          /\ r \in [day : Nat, count : Nat, entries : SUBSET Entries]
      BY <1>2, <1>3 DEF Book
    <2> HIDE DEF r
    <2>2. [r EXCEPT !.count = 0].day = Today /\ [r EXCEPT !.count = 0].count = 0
      BY <2>1
    <2>3. [book[m] EXCEPT !.day = Today, !.count = 0] = [r EXCEPT !.count = 0]
      BY Zenon DEF r
    <2> QED
      BY <2>2, <2>3 DEF Reset
  <1>5. \A m \in Modes : \A o :
           /\ Recorded(m, o).day = Today
           /\ Recorded(m, o).count = Reset(book[m]).count + 1
    BY DEF Recorded
  <1> QED
    BY <1>1, <1>2, <1>3, <1>4, <1>5

(* A step that takes no entry and leaves the books alone.                  *)
LEMMA QuietKeepsCap ==
    ASSUME CapInv, UNCHANGED << setup, clock, taken, book >>,
           task'.at = "order" => task.at = "order"
    PROVE  CapInv'
  <1>1. /\ Today' = Today /\ \A d : On(d)' = On(d)
        /\ Reset(book[setup.active])' = Reset(book[setup.active])
    BY DEF Today, On, Reset
  <1> QED
    BY <1>1 DEF CapInv, CountsCapped, DaysCapped

LEMMA CapStep ==
    ASSUME Typed, TaskInv, CapInv, Step
    PROVE  CapInv'
  <1>1. ASSUME NEW ps, ps \subseteq Pair, Ends(ps), task.at # "cancel"
        PROVE  task'.at # "order"
    BY <1>1, EndsType DEF Typed
  <1>2. ASSUME NEW at \in {"gate", "news", "daily"}, NEW day,
               task' = [task EXCEPT !.at = at, !.day = day]
        PROVE  task'.at # "order"
    BY <1>2 DEF Typed, Task
  <1>3. Begun(task.queue).at # "order" /\ Idle.at # "order"
    BY BegunType DEF Idle, Typed, Task
  <1>4. CASE Tick
    BY <1>4, TickStarts, QuietKeepsCap DEF Tick
  <1>5. CASE BarsFail
    BY <1>1, <1>3, <1>5, QuietKeepsCap DEF BarsFail, Typed
  <1>6. CASE BarsArrive
    <2>1. task'.at # "order"
      BY <1>6 DEF BarsArrive, AfterBars, Typed, Task
    <2> QED
      BY <1>6, <2>1, QuietKeepsCap DEF BarsArrive
  <1>7. ASSUME NEW on, NEW clear, Cleared(on, clear), task.at # "cancel"
        PROVE  task'.at # "order"
    BY <1>1, <1>2, <1>7 DEF Cleared, Typed
  <1>8. CASE Gate
    <2>1. task'.at # "order"
      BY <1>1, <1>2, <1>7, <1>8 DEF Gate, Typed
    <2> QED
      BY <1>8, <2>1, QuietKeepsCap DEF Gate
  <1>9. CASE NewsDone
    BY <1>7, <1>9, QuietKeepsCap DEF NewsDone
  <1>10. CASE Decide
    <2>1. PICK offer \in (IF setup.xauex /\ task.store = "live" THEN {}
                          ELSE Offers[Mode])
                         \cup {[kind |-> "NONE", side |-> 0, level |-> 0,
                                sized |-> FALSE]} :
            IF offer.side = 0
            THEN Ends(pairs) /\ UNCHANGED book
            ELSE IF Limited(Mode, offer)
            THEN Ends(pairs) /\ book' = [book EXCEPT ![Mode] = Reset(@)]
            ELSE IF task.store = "shadow"
            THEN Ends(pairs) /\ book' = [book EXCEPT ![Mode] = Recorded(Mode, offer)]
            ELSE IF ~offer.sized
            THEN Ends(pairs) /\ book' = [book EXCEPT ![Mode] = Reset(@)]
            ELSE /\ task' = [task EXCEPT !.at = "order", !.offer = offer]
                 /\ book' = [book EXCEPT ![Mode] = Reset(@)]
                 /\ UNCHANGED final
      BY <1>10 DEF Decide
    <2>2. /\ UNCHANGED << setup, clock, taken >> /\ task.at = "daily"
          /\ Today' = Today /\ \A d : On(d)' = On(d)
      BY <1>10 DEF Decide, Today, On
    <2>3. Mode \in Modes /\ (task.store = "live" => Mode = setup.active)
          /\ (task.store # "live" => Mode \notin {"LEGACY_LEVELS", setup.active})
          /\ task.store \in {"live", "shadow"}
      BY ModeType DEF Typed, Task
    <2>4. CASE UNCHANGED book /\ Ends(pairs)
      BY <1>1, <2>2, <2>4, QuietKeepsCap DEF Typed
    <2>5. CASE /\ task.store = "shadow" /\ ~Limited(Mode, offer) /\ Ends(pairs)
               /\ book' = [book EXCEPT ![Mode] = Recorded(Mode, offer)]
      <3>1. Reset(book[Mode]).count < Cap[Mode]
        BY <2>3, <2>5, CapTypes DEF Limited
      <3>2. /\ book'[Mode] = Recorded(Mode, offer)
            /\ \A m \in Modes \ {Mode} : book'[m] = book[m]
        BY <2>3, <2>5 DEF Typed
      <3>3. CountsCapped'
        <4>1. Recorded(Mode, offer).count <= Cap[Mode]
          BY <2>3, <3>1, CapTypes
        <4> QED
          BY <3>2, <4>1 DEF CapInv, CountsCapped
      <3>4. task'.at # "order"
        BY <1>1, <2>2, <2>5 DEF Typed
      <3>5. book'[setup.active] = book[setup.active]
        BY <2>3, <2>5, <3>2, CapTypes
      <3>6. setup'.active # "LEGACY_LEVELS" => DaysCapped'
        BY <2>2, <3>4, <3>5 DEF CapInv, DaysCapped
      <3> QED
        BY <2>2, <3>3, <3>6 DEF CapInv
    <2>6. CASE /\ book' = [book EXCEPT ![Mode] = Reset(@)]
               /\ \/ Ends(pairs)
                  \/ task.store = "live" /\ ~Limited(Mode, offer)
      <3>1. /\ book'[Mode] = Reset(book[Mode])
            /\ \A m \in Modes \ {Mode} : book'[m] = book[m]
        BY <2>3, <2>6 DEF Typed
      <3>2. CountsCapped'
        <4>1. Reset(book[Mode]).count <= Cap[Mode]
          BY <2>3, CapTypes DEF CapInv, CountsCapped, DaysCapped
        <4> QED
          BY <3>1, <4>1 DEF CapInv, CountsCapped
      <3>3. ASSUME setup.active # "LEGACY_LEVELS"
            PROVE  DaysCapped'
        <4> DEFINE b == book[setup.active]
        <4>1. CASE Mode # setup.active
          <5>1. task'.at # "order" /\ book'[setup.active] = book[setup.active]
            BY <1>1, <2>2, <2>3, <2>6, <3>1, <4>1, CapTypes DEF Typed
          <5> QED
            BY <2>2, <3>3, <5>1 DEF CapInv, DaysCapped
        <4>2. CASE Mode = setup.active
          <5>1. book'[setup'.active] = Reset(b)
            BY <2>2, <3>1, <4>2
          <5>2. /\ Today \in Nat /\ b.day \in Int /\ b.count \in Nat
                /\ Reset(b).day = Today
                /\ Reset(b).count = (IF b.day = Today THEN b.count ELSE 0)
                /\ \A e \in taken : e.day \in Nat
            BY CapTypes
          <5>3. /\ b.day <= Today
                /\ \A e \in taken : e.day <= b.day
                /\ Cardinality(On(b.day)) <= b.count
                /\ \A e \in taken : Cardinality(On(e.day)) <= Cap[setup.active]
            BY <3>3 DEF CapInv, CountsCapped, DaysCapped
          <5>4. \A e \in taken : e.day <= Today
            BY <5>2, <5>3
          <5>5. Cardinality(On(Today)) <= Reset(b).count
            <6>1. CASE b.day = Today
              BY <5>2, <5>3, <6>1
            <6>2. CASE b.day # Today
              <7>1. \A e \in taken : e.day # Today
                BY <5>2, <5>3, <6>2
              <7>2. On(Today) = {}
                BY <7>1 DEF On
              <7> QED
                BY <5>2, <6>2, <7>2, FS_EmptySet
            <6> QED
              BY <6>1, <6>2
          <5>6. task'.at = "order" => Reset(b).count < Cap[setup.active]
            <6>1. task'.at = "order" => ~Limited(Mode, offer)
              BY <1>1, <2>2, <2>6 DEF Typed
            <6>2. ~Limited(Mode, offer) => ~(Reset(b).count >= Cap[setup.active])
              BY <3>3, <4>2 DEF Limited
            <6> QED
              BY <5>2, <6>1, <6>2, CapTypes
          <5>7. Reset(book[setup.active])' = Reset(b)
            BY <2>2, <5>1, <5>2 DEF Reset
          <5> HIDE DEF b
          <5> QED
            BY <2>2, <5>1, <5>2, <5>3, <5>4, <5>5, <5>6, <5>7 DEF DaysCapped
        <4> QED
          BY <4>1, <4>2
      <3> QED
        BY <2>2, <3>2, <3>3 DEF CapInv
    <2> QED
      BY <2>1, <2>3, <2>4, <2>5, <2>6
  <1>11. CASE OrderTaken
    <2> DEFINE new == [entry |-> EntryAt(Mode, task.offer), day |-> Today]
               b == book[setup.active]
               after(d) == { e \in taken' : e.day = d }
    <2>1. /\ task.store = "live" /\ Mode = setup.active
          /\ task.offer \in AnyOffer /\ setup.active \in Modes
      BY <1>11, ModeType, SetupType DEF OrderTaken, TaskInv, Typed
    <2>2. task'.at # "order"
      <3>1. StopOrder \in Pair
        BY <2>1, FrameType DEF StopOrder, Pair, Typed
      <3>2. pairs' \subseteq Pair /\ Ends(pairs')
        BY <1>11, <3>1 DEF OrderTaken, Typed
      <3> QED
        BY <1>1, <1>11, <3>2 DEF OrderTaken
    <2>3. /\ UNCHANGED << setup, clock >> /\ taken' = taken \cup {new}
          /\ Today' = Today /\ new.day = Today
          /\ Mode = "LEGACY_LEVELS" => book' = book
          /\ Mode # "LEGACY_LEVELS" =>
               book' = [book EXCEPT ![Mode] = Recorded(Mode, task.offer)]
      BY <1>11 DEF OrderTaken, Today
    <2>4. IsFiniteSet(taken')
      BY <2>3, FS_AddElement DEF CapInv
    <2>5. CASE Mode = "LEGACY_LEVELS"
      BY <2>1, <2>3, <2>4, <2>5 DEF CapInv, CountsCapped, DaysCapped
    <2>6. CASE Mode # "LEGACY_LEVELS"
      <3>1. /\ book'[setup.active] = Recorded(Mode, task.offer)
            /\ \A m \in Modes \ {Mode} : book'[m] = book[m]
        BY <2>1, <2>3, <2>6 DEF Typed
      <3>2. /\ Today \in Nat /\ b.day \in Int /\ b.count \in Nat
            /\ Reset(b).count = (IF b.day = Today THEN b.count ELSE 0)
            /\ Recorded(Mode, task.offer).day = Today
            /\ Recorded(Mode, task.offer).count = Reset(b).count + 1
            /\ \A e \in taken : e.day \in Nat
            /\ Cap[setup.active] \in Nat
        BY <2>1, CapTypes
      <3>3. /\ b.day <= Today
            /\ \A e \in taken : e.day <= b.day
            /\ Cardinality(On(b.day)) <= b.count
            /\ \A e \in taken : Cardinality(On(e.day)) <= Cap[setup.active]
            /\ Reset(b).count < Cap[setup.active]
            /\ IsFiniteSet(taken)
        BY <1>11, <2>1, <2>6 DEF CapInv, CountsCapped, DaysCapped, OrderTaken
      <3>4. /\ \A d : IsFiniteSet(On(d)) /\ Cardinality(On(d)) \in Nat
            /\ \A d : d # Today => after(d) = On(d)
            /\ after(Today) = On(Today) \cup {new}
        BY <2>3, <3>3, OnIsFinite DEF On
      <3> HIDE DEF b, new, after
      <3>5. Cardinality(On(Today)) <= Reset(b).count
        <4>1. CASE b.day = Today
          BY <3>2, <3>3, <4>1
        <4>2. CASE b.day # Today
          <5>1. \A e \in taken : e.day # Today
            BY <3>2, <3>3, <4>2
          <5>2. On(Today) = {}
            BY <5>1 DEF On
          <5> QED
            BY <3>2, <4>2, <5>2, FS_EmptySet
        <4> QED
          BY <4>1, <4>2
      <3>6. Cardinality(after(Today)) <= Cardinality(On(Today)) + 1
        BY <3>4, FS_AddElement
      <3>7. /\ Cardinality(after(Today)) \in Nat
            /\ Cardinality(after(Today)) <= Reset(b).count + 1
        <4>1. IsFiniteSet(after(Today))
          BY <3>4, FS_AddElement
        <4>2. Cardinality(after(Today)) \in Nat
          BY <4>1, FS_CardinalityType
        <4> QED
          BY <3>2, <3>4, <3>5, <3>6, <4>2
      <3>8. CountsCapped'
        <4>1. Recorded(Mode, task.offer).count <= Cap[setup.active]
          BY <3>2, <3>3
        <4> QED
          BY <2>1, <3>1, <4>1 DEF CapInv, CountsCapped
      <3>9. \A e \in taken' : /\ e.day <= Today
                              /\ Cardinality(after(e.day)) <= Cap[setup.active]
        <4>1. ASSUME NEW e \in taken
              PROVE  /\ e.day <= Today
                     /\ Cardinality(after(e.day)) <= Cap[setup.active]
          <5>1. e.day <= Today
            BY <3>2, <3>3
          <5>2. CASE e.day = Today
            BY <3>2, <3>3, <3>7, <5>1, <5>2
          <5>3. CASE e.day # Today
            BY <3>3, <3>4, <5>1, <5>3
          <5> QED
            BY <5>2, <5>3
        <4>2. new.day <= Today /\ Cardinality(after(new.day)) <= Cap[setup.active]
          BY <2>3, <3>2, <3>3, <3>7
        <4> QED
          BY <2>3, <4>1, <4>2
      <3>10. DaysCapped'
        <4>1. /\ book'[setup'.active].day = Today' /\ Today' = Today
              /\ book'[setup'.active].count = Reset(b).count + 1
              /\ setup' = setup /\ task'.at # "order"
          BY <2>2, <2>3, <3>1, <3>2
        <4>2. Cardinality(after(Today)) <= book'[setup'.active].count
          BY <3>7, <4>1
        <4>3. Today <= Today
          BY <3>2
        <4> QED
          BY <3>9, <4>1, <4>2, <4>3 DEF DaysCapped, On, after
      <3> QED
        BY <2>4, <3>8, <3>10 DEF CapInv
    <2> QED
      BY <2>5, <2>6
  <1>12. CASE OrderFails
    BY <1>1, <1>12, QuietKeepsCap DEF OrderFails, Typed
  <1>13. CASE CancelAnswered
    <2>1. PICK p :
            \/ task' = Idle
            \/ task' = Begun(task.queue)
            \/ task' = [task EXCEPT !.due = @ \ {p}]
      BY <1>13 DEF CancelAnswered
    <2>2. task'.at # "order"
      BY <1>3, <1>13, <2>1 DEF CancelAnswered, Typed, Task
    <2> QED
      BY <1>13, <2>2, QuietKeepsCap DEF CancelAnswered
  <1>14. CASE Reconnect
    BY <1>3, <1>14, QuietKeepsCap DEF Reconnect
  <1>15. CASE Restart
    <2>1. /\ setup' = setup /\ taken' = {} /\ task'.at # "order" /\ Today' = Today
          /\ book' = [m \in Modes |-> [day |-> None, count |-> 0, entries |-> {}]]
      BY <1>3, <1>15 DEF Restart, FreshProcess, Today
    <2>2. \A d : On(d)' = {}
      BY <2>1 DEF On
    <2>3. /\ IsFiniteSet({}) /\ Cardinality({}) = 0
      BY FS_EmptySet
    <2>4. /\ setup.active \in Modes /\ Today \in Nat /\ None <= Today
          /\ \A m \in Modes : Cap[m] \in Nat /\ Cap[m] > 0
      BY CapTypes DEF None
    <2>5. CountsCapped'
      BY <2>1, <2>4 DEF CountsCapped
    <2>6. DaysCapped'
      <3>1. /\ book'[setup'.active].day = None
            /\ book'[setup'.active].count = 0
        BY <2>1, <2>4
      <3>2. On(book[setup.active].day)' = {}
        BY <2>1 DEF On
      <3>3. Cardinality(On(book[setup.active].day)') = 0
        BY <2>3, <3>2
      <3>4. Cardinality(On(book[setup.active].day)')
              <= book'[setup'.active].count
        BY <3>1, <3>3
      <3>5. book'[setup'.active].day <= Today'
        BY <2>1, <2>4, <3>1
      <3> QED
        BY <2>1, <3>4, <3>5 DEF DaysCapped
    <2> QED
      BY <2>1, <2>3, <2>5, <2>6 DEF CapInv
  <1>16. CASE Advance
    <2>1. UNCHANGED << setup, taken, book, task >> /\ clock' = clock + 1
      BY <1>16 DEF Advance, loop
    <2>2. Today' \in Nat /\ Today <= Today'
      <3>1. clock \in Nat /\ DayLength \in Nat /\ DayLength > 0
        BY LoopConfig DEF Typed
      <3>2. clock \div DayLength <= (clock + 1) \div DayLength
            /\ (clock + 1) \div DayLength \in Nat
        BY <3>1
      <3> QED
        BY <2>1, <3>2 DEF Today
    <2>3. CountsCapped'
      BY <2>1 DEF CapInv, CountsCapped
    <2>4. ASSUME setup.active # "LEGACY_LEVELS"
          PROVE  DaysCapped'
      <3> DEFINE b == book[setup.active]
      <3>1. /\ Today \in Nat /\ b.day \in Int /\ b.count \in Nat
            /\ Reset(b).count = (IF b.day = Today THEN b.count ELSE 0)
            /\ Cap[setup.active] \in Nat /\ Cap[setup.active] > 0
        BY CapTypes
      <3>2. /\ b.day <= Today
            /\ task.at = "order" => Reset(b).count < Cap[setup.active]
        BY <2>4 DEF CapInv, CountsCapped, DaysCapped
      <3>3. (Reset(b).count)' = IF b.day = Today' THEN b.count ELSE 0
        <4>1. Typed'
          BY <1>16, TypesStep
        <4>2. Reset(book[setup.active])' =
                IF b.day = Today' THEN b
                ELSE [b EXCEPT !.day = Today', !.count = 0]
          BY <2>1 DEF Reset
        <4>3. [b EXCEPT !.day = Today', !.count = 0].count = 0
          BY DEF Typed, Book
        <4> QED
          BY <2>1, <4>2, <4>3
      <3>4. b.day <= Today'
        BY <2>2, <3>1, <3>2
      <3>5. task.at = "order" => (Reset(b).count)' < Cap[setup.active]
        BY <2>2, <3>1, <3>2, <3>3
      <3>6. \A d : On(d)' = On(d)
        BY <2>1 DEF On
      <3>7. /\ \A e \in taken : e.day <= b.day
            /\ Cardinality(On(b.day)) <= b.count
            /\ \A e \in taken : Cardinality(On(e.day)) <= Cap[setup.active]
        BY <2>4 DEF CapInv, CountsCapped, DaysCapped
      <3> QED
        BY <2>1, <3>4, <3>5, <3>6, <3>7 DEF DaysCapped
    <2> QED
      BY <2>1, <2>3, <2>4 DEF CapInv
  <1>17. CASE UNCHANGED << setup, clock, task, book, taken >>
    BY <1>17, QuietKeepsCap
  <1> QED
    BY <1>4, <1>5, <1>6, <1>8, <1>9, <1>10, <1>11, <1>12, <1>13, <1>14, <1>15,
       <1>16, <1>17
    DEF Step, PollerAsks, PollerNews, StopFills, loop

-----------------------------------------------------------------------------
(* The invariant *)

LEMMA InvInit == Init => IInv
  <1> SUFFICES ASSUME Init
               PROVE  IInv
    OBVIOUS
  <1>1. /\ Idle \in Task /\ Idle.at = "idle" /\ Idle.store = "live"
        /\ Idle.queue = << >> /\ Idle.due = {}
    BY DEF Idle, Task, Shadows
  <1>2. task = Idle /\ taken = {} /\ pairs = {} /\ working = {}
    BY DEF Init
  <1>3. book = [m \in Modes |-> [day |-> None, count |-> 0, entries |-> {}]]
    BY DEF Init, FreshProcess
  <1>4. setup.active \in Modes /\ Frame(setup.active) \in Frames
        /\ Candle = 0
    BY SetupType, FrameType DEF Init, FreshProcess, Candle
  <1>5. Typed
    <2>1. clock \in 0..MaxTime
      BY LoopConfig DEF Init
    <2>2. book \in [Modes -> Book]
      BY <1>3 DEF Book
    <2>3. /\ watcher \in [Frames -> Nat \cup {None}]
          /\ index \in [Frames -> Nat]
      BY DEF Init, FreshProcess
    <2> QED
      BY <1>1, <1>2, <2>1, <2>2, <2>3 DEF Init, Typed
  <1>6. TaskInv
    BY <1>1, <1>2 DEF TaskInv
  <1>7. CalendarInv
    BY DEF Init, CalendarInv
  <1>8. StopInv
    BY <1>1, <1>2, <1>4 DEF Init, StopInv, FinalInv
  <1>9. SpacingInv
    BY <1>2 DEF SpacingInv
  <1>10. CapInv
    <2>1. \A d : On(d) = {}
      BY <1>2 DEF On
    <2>2. IsFiniteSet({}) /\ Cardinality({}) = 0
      BY FS_EmptySet
    <2>3. CountsCapped
      BY <1>3, <1>5, CapTypes DEF CountsCapped
    <2>4. DaysCapped
      <3>1. book[setup.active].day = None /\ book[setup.active].count = 0
        BY <1>3, <1>4
      <3>2. None <= Today
        BY <1>5, CapTypes DEF None
      <3>3. Cardinality(On(book[setup.active].day)) <= book[setup.active].count
        <4>1. Cardinality(On(book[setup.active].day)) = 0
          BY <2>1, <2>2
        <4> QED
          BY <3>1, <4>1
      <3> QED
        BY <1>1, <1>2, <3>1, <3>2, <3>3 DEF DaysCapped
    <2> QED
      BY <1>2, <2>2, <2>3, <2>4 DEF CapInv
  <1> QED
    BY <1>5, <1>6, <1>7, <1>8, <1>9, <1>10 DEF IInv

(* What neither a chart looked at nor a stutter changes.                   *)
LEMMA InvStutter ==
    ASSUME IInv,
           UNCHANGED << loop, clock, working, calendar, cache, poller, stray,
                        unsaved >>
    PROVE  IInv'
  <1>1. /\ Expired(pairs)' = Expired(pairs) /\ Candle' = Candle
        /\ Today' = Today /\ \A d : On(d)' = On(d)
        /\ Reset(book[setup.active])' = Reset(book[setup.active])
        /\ EntryAt(setup.active, task.offer)' = EntryAt(setup.active, task.offer)
        /\ \A e, f : Apart(e, f)' <=> Apart(e, f)
    BY DEF loop, Expired, Candle, Today, On, Reset, EntryAt, Apart
  <1>2. Typed'
    BY DEF IInv, Typed, loop
  <1>3. TaskInv' /\ CalendarInv'
    BY DEF IInv, TaskInv, CalendarInv, loop
  <1>4. StopInv'
    BY <1>1 DEF IInv, StopInv, FinalInv, loop
  <1>5. SpacingInv'
    BY <1>1 DEF IInv, SpacingInv, loop
  <1>6. CapInv'
    BY <1>1 DEF IInv, CapInv, CountsCapped, DaysCapped, loop
  <1> QED
    BY <1>2, <1>3, <1>4, <1>5, <1>6 DEF IInv

LEMMA InvNext == IInv /\ [Next]_vars => IInv'
  <1> SUFFICES ASSUME IInv, [Next]_vars
               PROVE  IInv'
    OBVIOUS
  <1>1. CASE Step
    BY <1>1, TypesStep, CalendarStep, StopStep, SpacingStep, CapStep DEF IInv
  <1>2. CASE LookAt
    BY <1>2, InvStutter DEF LookAt
  <1>3. CASE UNCHANGED vars
    BY <1>3, InvStutter DEF vars, loop
  <1> QED
    BY <1>1, <1>2, <1>3 DEF Next

LEMMA InvAlways == Spec => []IInv
  BY InvInit, InvNext, PTL DEF Spec

-----------------------------------------------------------------------------
(* What the invariant gives *)

(* The loop keeps its state well shaped and counts no mode above its cap:  *)
(* an order is awaited only for a sized offer of the live strategy.        *)
THEOREM LoopTypes == Spec => []TypeOK
  <1>1. ASSUME IInv
        PROVE  TypeOK
    <2>1. /\ task \in Task /\ TaskInv
          /\ \A m \in Modes : book[m] \in Book /\ book[m].count <= Cap[m]
      BY <1>1 DEF IInv, Typed, CapInv, CountsCapped
    <2>2. \A m \in Modes : /\ book[m].count \in 0..Cap[m]
                           /\ book[m].entries \subseteq Entries
      BY <2>1, LoopConfig DEF Book
    <2>3. /\ task.at \in {"idle", "bars", "gate", "news", "daily", "order", "cancel"}
          /\ task.store \in {"live", "shadow"}
      BY <2>1 DEF Task
    <2>4. /\ task.at = "order" =>
                task.store = "live" /\ ~setup.xauex /\ task.offer.sized
          /\ task.at = "cancel" <=> task.due # {}
      BY <2>1 DEF TaskInv
    <2> QED
      BY <1>1, <2>2, <2>3, <2>4 DEF IInv, Typed, TypeOK
  <1> QED
    BY <1>1, InvAlways, PTL

(* For every cap, cooldown and chart: a process never makes more entries   *)
(* on a day than the mode's cap, and never two on one side near a level    *)
(* within the cooldown, whatever awaits and midnights lie between          *)
(* _strategy_trade_limit_reason and _record_strategy_entry.                *)
THEOREM EntriesAreSpaced == Spec => []EntriesSpaced
  <1>1. ASSUME IInv
        PROVE  EntriesSpaced
    <2>1. \A a, b \in taken :
             \/ a = b
             \/ a.entry.side # b.entry.side
             \/ ~Near(a.entry.level, b.entry.level, setup.active)
             \/ Distance(a.entry.index, b.entry.index) > Cooldown[setup.active]
      BY <1>1 DEF IInv, SpacingInv, Apart
    <2>2. ASSUME setup.active # "LEGACY_LEVELS", NEW d \in 0..Today
          PROVE  Cardinality({ e \in taken : e.day = d }) <= Cap[setup.active]
      <3>1. CASE \E e \in taken : e.day = d
        BY <1>1, <2>2, <3>1 DEF IInv, CapInv, DaysCapped, On
      <3>2. CASE ~\E e \in taken : e.day = d
        <4>1. { e \in taken : e.day = d } = {}
          BY <3>2
        <4>2. Cap[setup.active] \in Nat
          BY <1>1, CapTypes DEF IInv
        <4>3. Cardinality({}) = 0
          BY FS_EmptySet
        <4> QED
          BY <4>1, <4>2, <4>3
      <3> QED
        BY <3>1, <3>2
    <2> QED
      BY <2>1, <2>2 DEF EntriesSpaced
  <1> QED
    BY <1>1, InvAlways, PTL

(* For every expiry: no inside-bar order works on unnoticed by             *)
(* _pending_pairs unless it was lost to a failed cancel, a missing answer  *)
(* or a restart, and once _finalize_candle is through with a candle every  *)
(* pair is younger than the expiry.                                        *)
THEOREM StopOrdersDoExpire == Spec => []StopOrdersExpire
  <1>1. ASSUME IInv
        PROVE  StopOrdersExpire
    <2>1. working \subseteq pairs \cup stray
      BY <1>1 DEF IInv, StopInv
    <2>2. ASSUME final = index[Frame(setup.active)], final > 0, NEW p \in pairs
          PROVE  final - p.index < Expiry
      <3>1. p \notin Expired(pairs)
        BY <1>1, <2>2 DEF IInv, StopInv, FinalInv, Candle
      <3>2. ~(final - p.index >= Expiry)
        BY <2>2, <3>1 DEF Expired
      <3>3. p.index \in Nat /\ final \in Nat /\ Expiry \in Nat
        BY <1>1, LoopConfig DEF IInv, Typed, Pair, StopInv, FinalInv
      <3> QED
        BY <3>2, <3>3
    <2> QED
      BY <2>1, <2>2 DEF StopOrdersExpire
  <1> QED
    BY <1>1, InvAlways, PTL

(* A feed that blocks trading is never marked as refreshed today unless    *)
(* saving today's calendar failed, so the next gate fetches again: for any *)
(* interleaving of the loop's fetch, the poller's and a restart.           *)
THEOREM BlockedFeedRetries == Spec => []BlockedFeedIsRetried
  <1>1. ASSUME IInv
        PROVE  BlockedFeedIsRetried
    <2>1. Today # None
      BY <1>1, Days DEF IInv, Typed, None
    <2> QED
      BY <1>1, <2>1 DEF IInv, CalendarInv, BlockedFeedIsRetried
  <1> QED
    BY <1>1, InvAlways, PTL

-----------------------------------------------------------------------------
(* The rules on the charts that come up *)

(* Whatever chart comes up, what the three strategies decide is sound, the *)
(* positions opened of it at any of the quotes lose no more than the risk  *)
(* money and what the drift from the decided entry costs, the trailing of  *)
(* what the tracker holds, the pattern evidence and the levels are sound,  *)
(* and the bar that is still forming has no say.                           *)
THEOREM RulesAreSound == Spec => []RulesSound
  <1> DEFINE Tried == sample \subseteq Corpus
  <1>1. Init => Tried
    BY DEF Init
  <1>2. Tried /\ [Next]_vars => Tried'
    <2> SUFFICES ASSUME Tried, [Next]_vars PROVE Tried'
      OBVIOUS
    <2>1. CASE UNCHANGED vars
      BY <2>1 DEF vars
    <2>2. CASE Step /\ UNCHANGED sample
      BY <2>2
    <2>3. CASE LookAt
      BY <2>3 DEF LookAt
    <2> QED
      BY <2>1, <2>2, <2>3 DEF Next
  <1>3. Tried => RulesSound
    <2> SUFFICES ASSUME Tried, NEW chart \in sample PROVE SoundOn(chart)
      BY DEF RulesSound
    <2>1. RealChart(chart)
      BY ChartsAreReal
    <2> QED
      BY <2>1, SoundOnCharts
  <1> QED
    BY <1>1, <1>2, <1>3, PTL DEF Spec
=============================================================================
