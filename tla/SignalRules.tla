----------------------------- MODULE SignalRules -----------------------------
(***************************************************************************)
(* What one run of the signal job computes: the rows of the market         *)
(* snapshot and how fresh they are, the price bias, and the way from a     *)
(* model's answer to the signal (parser, validator, price guard,           *)
(* directional lock).  Confidences are in hundredths, distances in cents,  *)
(* days are counted from a Monday.                                         *)
(*                                                                         *)
(* A NaN passes Python's max(lo, min(hi, x)) as hi, because min keeps its  *)
(* first argument when the comparison fails: NaN is a number larger than   *)
(* every bound here.                                                       *)
(***************************************************************************)
EXTENDS Integers, Sequences, FiniteSets, FiniteSetsExt

CONSTANTS
    Slow,           \* series with a weekly publication lag
    Treasury,       \* daily series that the H.15 release also carries
    Volatile,       \* daily series with no second source
    Inverted,       \* the dollar and the yields, inverse to gold
    Neutral,        \* series without a reading for gold
    Meetings,       \* days of FOMC decisions
    RecentBlocks,   \* XAUEX_FOMC_RECENT_POLICY is "block"
    ArchivesRead,   \* max_archives of the cache fallback
    ShortMove,      \* bars of the short momentum
    LongMoves,      \* bars of the momenta used when the history has them
    AtrPeriods      \* bars of the average move

ASSUME SignalConfig ==
    /\ Slow \cap Treasury = {} /\ Slow \cap Volatile = {}
    /\ Treasury \cap Volatile = {}
    /\ IsFiniteSet(Slow \cup Treasury \cup Volatile)
    /\ Inverted \cap Neutral = {}
    /\ Meetings \subseteq Nat /\ IsFiniteSet(Meetings)
    /\ RecentBlocks \in BOOLEAN
    /\ {ArchivesRead, ShortMove, AtrPeriods} \cup LongMoves \subseteq Nat \ {0}

Series == Slow \cup Treasury \cup Volatile
Daily == Series \ Slow
None == -1
NaN == 1000000
Directions == {"BUY", "SELL"}

Clamp(x, lo, hi) == Max({lo, Min({hi, x})})
Sign(x) == IF x > 0 THEN 1 ELSE IF x < 0 THEN -1 ELSE 0
Sum(f, D) == FoldSet(LAMBDA x, total : f[x] + total, 0, D)

-----------------------------------------------------------------------------
(* the rows of the snapshot *)

WarningAge == 3
BlockAge == 7
BlockStale == 3
BlockMissing == 2
BusinessAge == 2

(* Slip: the days of the incomplete week are counted one short.            *)
BusinessDaysShort(seen, day) ==
    IF day <= seen THEN 0
    ELSE LET weeks == (day - seen) \div 7
             rest == (day - seen) % 7
         IN  weeks * 5
             + Cardinality({ k \in 1..rest - 1 : (seen + k) % 7 < 5 })

(* _business_days_since_observation: full weeks count five, the rest is    *)
(* walked.                                                                 *)
BusinessDays(seen, day) ==
    IF day <= seen THEN 0
    ELSE LET weeks == (day - seen) \div 7
             rest == (day - seen) % 7
         IN  weeks * 5 + Cardinality({ k \in 1..rest : (seen + k) % 7 < 5 })

(* The newest archives that hold a row of the series; a run that had taken *)
(* its row from an archive passes it on with its date.                     *)
Cached(archives, s) ==
    LET holding == { k \in DOMAIN archives :
                       k <= ArchivesRead /\ s \in DOMAIN archives[k] }
    IN  IF holding = {} THEN {}
        ELSE { [archives[Min(holding)][s] EXCEPT !.via = "archive"] }

(* _fetch_fed_h15_treasury_fallback: the newest of the last two values the *)
(* release has of a yield (the breakeven is the difference of two yields), *)
(* which may be of an earlier or a later day than FRED's.                  *)
H15Row(release, s) == [release[s] EXCEPT !.via = "h15"]

(* The row of one series: FRED, then H.15 for Treasury series, then the    *)
(* archives.                                                               *)
RowOf(s, published, release, down, h15, archives) ==
    IF s \notin down THEN { published[s] }
    ELSE IF h15 /\ s \in Treasury THEN { H15Row(release, s) }
    ELSE Cached(archives, s)

(* build_market_snapshot: a series with no row is missing from the domain. *)
SnapshotRows(published, release, down, h15, archives) ==
    LET rows == [ s \in Series |->
                    RowOf(s, published, release, down, h15, archives) ]
    IN  [ s \in { t \in Series : rows[t] # {} } |-> CHOOSE r \in rows[s] : TRUE ]

Via(rows, way) == { s \in DOMAIN rows : rows[s].via = way }

(* Slip: rows taken from an archive are not asked for their age.           *)
AgedButCached(rows, day) ==
    { s \in (DOMAIN rows \cap Daily) \ Via(rows, "archive") :
        day - rows[s].seen >= BlockAge }

(* Daily series at the age that blocks, archived rows included.            *)
Aged(rows, day) ==
    { s \in DOMAIN rows \cap Daily : day - rows[s].seen >= BlockAge }

(* daily_publishing_max_business_age_days; archived rows do not count, and *)
(* with no other daily row there is no age at all.                         *)
DailyAge(rows, day) ==
    LET direct == (DOMAIN rows \cap Daily) \ Via(rows, "archive")
    IN  IF direct = {} THEN None
        ELSE Max({ BusinessDays(rows[s].seen, day) : s \in direct })

HardStale(age) == age # None /\ age > BusinessAge

(* _assess_market_snapshot_freshness.  An age of n days is n full days and *)
(* a part of a day, so "older than three days" is n >= 3.  The variant     *)
(* that reads a calendar age when there is no business age cannot arise:   *)
(* every row has both.                                                     *)
Assessed(rows, day, active) ==
    LET missing == Cardinality(Series \ DOMAIN rows)
        stale == Cardinality(Aged(rows, day))
        oldest == IF DOMAIN rows = {} THEN None
                  ELSE Max({ day - rows[s].seen : s \in DOMAIN rows })
        age == DailyAge(rows, day)
        blocked == /\ active
                   /\ \/ oldest = None
                      \/ stale >= BlockStale
                      \/ missing >= BlockMissing
        warned == \/ oldest = None
                  \/ (oldest >= WarningAge /\ (stale > 0 \/ HardStale(age)))
                  \/ missing > 0
                  \/ Via(rows, "archive") # {} \/ Via(rows, "h15") # {}
    IN  [ state |-> IF blocked THEN "blocked"
                    ELSE IF warned THEN "warning" ELSE "fresh",
          blocker |-> blocked, missing |-> missing, stale |-> stale,
          cached |-> Cardinality(Via(rows, "archive")),
          h15 |-> Cardinality(Via(rows, "h15")), age |-> age ]

(* _parse_next_fomc_date keeps the dates from today on.                    *)
NextMeeting(day) ==
    LET ahead == { m \in Meetings : m >= day }
    IN  IF ahead = {} THEN None ELSE Min(ahead)

(* _derive_fomc_window_state; the empty state of a calendar that could not *)
(* be read is "unknown".  "recent" needs a meeting before today.           *)
MeetingState(day, known) ==
    LET next == NextMeeting(day)
    IN  IF ~known \/ next = None THEN "unknown"
        ELSE CASE next = day -> "today"
               [] next = day - 1 -> "recent"
               [] next \in day + 1..day + 3 -> "approaching"
               [] OTHER -> "normal"

(* The blackout of build_market_snapshot on top of the assessment.         *)
Freshness(rows, day, active, known) ==
    LET f == Assessed(rows, day, active)
        meeting == MeetingState(day, known)
        held == meeting = "today" \/ (meeting = "recent" /\ RecentBlocks)
    IN  [ state |-> IF held THEN "blocked"
                    ELSE IF meeting = "recent" /\ f.state = "fresh"
                    THEN "warning" ELSE f.state,
          blocker |-> held \/ f.blocker, missing |-> f.missing,
          stale |-> f.stale, cached |-> f.cached, h15 |-> f.h15,
          age |-> f.age, meeting |-> meeting ]

(* freshness_requires_risk_reduction.                                      *)
ReducesRisk(f) ==
    \/ f.blocker
    \/ f.missing > 0 \/ f.stale > 0 \/ f.cached > 0 \/ f.h15 > 0
    \/ HardStale(f.age)
    \/ f.meeting = "recent"
    \/ f.state # "fresh"

(* _series_bias for gold: the dollar and the yields are inverse.           *)
SeriesBias(s, change) ==
    IF s \in Neutral THEN 0
    ELSE IF s \in Inverted THEN -Sign(change) ELSE Sign(change)

(* _overall_bias; extreme positioning counts one, prediction markets two.  *)
OverallBias(rows, positioning, markets) ==
    Sign(Sum([s \in DOMAIN rows |-> SeriesBias(s, rows[s].change)], DOMAIN rows)
         + positioning + 2 * markets)

-----------------------------------------------------------------------------
(* the price bias *)

Moves(closes) ==
    [ k \in 1..Len(closes) - 1 |-> IF closes[k + 1] >= closes[k]
                                   THEN closes[k + 1] - closes[k]
                                   ELSE closes[k] - closes[k + 1] ]

(* _calculate_atr as a sum and the number of moves in it.                  *)
AverageMove(closes) ==
    LET moves == Moves(closes)
        used == { k \in DOMAIN moves : k > Len(moves) - AtrPeriods }
    IN  [total |-> Sum(moves, used), count |-> Cardinality(used)]

(* The momenta of _price_features; the short one reaches as far as it can. *)
Momenta(closes) ==
    LET last == Len(closes)
        long == { n \in LongMoves : last > n }
    IN  [ n \in long \cup {0} |->
            closes[last] - closes[IF n = 0 THEN Max({1, last - ShortMove})
                                  ELSE last - n] ]

(* price_bias: the mean momentum exceeds the average move, and in the      *)
(* outer third of the day's range the daily trend agrees.                  *)
PriceBias(view) ==
    LET closes == view.closes
        move == AverageMove(closes)
        momenta == Momenta(closes)
        mean == Sum(momenta, DOMAIN momenta) * move.count
        bar == move.total * Cardinality(DOMAIN momenta)
        raw == IF mean > bar THEN 1 ELSE IF mean < -bar THEN -1 ELSE 0
        span == view.high - view.low
        place == 100 * (closes[Len(closes)] - view.low)
        outer == /\ span > 0
                 /\ \/ raw = 1 /\ place >= 66 * span
                    \/ raw = -1 /\ place <= 33 * span
    IN  IF Len(closes) < 2 THEN 0
        ELSE IF outer /\ view.trend # raw THEN 0
        ELSE raw

-----------------------------------------------------------------------------
(* from the model's answer to the signal *)

Side(sign) == IF sign = 1 THEN "BUY" ELSE IF sign = -1 THEN "SELL" ELSE "NEUTRAL"

MinStop == 1000
MaxStop == 1500
LockConfidence == 50
FlipConfidence == 65
ConflictConfidence == 68

(* Margins, in thousandths, at which the sigmoid of _fallback_direction    *)
(* reaches 0.58, 0.59 ... 0.68.                                            *)
MarginSteps == {171, 211, 251, 290, 330, 373, 421, 475, 543, 640, 833}

(* _fallback_direction: at least four words and a margin of 15 %.          *)
Fallback(words) ==
    LET total == words.bull + words.bear
        score == words.bull - words.bear
        size == IF score < 0 THEN -score ELSE score
    IN  IF score = 0 \/ total < 4 \/ 100 * size < 15 * total
        THEN [action |-> "HOLD", confidence |-> 0]
        ELSE [ action |-> Side(Sign(score)),
               confidence |->
                 57 + Cardinality({ m \in MarginSteps :
                                      1000 * size >= m * total }) ]

(* The fallback the parser may use: none on degraded inputs.               *)
UsableFallback(words, fresh) ==
    IF ReducesRisk(fresh) THEN [action |-> "HOLD", confidence |-> 0]
    ELSE Fallback(words)

Geometry(answer) ==
    LET stop == Clamp(answer.stop, MinStop, MaxStop)
    IN  [ stop |-> stop,
          target |-> Clamp(answer.target, (3 * stop) \div 2, (5 * stop) \div 2) ]

(* _hold_signal.                                                           *)
HoldSignal(why) ==
    [ action |-> "HOLD", confidence |-> 0, stop |-> 0, target |-> 0,
      review |-> why, warnings |-> {} ]

(* Slip: what the model answers is taken for a confidence.                 *)
NormalizedRaw(answer, fallback, rescue) ==
    [ action |-> answer.action, confidence |-> answer.confidence,
      stop |-> Geometry(answer).stop, target |-> Geometry(answer).target,
      review |-> "pending", warnings |-> {} ]

(* _normalize_signal: an unknown action becomes the fallback's, a HOLD     *)
(* that names no blocker is rescued by it.                                 *)
Normalized(answer, fallback, rescue) ==
    LET given == IF answer.action \in Directions \cup {"HOLD"}
                 THEN answer.action ELSE fallback.action
        conf == Clamp(answer.confidence, 0, 100)
        rescued == rescue /\ given = "HOLD" /\ ~answer.blocker
        action == IF rescued THEN fallback.action ELSE given
        raised == IF rescued THEN Max({conf, fallback.confidence}) ELSE conf
    IN  IF action = "HOLD" THEN [HoldSignal("pending") EXCEPT !.confidence = raised]
        ELSE [ action |-> action,
               confidence |-> IF raised = 0 THEN fallback.confidence ELSE raised,
               stop |-> Geometry(answer).stop,
               target |-> Geometry(answer).target,
               review |-> "pending", warnings |-> {} ]

(* _sanitize_decision and _portfolio_decision of the candidate graph.      *)
CandidateAnswer(graph) ==
    LET known == graph.final.action \in Directions
        conf == Clamp(graph.final.confidence, 0, 100)
        adjusted == IF graph.risk.decision = "REDUCE_CONFIDENCE"
                    THEN Clamp(conf + Clamp(graph.risk.adjustment, -40, 10), 0, 100)
                    ELSE conf
        barred == \/ graph.risk.hard \/ graph.risk.decision = "BLOCK"
                  \/ (graph.risk.decision = "REDUCE_CONFIDENCE" /\ adjusted = 0)
    IN  IF ~known \/ barred
        THEN [ action |-> "HOLD", confidence |-> 0, stop |-> 0, target |-> 0,
               blocker |-> FALSE ]
        ELSE [ action |-> graph.final.action, confidence |-> adjusted,
               stop |-> Geometry(graph.final).stop,
               target |-> Geometry(graph.final).target, blocker |-> FALSE ]

(* _apply_validator_result; a block is recorded and changes nothing else.  *)
Reviewed(signal, review) ==
    IF review.decision = "NONE" THEN [signal EXCEPT !.review = "unreviewed"]
    ELSE IF review.hard \/ review.decision = "BLOCK"
    THEN [signal EXCEPT !.review = "blocked",
                        !.warnings = @ \cup {"VALIDATOR_HARD_BLOCKER"}]
    ELSE [signal EXCEPT
            !.confidence = Clamp(@ + review.adjustment, 0, 100),
            !.review = IF review.decision = "DISAGREE" THEN "disagreed"
                       ELSE "aligned"]

(* _apply_price_conflict_guard: only a warning.                            *)
Guarded(signal, bias) ==
    IF /\ signal.action \in Directions /\ bias \in Directions
       /\ bias # signal.action /\ signal.confidence < ConflictConfidence
    THEN [signal EXCEPT !.warnings = @ \cup {"PRICE_CONFLICT"}]
    ELSE signal

(* macro_signature_from_market_snapshot over the tracked series.           *)
Signature(rows, tracked) ==
    [ s \in tracked |-> IF s \in DOMAIN rows THEN Sign(rows[s].change) ELSE 0 ]

(* Slip: a driver that has gone missing counts as turned.                  *)
MacroFlippedOrGone(before, now) == \E s \in DOMAIN before : before[s] # now[s]

(* _macro_flipped: some driver has turned; no reading is no turn.          *)
MacroFlipped(before, now) ==
    \E s \in DOMAIN before : before[s] # 0 /\ now[s] = -before[s]

(* apply_directional_persistence: the policy for a signal under the lock.  *)
LockPolicy(lock, signal, signature, day) ==
    CASE signal.action = "HOLD" -> "HOLD_PASS_THROUGH"
      [] signal.action # "HOLD" /\ lock.day # day ->
           IF signal.confidence >= LockConfidence THEN "LOCK_DIRECTION"
           ELSE "LOW_CONFIDENCE_NO_LOCK"
      [] OTHER ->
           IF signal.action = lock.side THEN "ALIGNED_WITH_LOCK"
           ELSE IF signal.confidence < FlipConfidence
           THEN "FLIP_BLOCKED_LOW_CONFIDENCE"
           ELSE IF MacroFlipped(lock.signature, signature)
           THEN "FLIP_ALLOWED_MACRO_CONFIRMED"
           ELSE "FLIP_BLOCKED_MACRO_UNCHANGED"

Locks(policy) == policy \in {"LOCK_DIRECTION", "FLIP_ALLOWED_MACRO_CONFIRMED"}

(* _apply_directional_persistence: a blocked flip gets a warning and keeps *)
(* its action.                                                             *)
Persisted(signal, policy) ==
    IF policy \in {"FLIP_BLOCKED_LOW_CONFIDENCE", "FLIP_BLOCKED_MACRO_UNCHANGED"}
    THEN [signal EXCEPT !.warnings = @ \cup {policy}]
    ELSE signal
=============================================================================
