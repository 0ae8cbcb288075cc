---------------------------- MODULE StrategyLoop ----------------------------
(***************************************************************************)
(* The candle loop of the bot: ticks close candles, a closed candle runs   *)
(* the active strategy and then the shadow one, and each of those awaits   *)
(* bars, levels, the news calendar, daily bars, the order and the          *)
(* cancellation of expired stop orders.  Between those awaits other tasks  *)
(* run: the signal poller refreshes the same calendar, a stop order fills, *)
(* a reconnect cancels the tick task, the process dies.                    *)
(*                                                                         *)
(* Time is counted in M5 buckets.  What the strategies see is a chart; the *)
(* rules that turn it into an offer are in ChartRules.                     *)
(***************************************************************************)
EXTENDS ChartRules

CONSTANTS
    Setups,             \* [active, shadow, xauex] configurations
    Charts,             \* charts a candle may find
    Corpus,             \* charts the rules are checked on
    Cap,                \* trades a day, by mode
    Cooldown,           \* candles between entries at a level, by mode
    Expiry,             \* inside_bar_expiry_candles
    DayLength,          \* buckets in a day
    MaxTime,            \* bound: last bucket
    MaxCandles          \* bound: candles a timeframe closes in one process

Modes == {"LEGACY_LEVELS", "EMA_PULLBACK_H1", "SCALP_V1"}

ASSUME LoopConfig ==
    /\ \A s \in Setups : s.active \in Modes /\ s.shadow \in Modes \cup {"NONE"}
    /\ {Expiry, DayLength, MaxTime, MaxCandles} \subseteq Nat \ {0}
    /\ \A m \in Modes : Cap[m] \in Nat \ {0} /\ Cooldown[m] \in Nat

Frames == {"M5", "H1"}
None == -1

(* _strategy_timeframe; the legacy strategy runs on H1.                    *)
Frame(mode) == IF mode = "SCALP_V1" THEN "M5" ELSE "H1"

(* The offers of every mode: constant, so TLC computes them once.          *)
Offers == [ m \in Modes |->
              { [kind |-> o.kind, side |-> o.side, level |-> o.level,
                 sized |-> o.lots > 0] :
                 o \in { OfferOf(m, chart) : chart \in Charts } } ]

(* Charts are such that the broker and the jobs can produce them.          *)
ASSUME ChartsAreReal == \A chart \in Charts \cup Corpus : RealChart(chart)

VARIABLES
    setup,      \* the configuration of this deployment
    clock,      \* the present M5 bucket
    watcher,    \* CandleWatcher.current_candle_open
    index,      \* _timeframe_candle_indices
    task,       \* the tick dispatch task
    book,       \* _strategy_trade_dates, _counts and _entries by mode
    recent,     \* _recent_trade_levels
    pairs,      \* Executor._pending_pairs
    working,    \* stop orders at the broker
    calendar,   \* NewsFilter.last_refresh_date and feed_available
    cache,      \* the calendar file: its date, None if unreadable
    poller,     \* the date of a fetch the signal poller awaits, or None
    (* history *)
    taken,      \* entries this process knows it made
    stray,      \* stop orders the process lost sight of
    unsaved,    \* days on which saving the calendar failed
    final,      \* index of the last candle that was finalised
    sample      \* the chart the rules are tried on, as a set of at most one

loop == << setup, task, watcher, index, book, recent, pairs, final, taken >>
vars == << setup, clock, watcher, index, task, book, recent, pairs, working,
           calendar, cache, poller, taken, stray, unsaved, final, sample >>

Today == clock \div DayLength
Bucket(frame, t) == IF frame = "M5" THEN t ELSE t \div HourLength

Idle == [at |-> "idle", store |-> "live", queue |-> << >>, offer |-> None,
         day |-> None, due |-> {}]

Begun(queue) ==
    IF queue = << >> THEN Idle
    ELSE [Idle EXCEPT !.at = "bars", !.store = Head(queue), !.queue = Tail(queue)]

Mode == IF task.store = "live" THEN setup.active ELSE setup.shadow

FreshProcess ==
    [ watcher |-> [f \in Frames |-> None],
      index |-> [f \in Frames |-> 0],
      book |-> [m \in Modes |-> [day |-> None, count |-> 0, entries |-> {}]] ]

Init ==
    /\ setup \in Setups
    /\ clock = 0
    /\ watcher = FreshProcess.watcher
    /\ index = FreshProcess.index
    /\ book = FreshProcess.book
    /\ task = Idle
    /\ recent = {} /\ pairs = {} /\ working = {} /\ taken = {} /\ stray = {}
    /\ calendar = [day |-> None, on |-> FALSE]
    /\ cache \in {None, 0}
    /\ poller = None
    /\ unsaved = {}
    /\ final = 0
    /\ sample = {}

-----------------------------------------------------------------------------
(* entries *)

Reset(b) == IF b.day = Today THEN b ELSE [b EXCEPT !.day = Today, !.count = 0]

Near(a, b, mode) ==
    Distance(a, b) <= CASE mode = "SCALP_V1" -> ScalpTouch
                        [] mode = "EMA_PULLBACK_H1" -> PullbackProximity
                        [] OTHER -> Proximity

(* An earlier entry on the side and near the level of the offer that is    *)
(* not more than the cooldown old.                                         *)
Repeats(e, mode, offer) ==
    /\ e.side = offer.side
    /\ Near(e.level, offer.level, mode)
    /\ index[Frame(mode)] - e.index <= Cooldown[mode]

(* _same_level_cooldown_reason of the legacy strategy.                     *)
SameLevel(offer) ==
    /\ Cooldown["LEGACY_LEVELS"] > 0
    /\ \E e \in recent : Repeats(e, "LEGACY_LEVELS", offer)

(* Slip: the cap is checked, the cooldown is not.                          *)
LimitedByCap(mode, offer) ==
    mode # "LEGACY_LEVELS" /\ Reset(book[mode]).count >= Cap[mode]

(* _strategy_trade_limit_reason; the legacy strategy has no cap.           *)
Limited(mode, offer) ==
    IF mode = "LEGACY_LEVELS" THEN SameLevel(offer)
    ELSE \/ Reset(book[mode]).count >= Cap[mode]
         \/ \E e \in book[mode].entries : Repeats(e, mode, offer)

EntryAt(mode, offer) ==
    [side |-> offer.side, level |-> offer.level, index |-> index[Frame(mode)]]

(* Slip: counted when it is sent and again when it is answered.            *)
RecordedTwice(mode, offer) ==
    [ day |-> Today, count |-> Reset(book[mode]).count + 2,
      entries |-> book[mode].entries \cup {EntryAt(mode, offer)} ]

(* _record_strategy_entry.                                                 *)
Recorded(mode, offer) ==
    [ day |-> Today, count |-> Reset(book[mode]).count + 1,
      entries |-> book[mode].entries \cup {EntryAt(mode, offer)} ]

-----------------------------------------------------------------------------
(* the end of a cycle *)

(* Slip: one candle too long.                                              *)
ExpiredLate(ps) == { p \in ps : index[Frame(setup.active)] - p.index > Expiry }

(* check_pending_inside_bar_orders: the pairs whose lifetime is over.      *)
Expired(ps) == { p \in ps : index[Frame(setup.active)] - p.index >= Expiry }

(* _finalize_candle, which cancels the expired orders one by one before it *)
(* writes the state; nothing else awaits the broker.  ps: the pairs by     *)
(* then.                                                                   *)
Finalized(ps) ==
    IF Expired(ps) # {}
    THEN /\ task' = [task EXCEPT !.at = "cancel", !.due = Expired(ps)]
         /\ UNCHANGED final
    ELSE /\ task' = Begun(task.queue)
         /\ final' = index[Frame(setup.active)]

(* A store's cycle ends: a shadow cycle only writes the state.             *)
Ends(ps) ==
    IF task.store = "live" THEN Finalized(ps)
    ELSE task' = Begun(task.queue) /\ UNCHANGED final

(* One answer to _cancel_order: an error is logged and the pair is dropped *)
(* all the same.  A pair that a fill removed during the await makes the    *)
(* removal raise, which ends the whole tick.                               *)
CancelAnswered ==
    /\ task.at = "cancel"
    /\ \E p \in task.due, ok \in BOOLEAN :
        /\ working' = IF ok THEN working \ {p} ELSE working
        /\ stray' = IF ok \/ p \notin working THEN stray ELSE stray \cup {p}
        /\ pairs' = pairs \ {p}
        /\ IF p \notin pairs
           THEN task' = Idle /\ UNCHANGED final
           ELSE IF task.due = {p}
           THEN task' = Begun(task.queue) /\ final' = index[Frame(setup.active)]
           ELSE task' = [task EXCEPT !.due = @ \ {p}] /\ UNCHANGED final
    /\ UNCHANGED << setup, clock, watcher, index, book, recent, calendar, cache,
                    poller, taken, unsaved >>

-----------------------------------------------------------------------------
(* ticks and bars *)

(* on_tick: a tick of the present or, late, of the previous bucket.  Any   *)
(* change of bucket closes a candle, except on the first tick.             *)
Tick ==
    /\ task.at = "idle"
    /\ \E t \in {clock, clock - 1} \cap Nat :
        LET closed == { f \in Frames : watcher[f] \notin {None, Bucket(f, t)} }
            live == IF Frame(setup.active) \in closed THEN <<"live">> ELSE << >>
            shadow == IF /\ setup.shadow \notin {"NONE", "LEGACY_LEVELS",
                                                 setup.active}
                         /\ Frame(setup.shadow) \in closed
                      THEN <<"shadow">> ELSE << >>
        IN  /\ watcher' = [f \in Frames |-> Bucket(f, t)]
            /\ watcher' # watcher
            /\ index' = [f \in Frames |->
                            IF f \in closed THEN index[f] + 1 ELSE index[f]]
            /\ index' \in [Frames -> 0..MaxCandles]
            /\ task' = Begun(live \o shadow)
    /\ UNCHANGED << setup, clock, book, recent, pairs, working, calendar, cache,
                    poller, taken, stray, unsaved, final >>

(* _fetch_execution_bars fails: the legacy strategy only writes the state, *)
(* the others finalise.                                                    *)
BarsFail ==
    /\ task.at = "bars"
    /\ IF Mode = "LEGACY_LEVELS" /\ ~setup.xauex
       THEN task' = Begun(task.queue) /\ UNCHANGED final
       ELSE Ends(pairs)
    /\ UNCHANGED << setup, clock, watcher, index, book, recent, pairs, working,
                    calendar, cache, poller, taken, stray, unsaved >>

(* _process_candle_close: in signal mode the strategies only refresh the   *)
(* trend, from daily bars; otherwise the gate comes next.                  *)
AfterBars == IF setup.xauex /\ task.store = "live" THEN "daily" ELSE "gate"

(* The bars are there and, for the legacy strategy, the levels have been   *)
(* refreshed.                                                              *)
BarsArrive ==
    /\ task.at = "bars"
    /\ task' = [task EXCEPT !.at = AfterBars]
    /\ UNCHANGED << setup, clock, watcher, index, book, recent, pairs, working,
                    calendar, cache, poller, taken, stray, unsaved,
                    final >>

-----------------------------------------------------------------------------
(* the environment gate *)

(* After the calendar: the feed, and clear: no event near, no kill switch. *)
Cleared(on, clear) ==
    IF on /\ clear
    THEN task' = [task EXCEPT !.at = "daily", !.day = None] /\ UNCHANGED final
    ELSE Ends(pairs)

(* _environment_gate up to its await: session hours and, for the live      *)
(* store, the risk gates may end the cycle; a calendar of today needs no   *)
(* fetch.                                                                  *)
Gate ==
    /\ task.at = "gate"
    /\ \/ Ends(pairs)
       \/ /\ calendar.day = Today
          /\ \E clear \in BOOLEAN : Cleared(calendar.on, clear)
       \/ /\ calendar.day # Today
          /\ task' = [task EXCEPT !.at = "news", !.day = Today]
          /\ UNCHANGED final
    /\ UNCHANGED << setup, clock, watcher, index, book, recent, pairs, working,
                    calendar, cache, poller, taken, stray, unsaved >>

(* Slip: a failed refresh counts as today's.                               *)
ReloadedMarked(c, file) ==
    IF file \in Nat THEN [day |-> file, on |-> TRUE]
    ELSE [day |-> Today, on |-> FALSE]

(* _load_cache in the except clause.                                       *)
Reloaded(c, file) ==
    IF file \in Nat THEN [day |-> file, on |-> TRUE]
    ELSE [c EXCEPT !.on = FALSE]

(* _fetch_and_cache for a day: a fetch that fails, one that is saved, and  *)
(* one whose save raises, with the file as it was or cut short.            *)
Fetched(day) ==
    \/ /\ calendar' = Reloaded(calendar, cache)
       /\ UNCHANGED << cache, unsaved >>
    \/ /\ calendar' = [day |-> day, on |-> TRUE]
       /\ cache' = day
       /\ UNCHANGED unsaved
    \/ /\ cache' \in {cache, None}
       /\ calendar' = Reloaded([day |-> day, on |-> TRUE], cache')
       /\ unsaved' = unsaved \cup {day}

NewsDone ==
    /\ task.at = "news"
    /\ Fetched(task.day)
    /\ \E clear \in BOOLEAN : Cleared(calendar'.on, clear)
    /\ UNCHANGED << setup, clock, watcher, index, book, recent, pairs, working,
                    poller, taken, stray >>

(* The signal poller's own pass through the gate, at any time.             *)
PollerAsks ==
    /\ setup.xauex /\ poller = None /\ calendar.day # Today
    /\ poller' = Today
    /\ UNCHANGED << loop, clock, working, calendar, cache, stray,
                    unsaved >>

PollerNews ==
    /\ poller # None
    /\ Fetched(poller)
    /\ poller' = None
    /\ UNCHANGED << loop, clock, working, stray >>

-----------------------------------------------------------------------------
(* the decision and the order *)

(* _fetch_daily_closes, then the strategy and its limits.  Without daily   *)
(* bars there is no offer.                                                 *)
Decide ==
    /\ task.at = "daily"
    /\ \E offer \in (IF setup.xauex /\ task.store = "live" THEN {}
                     ELSE Offers[Mode])
                    \cup {[kind |-> "NONE", side |-> 0, level |-> 0,
                           sized |-> FALSE]} :
        IF offer.side = 0
        THEN Ends(pairs) /\ UNCHANGED book
        ELSE IF Limited(Mode, offer)
        THEN Ends(pairs) /\ book' = [book EXCEPT ![Mode] = Reset(@)]
        ELSE IF task.store = "shadow"
        THEN Ends(pairs) /\ book' = [book EXCEPT ![Mode] = Recorded(Mode, offer)]
        ELSE IF ~offer.sized
        THEN Ends(pairs) /\ book' = [book EXCEPT ![Mode] = Reset(@)]
        ELSE /\ task' = [task EXCEPT !.at = "order", !.offer = offer]
             /\ book' = [book EXCEPT ![Mode] = Reset(@)]
             /\ UNCHANGED final
    /\ UNCHANGED << setup, clock, watcher, index, recent, pairs, working, calendar,
                    cache, poller, taken, stray, unsaved >>

StopOrder == [offer |-> task.offer, index |-> index[Frame(Mode)]]

(* place_market_order or place_inside_bar_orders is answered with an id.   *)
OrderTaken ==
    /\ task.at = "order"
    /\ LET stop == task.offer.kind = "STOP"
           ps == IF stop THEN pairs \cup {StopOrder} ELSE pairs
       IN  /\ pairs' = ps
           /\ working' = IF stop THEN working \cup {StopOrder} ELSE working
           /\ IF Mode = "LEGACY_LEVELS"
              THEN /\ recent' = recent \cup {EntryAt(Mode, task.offer)}
                   /\ UNCHANGED book
              ELSE /\ book' = [book EXCEPT ![Mode] = Recorded(Mode, task.offer)]
                   /\ UNCHANGED recent
           /\ taken' = taken \cup
                 {[entry |-> EntryAt(Mode, task.offer), day |-> Today]}
           /\ Ends(ps)
    /\ UNCHANGED << setup, clock, watcher, index, calendar, cache, poller, stray, unsaved >>

(* What the broker may have made of an order whose answer never arrives.   *)
MaybeTaken ==
    \/ UNCHANGED << working, stray >>
    \/ /\ task.at = "order" /\ task.offer.kind = "STOP"
       /\ working' = working \cup {StopOrder}
       /\ stray' = stray \cup {StopOrder}

(* The order is refused, or the wait for its answer fails.                 *)
OrderFails ==
    /\ task.at = "order"
    /\ MaybeTaken
    /\ Ends(pairs)
    /\ UNCHANGED << setup, clock, watcher, index, book, recent, pairs, calendar,
                    cache, poller, taken, unsaved >>

-----------------------------------------------------------------------------
(* around the loop *)

(* A stop order fills: on_order_filled forgets its pair.                   *)
StopFills ==
    /\ \E p \in working :
        /\ working' = working \ {p}
        /\ stray' = stray \ {p}
        /\ pairs' = pairs \ {p}
    /\ UNCHANGED << setup, clock, watcher, index, task, book, recent, calendar,
                    cache, poller, taken, unsaved, final >>

(* A reconnect cancels the tick dispatch task wherever it waits.           *)
Reconnect ==
    /\ task.at # "idle"
    /\ task' = Idle
    /\ MaybeTaken
    /\ UNCHANGED << setup, clock, watcher, index, book, recent, pairs, calendar,
                    cache, poller, taken, unsaved, final >>

(* The process dies and starts again: what is in memory is gone, startup   *)
(* reads the levels and tries the calendar once.  Only the clock's order   *)
(* of days and the broker's orders remain.                                 *)
Restart ==
    /\ index # FreshProcess.index
    /\ watcher' = FreshProcess.watcher
    /\ index' = FreshProcess.index
    /\ book' = FreshProcess.book
    /\ task' = Idle
    /\ recent' = {} /\ pairs' = {} /\ taken' = {} /\ final' = 0
    /\ \/ UNCHANGED working
       \/ /\ task.at = "order" /\ task.offer.kind = "STOP"
          /\ working' = working \cup {StopOrder}
    /\ stray' = working'
    /\ poller' = None
    /\ \/ /\ calendar' = Reloaded([day |-> None, on |-> FALSE], cache)
          /\ UNCHANGED << cache, unsaved >>
       \/ /\ calendar' = [day |-> Today, on |-> TRUE]
          /\ cache' = Today /\ UNCHANGED unsaved
    /\ UNCHANGED << setup, clock >>

Advance ==
    /\ clock < MaxTime
    /\ clock' = clock + 1
    /\ UNCHANGED << loop, working, calendar, cache, poller, stray,
                    unsaved >>

(* Any chart may come up: the rules are tried on it at the very start, and *)
(* nothing follows.                                                        *)
LookAt ==
    /\ clock = 0 /\ setup.xauex /\ cache = None /\ poller = None
    /\ watcher = FreshProcess.watcher
    /\ sample' \in { {chart} : chart \in Corpus }
    /\ UNCHANGED << loop, clock, working, calendar, cache, poller, stray, unsaved >>

Step ==
    \/ Tick \/ BarsFail \/ BarsArrive \/ Gate \/ NewsDone
    \/ Decide \/ OrderTaken \/ OrderFails \/ CancelAnswered
    \/ PollerAsks \/ PollerNews \/ StopFills \/ Reconnect \/ Restart
    \/ Advance

Next ==
    /\ sample = {}
    /\ \/ Step /\ UNCHANGED sample
       \/ LookAt

Spec == Init /\ [][Next]_vars

-----------------------------------------------------------------------------
(* properties *)

Entries == [side : Sides, level : Int, index : Nat]

(* Every part of the loop's state has the shape the code gives it; an      *)
(* order is only awaited for the live store and only for a sized offer.    *)
TypeOK ==
    /\ setup \in Setups /\ clock \in 0..MaxTime
    /\ watcher \in [Frames -> Nat \cup {None}]
    /\ index \in [Frames -> Nat]
    /\ task.at \in {"idle", "bars", "gate", "news", "daily", "order", "cancel"}
    /\ task.store \in {"live", "shadow"}
    /\ task.at = "order" =>
          task.store = "live" /\ ~setup.xauex /\ task.offer.sized
    /\ task.at = "cancel" <=> task.due # {}
    /\ \A m \in Modes : /\ book[m].count \in 0..Cap[m]
                        /\ book[m].entries \subseteq Entries
    /\ recent \subseteq Entries
    /\ calendar.day \in Nat \cup {None} /\ calendar.on \in BOOLEAN
    /\ cache \in Nat \cup {None} /\ poller \in Nat \cup {None}

(* A process never makes more entries on a day than the mode's cap, and    *)
(* never two on one side near a level within the cooldown: whatever awaits *)
(* and midnights lie between _strategy_trade_limit_reason and              *)
(* _record_strategy_entry.                                                 *)
EntriesSpaced ==
    /\ \A a, b \in taken :
          \/ a = b
          \/ a.entry.side # b.entry.side
          \/ ~Near(a.entry.level, b.entry.level, setup.active)
          \/ Distance(a.entry.index, b.entry.index) > Cooldown[setup.active]
    /\ setup.active # "LEGACY_LEVELS" =>
          \A d \in 0..Today :
              Cardinality({ e \in taken : e.day = d }) <= Cap[setup.active]

(* No inside-bar order works on unnoticed: each is in _pending_pairs or    *)
(* was lost to a failed cancel, a missing answer or a restart, and once a  *)
(* candle is finalised every pair is younger than the expiry.              *)
StopOrdersExpire ==
    /\ working \subseteq pairs \cup stray
    /\ task.at = "idle" /\ final = index[Frame(setup.active)] /\ final > 0 =>
          \A p \in pairs : final - p.index < Expiry

(* A feed that blocks trading is fetched again at the next chance: it is   *)
(* never both unavailable and marked as refreshed today, unless saving     *)
(* today's calendar failed.                                                *)
BlockedFeedIsRetried ==
    ~calendar.on /\ calendar.day = Today => Today \in unsaved

(* Whatever chart comes up: the stop of an offer is on the losing side and *)
(* the target on the winning side of the entry decided on, a sized market  *)
(* order loses no more than the risk money from there at a stop within the *)
(* limits, and the position place_market_order opens of it at a quote that *)
(* has moved on (the price, for the level strategy, which decides at the   *)
(* level) loses no more on top than the drift times the lot; trailing only *)
(* tightens what the tracker holds, the forming bar has no say, pattern    *)
(* evidence never supports both sides and fresh levels are more than a     *)
(* dollar apart.                                                           *)
RulesSound == \A chart \in sample : SoundOn(chart)

(* The rule of calculate_lot_size, "SL distance must be in                 *)
(* [SL_MIN_DOLLARS, SL_MAX_DOLLARS]", said of the position that is opened: *)
(* filled at the very price of the tick that closed the candle, a sized    *)
(* market order has its stop within the limits of its mode.  The code      *)
(* breaks this, see "Disagreements" in the README.                         *)
StopsWithinLimits ==
    \A chart \in sample : \A mode \in TradeModes :
        LET o == OfferOf(mode, chart)
            p == Opened(o, chart.price, chart.price)
        IN  SizedMarket(o) => Distance(p.entry, p.stop) \in StopLimits(mode)
=============================================================================
