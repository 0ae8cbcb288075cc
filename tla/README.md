# XAUEX in TLA+

A TLA+ development of the XAUEX trading runtime: modules that model its core, TLC runs that check them on small instances, and TLAPS proofs of the main safety properties for every value of the constants.

XAUEX trades XAUUSD on a cTrader account. Timer jobs (`xauex/signal`) write a signal for each trading window to `cmd.json`. One asyncio process (`xauex/main.py`, the *bot*) reads it, gates it, places orders, watches the positions and closes them. Reports and monitors read the files it leaves. The modules follow this path: the signal job, `cmd.json`, the poller and its entry decisions, the order and its position, the risk book, and the reports; beside it the older strategy loop and the operator's manual commands.

## Inventory

| Component | State | Operations | Met by |
| --- | --- | --- | --- |
| Risk gates (`bot/risk/gates.py`), file (`bot/state/risk_persistence.py`) | `RiskState`, open position count, `risk_state.json` | `can_trade`, `record_trade_closed`, baselines, save, load | event handler, signal poller, monitor, account loop, startup, worker threads |
| Executor, PositionManager (`bot/execution/executor.py`) | tracked positions with an owner, pending orders, trades closed today | place, consume pending, fill, close, validate a stop | both pollers, event handler, reconciler |
| Broker client (`bot/api/client.py`) | futures of open requests, event queue, dispatch tasks | connect, disconnect, request/answer, events | every task |
| Reconciler (`bot/api/reconciler.py`), watchdog (`bot/watchdog.py`) | none of its own; reconnect count | reconnect, resubscribe, reconcile | client, PositionManager |
| Session monitor (`_monitor_xauex_positions`) | phase of each position, remembered close requests | read, advance phase, amend stop, close | client, PositionManager, gates |
| Signal poller (`_poll_xauex_signal`), windows (`live_windows.py`) | used slots and trades of the London day (in `RiskState`), last signal and time of each slot | read `cmd.json`, confirm, gate, size, place, mark slot | gates, filters, Executor, `cmd.json` |
| Manual commands (`_poll_manual_trade_commands`, `shared/manual_commands.py`) | command file, replay ledger | consume, verify, open, close | dashboard, Executor |
| Kill switch and `cmd.json` (`_poll_kill_switch`, `signal/signal_writer.py`, `signal/confirm.py`) | `cmd.json` | read-modify-write from several processes | signal jobs, app, poller |
| State writer (`bot/state/writer.py`) | `state.json` | write | every task; startup reads it back |
| Entry decisions, sizing, strategies, patterns, levels, filters | caches of bars, levels, news | pure functions and refreshes | poller |
| Strategy loop (`_on_tick`, `_process_*_candle`) | candles, entries of the day, stop-order pairs, news calendar | close a candle, evaluate, order, expire | tick task, Executor, filters |
| Signal pipeline (`xauex/signal`) | archived runs, directional lock, cost ledger | fetch, ask, parse, validate, lock, archive, publish | timers, `cmd.json` |
| Reports (`analyst/post_trade_journal.py`, `ops/monitoring`) | trade journal and cursor, dates and keys already mailed | journal, summarise, alert | event journal, `state.json`, archived runs |
| App, dashboards, health, weekly review, backtester, tick parser | files | views, offline runs | operator |

What is hard here:

* *Interleaving.* Nine tasks share one event loop. What a task read before an `await` may be old after it: the gate before the order, the broker's list before the reconcile, the order before its fill event.
* *Answers and events.* A request's first message resolves the caller's future; all others go to the dispatcher. A fill can overtake the caller that ordered it; a timeout can be followed by success.
* *Lost connections.* Cancelled futures raise `CancelledError`, which no `except Exception` catches.
* *Restart.* The risk book, owners, phases and pending orders come back from files written by overlapping, fallible, unordered saves.
* *Two rolls of the day.* A close and the gate both roll the daily tally.
* *Thresholds against each other.* Multipliers, minimum lots, canaries, caps and budgets each look at part of the day.
* *Old data that looks new.* A snapshot is put together from a live source, a second release and archives of earlier runs.
* *Programs that share only files.* Two steps such as append and cursor, or mail and key, are cut by a crash, and files of three ages are compared.

What makes each part correct is in the properties below; `PROJECT.json` lists the hazards line by line with the property that covers each, or why none does yet.

## Modules

| Module | Models |
| --- | --- |
| `RiskRules` | the methods of `RiskGates` as operators on a `RiskState` record |
| `RiskBook` | the tasks that read and change the book, its file, crash and restart |
| `RiskBookProofs` | theorems about `RiskBook` |
| `OrderLifecycle` | an order from request to tracked position to close; client, event handler, watchdog, reconciler, startup |
| `PositionBook` | abstract: under whom the tracker keeps a position, and what may drop it |
| `SessionMonitor` | the monitor's passes, phases, stops, close requests, and the add-on decision |
| `SessionMonitorProofs` | theorems about `SessionMonitor` |
| `SignalPoller` | a pass of the poller, its slots and daily count, the jobs and saves around it, crash and restart |
| `SignalPollerProofs` | theorems about `SignalPoller` |
| `CommandFile` | `cmd.json` between its four writers, and the kill switch |
| `ManualCommands` | the command file, its signature, expiry and replay ledger, and the loop that takes it |
| `CommandOnce` | abstract: a command is carried out at most once and in time |
| `ManualCommandsProofs` | theorems about `ManualCommands`, and that it implements `CommandOnce` |
| `EntryRules` | the entry decisions of `main.py` as operators |
| `EntryDay` | a day of signals decided by `EntryRules` |
| `EntryDayProofs` | theorems about `EntryDay` |
| `ChartRules` | patterns, levels, averages, strategies, lots and trailing stop as operators on bars |
| `StrategyLoop` | the candle loop with its awaits, stop orders, news calendar and restart |
| `StrategyLoopProofs` | theorems about `StrategyLoop` and the rules of `ChartRules` |
| `SignalRules` | snapshot, freshness, parser, validator, price guard and directional lock as operators |
| `SignalJob` | the steps of the signal job, what they leave for the next run, crash |
| `SignalProofs` | theorems about `SignalJob` and `CommandFile`: a signal from its sources to `cmd.json` |
| `Reports` | trade journal, daily summary and stall monitor beside a running bot |
| `TradeProofs` | theorems about `OrderLifecycle`, that it implements `PositionBook`, and about `Reports`: a trade from its order to its record |
| `MC...` | instances for TLC, one for each state machine |

Operators whose comment begins with *Slip* (`AddCloseCountsDown`, `HeldForever`, `MarkNone`, ...) are plausible mistakes in the code. No specification uses them; each replaces one definition in a mutation run that must break the property named beside it in `PROJECT.json`.

An action is what a task does between two awaits. Awaits that nothing can go wrong in, for the state of the module, are left out.

### RiskBook

`book` is `RiskGates.state`, `open_position_count` its count, `account` the balance the bot last fetched, `balance` the broker's. `events` are closes the dispatcher has not handled.

| Action | Code |
| --- | --- |
| `HandleClose`, `HandlerRefresh`, `HandlerRefreshFails` | `_on_execution_event` before and after its await on the account |
| `EnvironmentGate`, `DropEntry`, `PlaceOrder` | the poller: `can_trade`, then the await on the news feed, then a refusal or the order |
| `AccountRefresh`, `MonitorCount` | account loop; the count the monitor sets |
| `BeginSave`, `EndSave`, `SaveFails`, `QuickSave` | `save_risk_state` in worker threads: one save in flight, others passing it |
| `Crash`, `Restart` | the process dies at any point; `startup` restores |
| `BrokerClose`, `NextDay` | broker and clock |

`seen` and `late` are history: the closes recorded in this copy of the book, and orders sent since it went over a limit.

Money is an integer; the percentages of `can_trade` are compared after multiplying out. `can_trade` without a balance is only called by tests.

### OrderLifecycle

An order and its position share a name. `call` is where `place_market_order` stands, `answer` its resolved future, `events` the queue of the dispatcher, `tracked` the owner in the PositionManager, `pending` the Executor's pending orders, `disk` what `state.json` holds of both. `dead` and `watchdog` say which tasks a cancelled future has ended.

`Send`, `Timeout` and `Resume` are the caller; `Route` decides between answer and event; `HandleFill` and `HandleClose` are the dispatcher; `Reconnect` is the watchdog up to the answer of its reconcile request (`snapshot`) and `ReconcilePositions` what it does with it later; `Startup` recovers owners by position id, else by the parameters of a pending order (`ShapeOf`); a fill whose slip is beyond the matching tolerances matches none and gets the default owner. `calm` is history: no disconnect, reconnect, crash or timeout so far.

`PositionBook` is what the rest of the bot relies on: for each order its life at the broker and whom its position is kept for. `Book` maps an order's life from call, answer and position (`Life`) and its owner from `tracked`. An abstract position may only be tracked, as its owner's or as the default's while it is nobody's, be dropped once it is closed, change in a reconcile after a disturbance, or be recovered by a start.

`ShapesTellOwners` assumes that orders of the two owners differ in direction, size or levels by more than the matching tolerances. Without it a manual order could be recovered as the poller's.

### SessionMonitor

Prices are levels in the position's direction relative to its fill, so LONG and SHORT are one case. The market is not modelled: each price that a step reads is an input. `phase` is the session phase of a position tracked as `xauex`; `stop_loss` the tracker's stop and `live_stop` the broker's; `wire` the amends in flight; `requested` how many passes a remembered close request still lasts.

A new position has two stops. `place_market_order` sends only the distance of the stop from the cached quote, and the broker counts it from the fill; the tracker keeps the stop that was asked for, or the broker's where the reconciler knew the position before its fill event. After a fill with slippage the two differ, so `PlaceEntry` takes both freely from `EntryStops`. The entry that `_xauex_protect_stop_price` goes by has the same two sources, hence the set `LockStops`.

A pass is `StartRead`, `EndRead`, then for each position `SkipVisit` or `Visit`, and an await for an amend (`AmendReturns`, `AmendTimesOut`) or a close (`CloseReturns`). Between awaits no other task of the bot runs (`LoopFree`); the broker may act at any time. `Startup` takes stops from the broker, owners and phases from a file that may be older than the memory was.

`ordered`, `unsure` and `idle` are history: the tracker's stop at the fill until the broker takes an amend, positions with an unanswered amend, and force-flat passes without an attempt to close.

### SignalPoller

`book` is the part of `RiskState` the poller keeps: the London date, the trades taken, the slots with a terminal run. `last` and `cooling` are `_last_xauex_signal_id_by_slot` and the backoff of `_last_xauex_signal_seen_utc`. `disk` is the same part of `risk_state.json`, `copy` what a save in flight has copied. A day is its slots in order, each with a lead, an entry window and a grace period.

| Action | Code |
| --- | --- |
| `PassHold`, `PassStale`, `PassCap`, `PassRefuse`, `PassDefer`, `PassRaises`, `PassGoesOn` | a pass from its read of `cmd.json` to its first await, by outcome; `Begin` is what they share |
| `EvidenceRefuses`, `EvidencePasses` | after the await on the bars: entry quality, add-on decision |
| `GateRefuses`, `Send` | after the await in `_environment_gate`: gate, sizing, order |
| `OrderPlaced`, `OrderNotPlaced` | the answer of `place_market_order` |
| `OrderRecorded`, `RecordRaises`, `PassEnds`, `WriteRaises`, `PassFails` | the `write_state` calls and the `except` clause |
| `Cancelled` | a lost connection ends the task |
| `BackoffEnds` | the backoff of a slot has passed |
| `BeginSave`, `EndSave`, `QuickSave` | `write_state` of other tasks; it rolls the day |
| `WriteSignal`, `Undefer`, `DropSignal`, `KillSwitch` | jobs, dashboard, switch |
| `ClockTurns`, `NextDay`, `Crash`, `Restart` | clock and operating system |

What the decisions of a pass look at is free: each may refuse or let pass, with the terminal flag the code gives that refusal. A HOLD and a timestamp that cannot be parsed are one kind of signal, since both use up the slot. A signal made in another window is older than every age limit; one of the same window may or may not be. Weekends do nothing and are left out. Windows end hours before midnight, so no pass spans two days (`NextDay` waits for the pass), but it may span the end of its window. An older signal that a race brings back into `cmd.json` acts like a new one: its id differs from the last.

`orders`, `raised` and `filled` are history. They begin again with a day and with a process: a crash between order and save loses the mark, and the code promises nothing across it beyond what the file holds.

`saved` is history over restarts: whether the file has never shown a slot as used today, shows it (`shown`), was written over by an older copy (`overtaken`), or was read in that state by a new process (`forgotten`). Saves overlap, so an older copy can follow a newer one; a crash at that moment frees the slot, and the next process trades it again. `SavedSlotFreedOnlyByOldCopy` says that this is the only way.

### CommandFile

A *turn* of a program is the file it has read and what it will write. The signal job, the confirm job and the dashboard replace the file atomically (`RunReplaces`, `ConfirmReplaces`, `DashboardReplaces`) some time after their reads. The poller opens the file with `"w"` (`PollerTruncates`) and writes (`PollerWrites`) or fails (`PollerFails`); a file put in its place meanwhile is not touched, because its handle is of the old one. `PollKillSwitch` runs on the poller's loop and the poller does not await between read and write, so the two do not interleave; `Crash` may cut a write short.

The file is a switch and a numbered signal, missing, or torn. `wanted` and `newest` are history: what the file should hold. `upset` becomes true when a program changes a file it has not read, or has read torn, or a write is cut short.

### ManualCommands

Time is counted in sleeps of the loop (2 s), so the loop reads at most once a tick. `file` is the command file, `ledger` the entries of `CommandReplayGuard`, `seen` the ids of this process, `orders` how often a command reached the broker. `Queue` is the app, `PutBack` and `PutOther` a file that reappears or was not signed, `Spoil` a ledger that cannot be parsed. `Loop` is the task: read and unlink (which may fail), verify, look up and remember, carry out, report. An exception ends the task (`dead`), as nothing in it catches one.

What makes it work is arithmetic nobody wrote down: the ledger keeps 2048 entries, a command lives 180 s and is read at most every 2 s, so what a full ledger forgets has expired (`ManualConstants` assumes no more than `MaxEntries >= TTL`).

### EntryRules and EntryDay

`SignalPoller` takes the decisions of a pass as free; `EntryRules` is what they compute, from the live confirmation to the lot, with the thresholds of `config.py` and of the code. Percents, pence and cents are integers. `EntryDay` runs them over the slots of a day: `NewSignal`, `ConfirmAges`, then a pass that ends in `Defer`, `Refuse`, `Wait` or `Place`; positions `Advance` and `Close` in between at their stop, at break-even or with a gain. Two things are left out, and with them the promise would not hold: slippage through a stop, and the drift of the quote between sizing and order. The lot is sized by the distance of the stop from the bid or ask that `_poll_xauex_signal` has read, while the order carries the distance from the quote cached when it is sent, and the broker counts that from the fill.

### ChartRules and StrategyLoop

`ChartRules` translates the detectors, levels, both strategies, sizing and trailing stop; `Corpus` is a set of charts on which `RulesSound` tries all of them, in the run some of five bars. An offer is a decision, and what it opens is another thing. Market orders go out at the cached quote: `Opened` is the position that the broker makes of one, with the distances of stop and target from that quote, counted from the fill. The level strategy decides and sizes an entry at the level, so its positions begin elsewhere, with another distance to the stop. The distances are absolute values, so an order is sent even when the quote has passed its stop, and has a stop of no distance when the quote is at it. Stop orders carry prices and open as decided. `Tracked` is what the bot remembers of the position: a "filled" answer gives the level as entry and the requested stop, the fill event the fill and, where it has one, the broker's stop; the trailing stop goes by that. Every chart has its `quotes`.

Averages, ranges and the merging of levels are recursive functions over sequences of bars or prices, as long as the chart has them. `StrategyLoop` has the tick task: `OnTick` closes candles, then a candle is at `bars`, `gate`, `news`, `daily`, `order` or `cancel`, the awaits of its processing. The signal poller refreshes the same calendar meanwhile, stop orders fill, a reconnect cancels the task, the process restarts. Time is in M5 buckets.

### SignalRules and SignalJob

A row of the snapshot is its day, its change and where it came from: FRED, the H.15 release, or an archived run, which may itself have had it from an archive. FRED and the release publish on their own (`source`, `release`, `Appears`): the release may have a newer observation than FRED, an older one, or another value for the same day. `SignalJob` is one process at a time: `Start`, `Fetch`, `AskParser` or `AskGraph` or `NoAnswer`, `Review` (validator, price guard, lock), `Archive`, `Publish`, `BookCost`; `Leaves` and `Stops` are its early returns and `JobDies` comes anywhere. Models may answer anything of `Answers`, `Graphs` and `Reviews`, a NaN included. Prompts and the text of context sources are left out; what they change is the answer, which is free.

### Reports

The bot's side is reduced to what the reports read: positions opened and closed with their owner, the event journal, `state.json`, archived runs and blocked decisions. `Appends` may lose an event, `Drop` is the reconciler, `CloseUntracked` a close of a position that is not tracked. Each job is a process with a step for each write: `JournalStart`, `JournalAppend`, `JournalSave`; `SummaryStart`, `SummaryBuild`, `SummarySend`, `SummarySave`; `WatchStart`, `WatchSend`, `WatchSave`; `...Fails` is a failing call or a kill between any two. `mails` and `told` are history.

## Runs

| Run | Instance | Result |
| --- | --- | --- |
| `risk_book` | account of 10, trades of -2 or +1, two days, a week of two days, 3 orders, 2 positions | passes, about 800,000 states |
| `order_lifecycle` | an order of the poller and a manual one | passes, about 100,000 states |
| `session_monitor` | a position and its add-on, three prices, two stops, requests held two passes | passes, about 3.8 million states |
| `monitor_alive` | the same | `MonitorStaysAlive` violated |
| `signal_poller` | two slots, a cap of two trades, two days, two signals, one exception per slot | passes, about 8.1 million states |
| `command_file` | two signals | passes, about 27,000 states |
| `kill_switch` | one signal | `WritersPreserveSwitch` violated |
| `manual_commands` | three commands, a life of two ticks, a ledger of two | passes, about 1.0 million states |
| `entry_day` | three slots, 19 signals, 7 markets, a limit of 8000 | passes, about 194,000 states |
| `strategy` | four set-ups, two and a half days of two buckets, caps and cooldowns of one, a corpus of 2,560 charts | passes, about 1.16 million states |
| `signal_job` | two runs around a Wednesday with an FOMC decision, four series, two H.15 releases, one publication by FRED or H.15, five outages | passes, about 6.9 million states |
| `reports` | five scopes: two trades of a day, a trade over two days, runs around a trade, runs and decisions over a weekend; one fault | passes, about 500,000 states |

**risk_book.** `DailyTally`: however the two rolls of the day, closes and restarts interleave, the daily result and losing streak are those of the closes recorded on the book's day. `OneLateOrder`: the gap between gate and order exposes one entry and never a second. `WeeklyHaltHolds`: no step lifts a weekly halt within its week. `FileCatchesUp`: if the bot stays up, the file ends up equal to the book. The limits are chosen so that each of the three loss gates is the first to refuse in some state.

**order_lifecycle.** `SteadyTracking`: without interruptions every open position is tracked, awaited, or announced in the queue. `BookKept`: the refinement of `PositionBook`. A position is tracked under its own owner or the default, never the other task's. An event of a position names its owner or leaves it as it was, no handler drops a position that is open, and a reconcile or a start may at most lower an owner to the default.

**session_monitor.** `CloseIsRetried`: a remembered close request never shields a position for more than its hold time. `StopsInStep`: where the tracker's stop is not the broker's, it is the one it had at the fill, and no amend has been taken; the first one that is answered, or a restart, joins the two for good, except while an amend is open or after one that was never answered. `LoosensOnlyToOrder`: with the latter exception only the first amend can loosen a stop at the broker, and never beyond what the tracker had at the fill.

**signal_poller.** `SlotTradedOnce`: signals, retries, deferral and grace all lead back into a slot, and one process still sends one order for it, plus one for each exception of `write_state` between an order and its mark. `DailyCapHolds`: the cap is checked three awaits before the trade is counted, and holds. `SavedSlotFreedOnlyByOldCopy`: once the file has shown a slot of the day as used, this process sends no order for it any more, although an older copy may be written over that file, and a later process only if it was started while such a copy lay there.

**command_file.** `UpdatesKept`: as long as no turn has crossed another, the file holds the operator's switch and the newest signal, and is torn only while the poller writes just that. `SwitchReachesBot`: under the same condition a switch that was set reaches a bot that stays up.

**manual_commands.** `SentIsBarred`: what was sent, or is about to be, is in the ledger or can no longer be verified, although files reappear, unlinks fail and the ids seen are lost in a restart. `CarriedOutOnce`: the refinement of `CommandOnce`. `FileIsAnswered`: a bot that stays up, and whose loop has not ended, reports every file unless another takes its place.

**entry_day.** `WorstCaseWithinLimit`: the day's result stays within the daily stop even if everything open is stopped out. `AddonRidesProtected`: beside another position an add-on is in its direction and that position is protected. `CanariesCapped`: reduced risks are raised to the smallest lot so often a day and no more, counter-signals apart. `CautionNeverRisksMore`: in every reachable situation of the day, a signal with stale inputs asks for no more risk than the same signal with fresh ones, and a day with losses for no more than one without.

**strategy.** `EntriesSpaced`: cap and cooldown hold across the awaits and midnights between check and record. `StopOrdersExpire`: every stop order at the broker is in a pair the bot knows, or one it lost by a failed cancel, a missing answer or a restart; after a candle is finalised no pair is past its expiry. `BlockedFeedIsRetried`: a calendar that blocks trading is fetched again at the next chance. `RulesSound`: on each chart of the corpus stops and targets are on their sides of the entry decided on, and a sized order has its stop within the limits and loses no more than the risk money there; the position that it opens, at any quote and fill of the chart, loses more than that by no more than the drift of the quote from the decided entry costs the lot, and its stop and target are off by the slip of the fill alone while the quote is between them; trailing only tightens, the forming bar has no say, evidence never supports both sides, and levels are more than a dollar apart.

**signal_job.** `DirectionHasFreshInputs`: a direction rests on inputs that carry it, whatever mix of sources supplied them. `LockFollowsMacro`: the locked direction of a day turns only when a tracked series turned in a newer observation, in a row of the other publisher, or in one an archive supplied. The instance needs each of the three.

**reports.** `SummaryIsComplete`: a mailed summary lists every close whose event was there, and every trade taken that day where the count is right and no older position closed that day. `MarkedIsDone`: what a cursor, a sent date or a sent key marks as done was journalled or mailed before, so a fault between two steps of a job loses nothing. `RepeatsNeedFaults`: nor does it repeat more than was cut short: entries exceed journalled trades by at most the number of faults, although runs start at any time from files of different ages. `EverythingReported`: again and again every trade with a close event is journalled, a stall is mailed on its day, and each hard block without evidence is named in a mail.

The bounds: an order per owner and a position with its add-on are all the code allows at once (`MaxLive`, `build_xauex_continuation_addon_decision`), and the properties relate at most two of them. Two days hold a roll by each of its two callers; `DaysPerWeek` is 7 in the code and 2 in the instance. A hold of two passes tells "held" from "about to expire". Two stops let the broker's begin looser or tighter than the tracker's, or equal, and an amend be at either. `MaxWire` of 2 allows an unanswered amend with a newer one behind it. Two slots let one slot's order meet the cap of another's; with a cap of two and one exception a slot can be traded twice and still meet the cap, and the second day sees counts, slots and files of the first. Two signals are enough for a new one to meet a retried, deferred or older one. Three commands overflow a ledger of two, and five ticks outlast a command issued late. The signals and markets of `entry_day` are at both sides of each threshold of `EntryRules`; three slots are all a day has. Two runs of the signal job are enough for a lock, a publication or an outage between them, and an archive to be read; days 8 and 9 are a Tuesday and Wednesday, so rows may be of before the weekend. The five scopes of `reports` keep its parts from multiplying: no property relates trades to decisions, and the scope with both runs and a trade is the one the no-trade alert needs. The theorems have none of these bounds.

Deadlock is checked except where the model ends with its last slot, bucket or run (`entry_day`, `strategy`, `signal_job`).

**Fairness.** Only `FileCatchesUp`, `SwitchReachesBot`, `FileIsAnswered` and `EverythingReported`, the liveness properties need any. `_poll_dashboard_state_refresh` saves every 5 seconds as long as the process runs (weak fairness of `BeginSave`), and a disk that takes a write again and again does not fail every time (strong fairness of `EndSave`; `SaveFails` competes with it). For `SwitchReachesBot`, a pass of the poller that has read the file goes on to write it, since nothing is awaited in between (weak fairness of `PollerTruncates` and `PollerWrites`), and `_poll_kill_switch` gets its turn every 10 seconds between such passes (strong fairness of `PollKillSwitch`). No job and no operator is assumed to do anything there. For `FileIsAnswered` time passes and the loop goes on after each await (weak fairness of `Tick` and `Loop`). For `EverythingReported` the journal is started by its timer on weekdays and the stall monitor by Monit in each cycle, and a process that runs takes its next step (weak fairness of their three steps each); a fault ends a job at most `MaxFaults` times. The summary has no fairness: nothing is promised of when it is sent.

### Disagreements

Where the code differs from a sentence of the repository. `monitor_alive` and `kill_switch` have a run each:

* `monitor_alive`: a disconnect while the monitor awaits the broker ends its task, although its handlers say "keeping monitor alive". The same cancelled future ends a poller or the watchdog.
* `kill_switch`: `write_signal` reads the switch, the dashboard sets it, `write_signal` replaces the file with the old value. The repository's README says that the signal writers preserve it.

The following are stated in the modules as properties that the code breaks. No run checks them; TLC shows a trace when one is added to the configuration of its module.

* `DayBaselineIsTodays` (`RiskBook`): `_maybe_reset_daily` dates the baseline to the new day without taking a new balance, so after a close between midnight and the first gate check the daily limit is measured against an older balance. `record_day_start` asks for a snapshot "on each new UTC day". It takes three days.
* `PositionCapHolds` (`RiskBook`): the monitor counts XAUEX positions among broker positions, which carry no owner. The count is 0 and the cap of `can_trade` is void until the next event.
* `XauexPositionsManaged` (`OrderLifecycle`): a fill event that is handled before `place_market_order` resumes finds no pending order. The position is tracked as `strategy`, and the monitor never closes it.
* `ReconcileReflects` (`OrderLifecycle`): the broker's list is an await old when the tracker is changed by it.
* `StopNeverLoosens` (`SessionMonitor`): `validate_sl_modification` says that it refuses a stop that "would move further from entry". It compares with the tracker's stop, which after a fill with slippage is not the broker's, so the first amend of a position may loosen its stop.
* `StopsWithinLimits` (`StrategyLoop`): `calculate_lot_size` says that the distance of the stop must be between two limits. The level strategy asks it about an entry at the level and sends an order that enters at the quote, so even filled at the price of the closing tick a position can have its stop outside the limits, and lose more than the risk money.
* `AddonParentProtected` (`SessionMonitor`): the phase becomes PROTECT before the amend and stays so when the amend fails, and the add-on decision looks at the phase only. Its instance also needs a lock level above the fill, such as 1 in `MCStops` and `MCLockStops`, to show more than that the lock is below it. `EntryDay` takes the phase for the protection.

Met while translating, and modelled as the code has it:

* `xauex_counter_signal_daily_limit` is not a limit: beyond it a factor of weight one is added, which alone refuses nothing.
* High assurance multiplies the cash risk by 1.5 and so can exceed the configured stop; the day's remaining budget then refuses the entry and does not shrink it.
* `_apply_directional_persistence` says that it "downgrades it to HOLD when the policy blocks a flip"; it adds a warning and keeps the action. The price guard likewise only annotates.
* A snapshot all of whose daily rows come from archives has no daily age, so rows up to six days old pass with a warning.
* `_parse_next_fomc_date` keeps dates from today on, so the state "recent" of the day after a decision is never reached; a calendar that cannot be read leaves a decision day unblocked.
* A confidence of NaN is clamped to 1.
* The lot of an inside-bar order is computed from the level's offset while its stop is at the mother bar's range plus a buffer; `update_trailing_stops` reconstructs the risk from the present stop although its comment says the original.
* The summary is not sent for a day on which a close had no owner or a record stayed missing; a trade that closes after the mail is not reported by it, although the runbook says that it "includes all closed trades". A second stall of a day has the key of the first and is not mailed.

## Proofs

Each proof module states an inductive invariant, proves `Init => Inv` and `Inv /\ [Next]_vars => Inv'` with a step per action, and derives the properties.

| Theorem | Statement |
| --- | --- |
| `RiskBookProofs!TypeCorrect`, `DailyTallyHolds`, `OneLateOrderHolds`, `WeeklyHaltIsSticky` | `TypeOK`, `DailyTally`, `OneLateOrder`, `WeeklyHaltHolds` |
| `TradeProofs!OrderTypes`, `OwnersAreNeverInvented`, `NoFillIsLost` | `TypeOK`, `OwnerNeverInvented` (the owners of `BookKept`, as an invariant), `SteadyTracking` of `OrderLifecycle` |
| `TradeProofs!PositionBookRefinement` | `BookKept` (that is, `Spec => Book!BookSpec`) |
| `TradeProofs!SummariesAreComplete`, `MarksAreEarned`, `RepeatsAreFaults` | `SummaryIsComplete`, `MarkedIsDone`, `RepeatsNeedFaults` of `Reports` |
| `SessionMonitorProofs!MonitorTypes`, `ClosesAreRetried`, `StopsStayInStep`, `StopsLoosenOnlyToOrder` | `TypeOK`, `CloseIsRetried`, `StopsInStep`, `LoosensOnlyToOrder` |
| `SignalPollerProofs!PollerTypes`, `SlotIsTradedOnce`, `CapIsKept`, `SavedSlotIsFreedByOldCopy` | `TypeOK`, `SlotTradedOnce`, `DailyCapHolds`, `SavedSlotFreedOnlyByOldCopy` |
| `SignalProofs!FileTypes`, `UpdatesAreKept` | `TypeOK`, `UpdatesKept` of `CommandFile` |
| `SignalProofs!JobIsTyped`, `DirectionsAreFresh`, `LockTurnsOnNews` | `JobTypes`, `DirectionHasFreshInputs`, `LockFollowsMacro` of `SignalJob` |
| `ManualCommandsProofs!CommandTypes`, `CommandBarred`, `CommandRefinement` | `TypeOK`, `SentIsBarred`, `CarriedOutOnce` (that is, `Spec => Once!OnceSpec`) |
| `EntryDayProofs!DayTypes`, `WorstCaseIsBounded`, `AddonsRideProtected`, `CanariesAreCapped`, `CautionIsNeverDearer` | `TypeOK`, `WorstCaseWithinLimit`, `AddonRidesProtected`, `CanariesCapped`, `CautionNeverRisksMore` |
| `StrategyLoopProofs!LoopTypes`, `EntriesAreSpaced`, `StopOrdersDoExpire`, `BlockedFeedRetries` | `TypeOK`, `EntriesSpaced`, `StopOrdersExpire`, `BlockedFeedIsRetried` |
| `StrategyLoopProofs!RulesAreSound` | `RulesSound`, whatever the charts of `Corpus` |
| `StrategyLoopProofs!OffersAreSound`, `PositionsAreSound`, `LevelsAreSpread`, `LevelOffersAreSound`, `TrailingIsSound`, `EvidenceIsOneSided` | what `RulesSound` rests on, for any one chart |

They hold for any limits, sets of orders, positions, prices and stops that satisfy the `ASSUME`s next to the constants: `RiskConfig`, `BookConstants`, `OrderConstants`, `ShapesTellOwners`, `SessionConstants`, `PollerConstants`, `FileConstants`, `SignalConfig`, `JobConfig`, `ManualConstants`, `EntryConfig`, `DayConstants`, `ChartConfig`, `LoopConfig`, `ChartsAreReal`, `ReportConfig`. `ChartsAreReal` says what a chart is (`RealChart`): bars in the order of their buckets, of which only the last may be forming, none with a high below its low, a spread that is not negative, and, in a policy file that can be read, a target of at least a hundredth of the usual one. The bars of the broker are like that; that a `tp_rr_multiplier` is positive is up to the job that writes the file, as `trade_policy.py` reads any number. Charts may have any number of bars, levels and daily closes.

* **BookInv.** `DailyTally` speaks of the book in memory; a restart brings back the file and a save the copy in flight, so the tally is carried for all three (`Tallies`). `LateStops` ties an order sent over a limit to the state it leaves: a poller that has one late order behind it cannot hold another approval, because the gate of the same or a later state refuses.
* **OrderInv.** Owners are right on disk too (`OwnersInv`), and a pending order on disk is matched only to its own shape. `FillInv` says for a calm session where the news of each fill is: with the caller, in the queue, or in the tracker. For the refinement `TellsInv` adds what a message tells: a fill in the queue or in an answer, or a position in a snapshot, was opened at the broker, and a close in the queue is of one that is closed. Every step is then a step of `PositionBook` or leaves its variables alone; the steps of the broker, of which the tracker learns later, move `Life` alone.
* **MonitorInv.** `HoldInv` adds up: passes without an attempt plus passes a request still lasts stay within the hold time. `WireInv`: the amend the monitor waits for is the last on the wire, all before it were unanswered. `StopInv` relates tracker, wire and broker from these: the two stops agree or the tracker's is still in `ordered`, and an amend under way is no looser than the tracker's, so what the broker takes may only be looser than its own while `ordered` is not empty.
* **PollerInv.** `PassInv`: during a pass its slot is unused and its book is of the day, so no other task rolls it away. `OrderInv` counts orders against marks for each point of a pass; `FilledInv` counts placed orders against the book, below the cap while a pass is under way. `FileInv` carries over a restart: what file and copy show as used today, a book of today shows too. `SavedInv` says what the history means: a slot is `shown` exactly when the file shows it, and one that was written over is still used in the memory of the process, until that ends.
* **FileInv** (`CommandFile`). `UpdatesKept` speaks of the file, but a turn carries a copy of it: the invariant says how what each turn will write follows from what it has read (`SwitchKept`, `Loaded`), and that a file the poller has truncated is still torn unless something was upset. A turn that is not crossed has read the present file, and writes what is expected.
* **JobInv** (`SignalJob`). `SnapshotInv` is what a run knows at each of its steps: the freshness it goes by is that of its rows, a refusal leaves no direction, and a HOLD that the rescue turns into a direction had inputs that were not degraded. That the shortcut over full weeks counts no fewer weekdays than there are is a lemma of its own (`TwoWeekdays`). `LockInv` orders three observations in time: the lock holds the signs of the rows behind it, a running job's rows are no older than those, and a series has one value a day at a publisher, so a sign that differs comes from a newer row, one of the other publisher or an archived one. `Outdated` keeps this for FRED and for the release, each against the rows that came from it, since neither is older than the other. The newest row of a series exists because the naturals are well-founded, which needs no induction.
* **CommandInv** (`ManualCommands`). Entries of the ledger are of different ticks, oldest first, and those kept are the newest: so an entry that a full ledger drops is at least `MaxEntries` ticks old and its command has expired. With that, a command sent is barred, and a step that sends one is a `Carry` of `CommandOnce`.
* **IInv** (`EntryDay`). The worst case of the day and the protection of an add-on need each other: the lot of a new position is sized from what the open ones still reserve, which is right for an add-on only if the place of a position tells what it is (`SidesMatch`) and the main position beside it is protected. For the canaries, `LiftsAreCanaries` says that a raise to the minimum lot that was no counter-trade counts as one. `CautionNeverRisksMore` compares two decisions on one state: `Fresher(d, c)` says that d is the signal c with inputs at least as fresh, and each step of a decision, the inverse signal included, is shown monotone in it up to the lot.
* **IInv** (`StrategyLoop`). `SpacingInv`: every entry taken is still in the memory the limits look at, or too old or too far for it to matter, and an order under way, which passed the limits some awaits ago, still fits and is `Apart` from all of them; no other task takes an entry meanwhile. `CapInv` ties the counter to the entries of its day. `StopInv`: an order at the broker is in a pair or was lost sight of by a dead process, and a finalised candle left no expired pair; one that waits for a cancellation has every expired pair on its list. `CalendarInv`: a feed that blocks, or a calendar file that cannot be read, has a day in `unsaved`.
* **ReportsInv** (`Reports`). Records of closed trades are in five places: memory, `state.json`, event journal, the list of a running journal job, trade journal. `RecordsInv`: all of a position are the same record, and the position is settled, that is neither tracked nor open, so nothing can change it or add another. Hence a summary counts each position once, whatever was merged, repeated or lost, and what it lists is of its day (`SummaryInv`); as many of them as trades taken, all of them trades taken, are all trades taken. `ToldInv` follows what is marked back to what was done: a key in the sent list was in a mail, because the watch saves the keys of the mail it has just sent; `StampsInv` bounds the stamps of the event log by the present one, so the newest blocked decision exists and an alert names it. `EntriesInv` counts: entries exceed the marked trades by at most the faults, since a run appends only what its cursor did not have and only a fault keeps the cursor from following.

* **RulesSound** (`ChartRules`) needs no invariant but that every sampled chart is a real one; the work is in the rules, which are folds over bars. What an order opens (`PositionsAreSound`) follows from the decision alone by arithmetic: no distance from the quote exceeds the one decided on by more than the drift. The library's induction takes an operator, which the provers cannot instantiate, so the proofs use induction as a fact about a set of naturals (`AllNaturals`), from which a function that is defined by its predecessor exists and keeps a set it is closed in (`ARecursion`, `UpTo`). Averages and ranges are then integers on any bars (`EmaType`, `AtrType`), and from there the side of a stop and a target is arithmetic over the farther support, the minimum distance and the clamp of the scalper (`PullbackIsSided`, `ScalpIsSided`). A strongest pattern and a nearest level exist because distances are well-founded. A merge pass keeps a sequence ascending and, unless its levels are already apart, makes it shorter, so as many passes as there are levels leave them apart (`MergeOnceType`, `DeduplicatedType`). The strategies look at bars up to the signal bar and at no other (`PullbackReadsPast`), and the signal bar is the same with and without the bar that is still forming (`FormingHasNoOffer`, `FormingIsNoEvidence`). The scalper is not in that last part: it builds its hourly closes from all bars, the forming one too, and the property leaves it out for that reason.

Every invariant and action property of the passing runs is a theorem. Only model-checked are the four liveness properties, since the prover has no rule for fairness and cannot do `ENABLED`, and the two violations. Operators declared `RECURSIVE` are beyond the provers too; the modules with theorems use recursive functions instead.

## What is left

The parts listed as not modelled or partly modelled above. The theorems say nothing of what the moving averages amount to, only that the promises hold whatever they are.
