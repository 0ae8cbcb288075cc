------------------------------ MODULE RiskBook ------------------------------
(***************************************************************************)
(* The life of the bot's risk book: the RiskState object that RiskGates    *)
(* keeps in memory (gates.py), the tasks of xauex/main.py that read and    *)
(* change it, and its file risk_state.json (risk_persistence.py).          *)
(*                                                                         *)
(* The tasks run on one asyncio loop, so what a task does between two      *)
(* awaits is one action:                                                   *)
(*   handler   _on_execution_event, one event at a time: records a closed  *)
(*             trade, awaits the account, sets the open position count;    *)
(*   poller    _poll_xauex_signal at its gate: can_trade, an await on the  *)
(*             news feed, then gives up or sends an order;                 *)
(*   the account loop, which fetches the balance, and the monitor, which   *)
(*             sets the open position count.                               *)
(* Every one of them ends in write_state, and the dashboard loop calls it  *)
(* every 5 seconds whatever happens, so a save may begin in any state.  It *)
(* leaves the loop: a worker thread copies the book (to_dict) and later    *)
(* replaces the file.  Saves of different tasks overlap and may end in     *)
(* another order than the one they began in: one save may be in flight     *)
(* here (copy) while others begin and end.                                 *)
(*                                                                         *)
(* seen is history, not program state: what the closes recorded in this    *)
(* book add up to, day by day, and the day its day baseline was taken on.  *)
(* It travels with the book to the file and back.                          *)
(***************************************************************************)
EXTENDS RiskRules, Sequences, FiniteSets

CONSTANTS
    Pnls,           \* results a trade can close with
    InitialBalance, \* the account at the first start
    MaxLive,        \* most XAUEX positions: a parent and one add-on
    MaxDay,         \* bound: last day
    MaxTrades       \* bound: orders sent

ASSUME BookConstants ==
    /\ Pnls \subseteq Int
    /\ InitialBalance \in Nat \ {0}
    /\ MaxLive \in Nat \ {0}
    /\ MaxDay \in Nat
    /\ MaxTrades \in Nat

Days == 0..MaxDay

NoFile == [file |-> "missing"]

VARIABLES
    today,       \* UTC day
    balance,     \* the broker's account balance
    live,        \* XAUEX positions open at the broker
    events,      \* closes on their way to the dispatcher, oldest first
    up,          \* the process runs
    account,     \* the balance the bot last fetched
    book,        \* RiskGates.state
    open_position_count,
    handler,     \* "idle", or awaiting the account in "refresh"
    poller,      \* "idle", or approved and awaiting the news in "news"
    copy,        \* the book a save in flight has copied
    disk,        \* risk_state.json
    seen,        \* history of the book
    sent,        \* orders sent
    late         \* history: orders sent since the book went over a limit

tasks == << handler, poller >>
file == << copy, disk >>

vars == << today, balance, live, events, up, account, book,
           open_position_count, tasks, file, seen, sent, late >>

-----------------------------------------------------------------------------

NothingSeen ==
    [ pnl   |-> [d \in Days |-> 0],
      run   |-> [d \in Days |-> 0],
      based |-> 0 ]

SeeClose(h, pnl) ==
    [h EXCEPT !.pnl[today] = @ + pnl,
              !.run[today] = IF pnl <= 0 THEN @ + 1 ELSE 0]

SeeRoll(h, s) ==
    IF DayIsOver(s, today) THEN [h EXCEPT !.based = today] ELSE h

(* The PositionManager holds an order once it is filled and drops it when  *)
(* the event of its close is handled.                                      *)
Tracked == live + Len(events)

(* The book s, rolled to the day d, is over a loss limit.                  *)
OverLimit(s, funds, d) == LossStop(ensure_period_baselines(s, funds, d))

-----------------------------------------------------------------------------

(* startup on an empty directory: the balance is fetched, the book is new. *)
Init ==
    /\ today = 0
    /\ balance = InitialBalance
    /\ live = 0
    /\ events = <<>>
    /\ up = TRUE
    /\ account = balance
    /\ book = ensure_period_baselines(NewRiskState, balance, today)
    /\ open_position_count = 0
    /\ handler = "idle"
    /\ poller = "idle"
    /\ copy = NoFile
    /\ disk = NoFile
    /\ seen = NothingSeen
    /\ sent = 0
    /\ late = 0

(* Broker and clock.                                                       *)
NextDay ==
    /\ today < MaxDay
    /\ today' = today + 1
    /\ late' = IF OverLimit(book, account, today') THEN late ELSE 0
    /\ UNCHANGED << balance, live, events, up, account, book,
                    open_position_count, tasks, file, seen, sent >>

BrokerClose(pnl) ==
    /\ live > 0
    /\ balance + pnl > 0
    /\ live' = live - 1
    /\ balance' = balance + pnl
    /\ events' = IF up THEN Append(events, pnl) ELSE events
    /\ UNCHANGED << today, up, account, book, open_position_count, tasks,
                    file, seen, sent, late >>

-----------------------------------------------------------------------------
(* the event handler *)

(* _on_execution_event up to its first await, with on_position_closed.     *)
HandleClose ==
    /\ up
    /\ handler = "idle"
    /\ events # <<>>
    /\ book' = record_trade_closed(book, Head(events), today)
    /\ seen' = SeeClose(seen, Head(events))
    /\ events' = Tail(events)
    /\ handler' = "refresh"
    /\ late' = IF OverLimit(book', account, today) THEN late ELSE 0
    /\ UNCHANGED << today, balance, live, up, account, open_position_count,
                    poller, file, sent >>

(* get_account answered: the rest of the handler up to its save.           *)
HandlerRefresh ==
    /\ up
    /\ handler = "refresh"
    /\ account' = balance
    /\ open_position_count' = Tracked
    /\ handler' = "idle"
    /\ UNCHANGED << today, balance, live, events, up, book, poller,
                    file, seen, sent, late >>

(* get_account raised: the handler logs and ends without setting the count.*)
HandlerRefreshFails ==
    /\ up
    /\ handler = "refresh"
    /\ handler' = "idle"
    /\ UNCHANGED << today, balance, live, events, up, account, book,
                    open_position_count, poller, file, seen, sent, late >>

-----------------------------------------------------------------------------
(* the signal poller *)

(* _environment_gate(apply_risk_gates=True) up to its await on the news    *)
(* feed: a refusal ends the iteration, an approval waits.                  *)
EnvironmentGate ==
    /\ up
    /\ poller = "idle"
    /\ LET verdict == can_trade(book, account, open_position_count, today)
       IN  /\ book' = verdict.state
           /\ poller' = IF verdict.reason = "OK" THEN "news" ELSE "idle"
    /\ seen' = SeeRoll(seen, book)
    /\ UNCHANGED << today, balance, live, events, up, account,
                    open_position_count, handler, file, sent, late >>

(* News, kill switch, quote or sizing refuses the entry.                   *)
DropEntry ==
    /\ up
    /\ poller = "news"
    /\ poller' = "idle"
    /\ UNCHANGED << today, balance, live, events, up, account, book,
                    open_position_count, handler, file, seen, sent, late >>

(* The order is sent and answered "filled", which tracks the position and  *)
(* brings no event (orders answered "accepted" are OrderLifecycle's).  A   *)
(* second position is an add-on to the first:                              *)
(* build_xauex_continuation_addon_decision allows MaxLive in all.          *)
PlaceOrder ==
    /\ up
    /\ poller = "news"
    /\ Tracked < MaxLive
    /\ sent < MaxTrades
    /\ sent' = sent + 1
    /\ live' = live + 1
    /\ late' = IF OverLimit(book, account, today) THEN late + 1 ELSE 0
    /\ poller' = "idle"
    /\ UNCHANGED << today, balance, events, up, account, book,
                    open_position_count, handler, file, seen >>

-----------------------------------------------------------------------------
(* account loop and monitor *)

(* _poll_account_snapshot: get_account answered.                           *)
AccountRefresh ==
    /\ up
    /\ account' = balance
    /\ UNCHANGED << today, balance, live, events, up, book,
                    open_position_count, tasks, file, seen, sent, late >>

(* _monitor_xauex_positions counts XAUEX positions in the broker's list,   *)
(* whose entries carry no owner: none of them counts.                      *)
OwnedInBrokerList == 0

MonitorCount ==
    /\ up
    /\ open_position_count' = OwnedInBrokerList
    /\ UNCHANGED << today, balance, live, events, up, account, book, tasks,
                    file, seen, sent, late >>

-----------------------------------------------------------------------------
(* write_state's save_risk_state, in a worker thread *)

Copied == [risk |-> book, seen |-> seen]

BeginSave ==
    /\ up
    /\ copy = NoFile
    /\ copy' = Copied
    /\ UNCHANGED << today, balance, live, events, up, account, book,
                    open_position_count, tasks, disk, seen, sent, late >>

(* Slip: a file that is already there is not replaced.                     *)
EndSaveOnce ==
    /\ up
    /\ copy # NoFile
    /\ disk' = IF disk = NoFile THEN copy ELSE disk
    /\ copy' = NoFile
    /\ UNCHANGED << today, balance, live, events, up, account, book,
                    open_position_count, tasks, seen, sent, late >>

EndSave ==
    /\ up
    /\ copy # NoFile
    /\ disk' = copy
    /\ copy' = NoFile
    /\ UNCHANGED << today, balance, live, events, up, account, book,
                    open_position_count, tasks, seen, sent, late >>

(* OSError: logged, the old file stays.                                    *)
SaveFails ==
    /\ up
    /\ copy # NoFile
    /\ copy' = NoFile
    /\ UNCHANGED << today, balance, live, events, up, account, book,
                    open_position_count, tasks, disk, seen, sent, late >>

(* Another task's save, begun and ended while the one in flight waits.     *)
QuickSave ==
    /\ up
    /\ disk' = Copied
    /\ UNCHANGED << today, balance, live, events, up, account, book,
                    open_position_count, tasks, copy, seen, sent, late >>

-----------------------------------------------------------------------------
(* crash and restart *)

(* The process dies; events the broker sends meanwhile reach nobody.       *)
Crash ==
    /\ up
    /\ up' = FALSE
    /\ events' = <<>>
    /\ handler' = "idle"
    /\ poller' = "idle"
    /\ copy' = NoFile
    /\ UNCHANGED << today, balance, live, account, book, open_position_count,
                    disk, seen, sent, late >>

Restored ==
    IF disk = NoFile THEN [risk |-> NewRiskState, seen |-> NothingSeen]
                     ELSE disk

(* startup: account, _restore_risk_state, ensure_period_baselines, the     *)
(* broker's positions, and the first write_state, which may fail.          *)
Restart ==
    /\ ~up
    /\ up' = TRUE
    /\ account' = balance
    /\ book' = ensure_period_baselines(Restored.risk, balance, today)
    /\ seen' = SeeRoll(Restored.seen, Restored.risk)
    /\ open_position_count' = live
    /\ disk' \in {disk, [risk |-> book', seen |-> seen']}
    /\ late' = IF OverLimit(book', account', today) THEN late ELSE 0
    /\ UNCHANGED << today, balance, live, events, tasks, copy, sent >>

-----------------------------------------------------------------------------

Next ==
    \/ NextDay
    \/ \E pnl \in Pnls : BrokerClose(pnl)
    \/ HandleClose
    \/ HandlerRefresh
    \/ HandlerRefreshFails
    \/ EnvironmentGate
    \/ DropEntry
    \/ PlaceOrder
    \/ AccountRefresh
    \/ MonitorCount
    \/ BeginSave
    \/ EndSave
    \/ SaveFails
    \/ QuickSave
    \/ Crash
    \/ Restart

(* The dashboard loop saves as long as the process runs, and a disk that   *)
(* keeps taking writes does not fail every one.                            *)
Fairness == WF_vars(BeginSave) /\ SF_vars(EndSave)

Spec == Init /\ [][Next]_vars /\ Fairness

-----------------------------------------------------------------------------
(* Properties *)

History ==
    [ pnl   : [Days -> Int],
      run   : [Days -> Nat],
      based : Days ]

Saved == [risk : RiskState, seen : History] \cup {NoFile}

(* Every variable of the book, its file and its tasks has its type.        *)
TypeOK ==
    /\ today \in Days
    /\ balance \in Nat \ {0}
    /\ live \in Nat
    /\ events \in Seq(Int)
    /\ up \in BOOLEAN
    /\ account \in Nat \ {0}
    /\ book \in RiskState
    /\ open_position_count \in Nat
    /\ handler \in {"idle", "refresh"}
    /\ poller \in {"idle", "news"}
    /\ copy \in Saved
    /\ disk \in Saved
    /\ seen \in History
    /\ sent \in Nat
    /\ late \in Nat

(* gates.py rolls a day in two places, record_day_start when the gate is   *)
(* asked and _maybe_reset_daily when a trade closes, and a restart brings  *)
(* back an older book.  Whichever comes first, the book's daily result and *)
(* its losing streak are those of the closes it recorded on its day: no    *)
(* close of the day is dropped and none of another day is counted.         *)
DailyTally ==
    /\ book.day_start_date_utc \in Days
    /\ book.losses_date_utc = book.day_start_date_utc
    /\ book.daily_pnl = seen.pnl[book.day_start_date_utc]
    /\ book.consecutive_losses_today = seen.run[book.day_start_date_utc]

(* RiskGates: "Weekly halt persists through the week once triggered; only  *)
(* resets Monday": no win, day roll or refresh of a running bot lifts it   *)
(* while its week lasts.                                                   *)
WeeklyHaltHolds ==
    [][ (up /\ up' /\ book.weekly_halted
            /\ book.week_start_date_utc = WeekStart(today))
        => book'.weekly_halted ]_vars

(* can_trade is asked before the await on the news feed and the order goes *)
(* out after it, so a close handled in between can put the book over a     *)
(* limit behind the poller's back.  That exposes one order and never more: *)
(* once over a limit, at most the entry already approved is still sent.    *)
OneLateOrder == late <= 1

(* A save may overtake another, fail, or be cut by a crash.  If the bot    *)
(* stays up, risk_state.json still ends up being the book in memory, and   *)
(* stays that.                                                             *)
FileCatchesUp == <>[]up => <>[](disk = Copied)

(* record_day_start: "Snapshot day-start balance. Call at startup and on   *)
(* each new UTC day."  So the baseline of a day is a balance fetched on    *)
(* that day.                                                               *)
(* The code breaks this, see "Disagreements" in the README.                *)
DayBaselineIsTodays ==
    up => seen.based = book.day_start_date_utc

(* set_open_position_count: "Update from PositionManager. Called before    *)
(* gate check."  So the gate never lets an entry through while the         *)
(* PositionManager already tracks the most positions allowed.              *)
(* The code breaks this, see "Disagreements" in the README.                *)
PositionCapHolds ==
    [][ EnvironmentGate /\ Tracked >= MaxOpenTrades
        => poller' # "news" ]_vars
=============================================================================
