------------------------------- MODULE Reports -------------------------------
(***************************************************************************)
(* The jobs that report on the bot.  They share no memory with it: they    *)
(* read the event journal it appends to, the state file it writes and the  *)
(* archive of signal runs, while it keeps working.                         *)
(*   - post_trade_journal writes one entry for each closed trade and a     *)
(*     cursor of the trades it has done;                                   *)
(*   - check_xauex_daily_trade_summary mails the closed XAUEX trades of    *)
(*     the London day once they are all recorded;                          *)
(*   - check_xauex_signal_stall mails when signals stop coming, their      *)
(*     sources degrade, patterns suppress the windows, or a hard block     *)
(*     carries no evidence.                                                *)
(* Each works through its list with a save after each item, so that a      *)
(* failing mail server or a crash repeats an item and loses none.          *)
(*                                                                         *)
(* Days are counted from a Monday; a position is followed from its opening *)
(* to the record of its closing, what happens between is in other modules. *)
(***************************************************************************)
EXTENDS Integers, Sequences, FiniteSets, FiniteSetsExt, SequencesExt

CONSTANTS
    Positions,      \* position ids, in the order of opening
    OwnersOf,       \* who may open each of them
    Slots,          \* live windows of a day
    RunKinds,       \* what an archived run may look like
    MinRuns,        \* --min-problem-runs
    NoTradeDays,    \* --no-trade-days
    Scopes,         \* bounds: days, trades, runs, decisions of a behaviour
    MaxFaults       \* bound: failed writes, calls and mails, crashes

ASSUME ReportConfig ==
    /\ IsFiniteSet(Positions) /\ Positions \subseteq Nat
    /\ OwnersOf \in [Positions -> SUBSET {"xauex", "manual"}]
    /\ Slots \subseteq Nat /\ IsFiniteSet(Slots)
    /\ RunKinds \subseteq [hold : BOOLEAN, blocker : BOOLEAN,
                           warned : BOOLEAN, named : BOOLEAN]
    /\ {MinRuns, NoTradeDays} \subseteq Nat \ {0}
    /\ MaxFaults \in Nat
    /\ Scopes \subseteq [first : Nat, last : Nat,
                         trades : Nat, runs : Nat, decisions : Nat]

VARIABLES
    day, late,      \* the London day; past 15:45
    scope,
    pos,            \* the positions as they are
    bot,            \* the bot's memory of them
    file,           \* state.json
    eventLog,       \* the event journal
    runs,           \* the archived signal runs
    journal,        \* entries of the trade journal
    cursor,         \* ids in its cursor file
    sentDates,      \* dates of the summaries sent, as saved
    sentKeys,       \* keys of the alerts sent, as saved
    writer,         \* the process of post_trade_journal
    summary,        \* the process of the daily summary
    watch,          \* the process of the stall monitor
    faults,
    (* history: what was mailed *)
    mails,          \* daily summaries
    told            \* alerts

market == << day, late, scope, pos >>
botSide == << bot, file, eventLog, runs >>
files == << journal, cursor, sentDates, sentKeys >>
jobs == << writer, summary, watch >>
mailed == << mails, told >>
reportVars == << market, botSide, files, jobs, faults, mailed >>

None == -1
Idle == [at |-> "idle"]
Weekday(d) == d % 7 < 5

ReportsInit ==
    /\ scope \in Scopes
    /\ day = scope.first /\ late = FALSE
    /\ pos = [p \in Positions |-> [owner |-> "none", opened |-> None,
                                   closed |-> None, live |-> FALSE]]
    /\ bot = [open |-> {}, taken |-> 0, day |-> None, closed |-> {}]
    /\ file = bot
    /\ eventLog = << >> /\ runs = << >> /\ journal = << >>
    /\ cursor = {} /\ sentDates = {} /\ sentKeys = << >>
    /\ writer = Idle /\ summary = Idle /\ watch = Idle
    /\ faults = 0 /\ mails = {} /\ told = {}

-----------------------------------------------------------------------------
(* the bot *)

Stamp == Len(runs) + Len(eventLog)
Trades == { p \in Positions : pos[p].opened # None }

(* safe_append_event: an append that fails is logged and forgotten.        *)
Appends(event) ==
    \/ eventLog' = Append(eventLog, event) /\ UNCHANGED faults
    \/ faults < MaxFaults /\ faults' = faults + 1 /\ UNCHANGED eventLog

NewDay ==
    /\ day < scope.last
    /\ day' = day + 1 /\ late' = FALSE
    /\ UNCHANGED << scope, pos, botSide, files, jobs, faults, mailed >>

(* Bound: the summary is followed where there are only trades.             *)
GetsLate ==
    /\ ~late /\ scope.trades > 0 /\ scope.runs = 0
    /\ late' = TRUE
    /\ UNCHANGED << day, scope, pos, botSide, files, jobs, faults, mailed >>

(* place_market_order once the broker has filled it, and                   *)
(* _record_xauex_trade when the call returns; what can come between is in  *)
(* RiskBook and SignalPoller.  Signals trade in the live windows, which    *)
(* close before 15:45.                                                     *)
Open(p, owner) ==
    /\ Cardinality(Trades) < scope.trades
    /\ pos[p].opened = None /\ \A q \in Positions : q < p => q \in Trades
    /\ Weekday(day) /\ (owner = "xauex" => ~late)
    /\ pos' = [pos EXCEPT ![p] = [owner |-> owner, opened |-> day,
                                  closed |-> None, live |-> TRUE]]
    /\ bot' = IF owner = "xauex"
              THEN [bot EXCEPT !.open = @ \cup {p}, !.day = day,
                               !.taken = IF bot.day = day THEN @ + 1 ELSE 1]
              ELSE [bot EXCEPT !.open = @ \cup {p}]
    /\ Appends([type |-> "opened", id |-> p, owner |-> owner, day |-> day, at |-> Stamp])
    /\ UNCHANGED << day, late, scope, file, runs, files, jobs, mailed >>

(* _reset_closed_trades_if_new_day.                                        *)
OfToday(closed) == { r \in closed : r.day = day }

(* The write at the end of on_position_closed has positions and closed     *)
(* trades only; it may be overtaken by a full write or fail.               *)
WritesTrades(memory) ==
    \/ file' = [file EXCEPT !.open = memory.open, !.closed = memory.closed]
    \/ UNCHANGED file

(* on_position_closed for a tracked position.                              *)
Close(p) ==
    /\ p \in bot.open
    /\ LET record == [id |-> p, owner |-> pos[p].owner, day |-> day]
       IN  /\ bot' = [bot EXCEPT !.open = @ \ {p},
                                 !.closed = OfToday(@) \cup {record}]
           /\ Appends([type |-> "closed", id |-> p, owner |-> pos[p].owner,
                       day |-> day, at |-> Stamp])
    /\ WritesTrades(bot')
    /\ pos' = [pos EXCEPT ![p].closed = day, ![p].live = FALSE]
    /\ UNCHANGED << day, late, scope, runs, files, jobs, mailed >>

(* The reconciler drops a position that the broker has closed.             *)
Drop(p) ==
    /\ p \in bot.open /\ faults < MaxFaults
    /\ faults' = faults + 1
    /\ bot' = [bot EXCEPT !.open = @ \ {p}]
    /\ pos' = [pos EXCEPT ![p].closed = day]
    /\ UNCHANGED << day, late, scope, file, eventLog, runs, files, jobs, mailed >>

(* on_position_closed for a position that is not tracked: a record without *)
(* an owner, and no event.                                                 *)
CloseUntracked(p) ==
    /\ pos[p].live /\ p \notin bot.open
    /\ bot' = [bot EXCEPT !.closed =
                 OfToday(@) \cup {[id |-> p, owner |-> "unknown", day |-> day]}]
    /\ WritesTrades(bot')
    /\ pos' = [pos EXCEPT ![p].live = FALSE]
    /\ UNCHANGED << day, late, scope, eventLog, runs, files, jobs, faults, mailed >>

(* write_state of main.py, from the poller and the monitor.                *)
FullWrite ==
    /\ bot' = [bot EXCEPT !.closed = OfToday(@)]
    /\ file' = bot'
    /\ UNCHANGED << market, eventLog, runs, files, jobs, faults, mailed >>

(* A restart keeps the positions and the saved count, and forgets the      *)
(* closed trades of the day.                                               *)
Restart ==
    /\ faults < MaxFaults /\ faults' = faults + 1
    /\ bot' = [bot EXCEPT !.closed = {}]
    /\ UNCHANGED << market, file, eventLog, runs, files, jobs, mailed >>

(* The signal job archives a run; a run is held, blocked, warned, and may  *)
(* name a source problem in its text.                                      *)
ArchiveRun(kind) ==
    /\ Len(runs) < scope.runs /\ Weekday(day)
    /\ runs' = Append(runs, [day |-> day, at |-> Stamp, kind |-> kind])
    /\ UNCHANGED << market, bot, file, eventLog, files, jobs, faults, mailed >>

(* The poller's terminal HARD_BLOCKER for a window: with the evidence of a *)
(* pattern, with a mismatch against no pattern, or with no factor at all.  *)
(* A decision whose event is lost leaves nothing to report and is left out.*)
Decide(slot, evidence) ==
    /\ Weekday(day) /\ Len(eventLog) < scope.decisions
    /\ ~\E k \in DOMAIN eventLog : eventLog[k].type = "blocked"
                                 /\ eventLog[k].day = day /\ eventLog[k].slot = slot
    /\ eventLog' = Append(eventLog, [type |-> "blocked", day |-> day, slot |-> slot,
                                 evidence |-> evidence, at |-> Stamp])
    /\ UNCHANGED << market, bot, file, runs, files, jobs, faults, mailed >>

-----------------------------------------------------------------------------
(* the trade journal *)

ClosedEvents ==
    { [id |-> eventLog[k].id, owner |-> eventLog[k].owner, day |-> eventLog[k].day] :
        k \in { n \in DOMAIN eventLog : eventLog[n].type = "closed" } }

(* _merge_trades: the first record of a position counts, and those of the  *)
(* state file come first.                                                  *)
Merge(first, second) ==
    first \cup { r \in second : \A f \in first : f.id # r.id }

(* run: the trades of the state file, unless it is older than ten minutes, *)
(* and of the event journal, without those in the cursor.                  *)
JournalStart ==
    /\ writer.at = "idle"
    /\ \E stale \in BOOLEAN :
         LET found == Merge(IF stale THEN {} ELSE file.closed, ClosedEvents)
             new == { r \in found : r.id \notin cursor }
         IN  writer' = IF new = {} THEN Idle
                       ELSE [at |-> "asking", todo |-> new, done |-> cursor]
    /\ UNCHANGED << market, botSide, files, summary, watch, faults, mailed >>

(* The model has written the text; append_to_json_list.                    *)
JournalAppend ==
    /\ writer.at = "asking"
    /\ \E r \in writer.todo :
         /\ journal' = Append(journal, r)
         /\ writer' = [at |-> "appended", todo |-> writer.todo \ {r},
                       done |-> writer.done \cup {r.id}]
    /\ UNCHANGED << market, botSide, cursor, sentDates, sentKeys,
                    summary, watch, faults, mailed >>

(* Slip: the cursor takes the whole list with the first entry.             *)
CursorWithAll(w) == w.done \cup { r.id : r \in w.todo }

(* Slip: the cursor has the ids of this run only.                          *)
CursorOfRun(w) == w.done \ cursor

(* The cursor after an entry: the ids it had and those journalled by this  *)
(* run.                                                                    *)
Cursor(w) == w.done

(* save_cursor.                                                            *)
JournalSave ==
    /\ writer.at = "appended"
    /\ cursor' = Cursor(writer)
    /\ writer' = IF writer.todo = {} THEN Idle ELSE [writer EXCEPT !.at = "asking"]
    /\ UNCHANGED << market, botSide, journal, sentDates, sentKeys,
                    summary, watch, faults, mailed >>

(* The model cannot be reached, a file cannot be written, or a kill.       *)
JournalFails ==
    /\ writer.at # "idle" /\ faults < MaxFaults
    /\ faults' = faults + 1 /\ writer' = Idle
    /\ UNCHANGED << market, botSide, files, summary, watch, mailed >>

-----------------------------------------------------------------------------
(* the daily summary *)

(* Slip: every row counts.                                                 *)
DedupeNothing(entries) == ClosedEvents \cup
    { [id |-> entries[k].id + 100 * k, owner |-> entries[k].owner,
       day |-> entries[k].day] : k \in DOMAIN entries }

(* _dedupe_trades: the first journal entry of a position replaces its      *)
(* event.                                                                  *)
Dedupe(entries) ==
    LET first == { k \in DOMAIN entries :
                     \A n \in 1..k - 1 : entries[n].id # entries[k].id }
    IN  Merge({ entries[k] : k \in first }, ClosedEvents)

(* _build_summary.                                                         *)
Listed(d) == { r \in Dedupe(journal) : r.owner = "xauex" /\ r.day = d }

(* trades_taken of _runtime_context.                                       *)
Expected(d) == IF file.day = d THEN file.taken ELSE 0

(* _should_send and _runtime_context: the job goes on only on a weekday    *)
(* after 15:45, not yet sent, with no XAUEX position in the state file.    *)
SummaryStart ==
    /\ summary.at = "idle"
    /\ Weekday(day) /\ late /\ day \notin sentDates
    /\ \A p \in file.open : pos[p].owner # "xauex"
    /\ summary' = [at |-> "loaded", day |-> day, expected |-> Expected(day),
                   events |-> { r.id : r \in { c \in ClosedEvents :
                                  c.owner = "xauex" /\ c.day = day } }]
    /\ UNCHANGED << market, botSide, files, writer, watch, faults, mailed >>

(* Every trade taken has its record.                                       *)
Enough(trades, expected) == Cardinality(trades) >= expected

(* run_once: it waits while records are pending.                           *)
SummaryBuild ==
    /\ summary.at = "loaded"
    /\ LET trades == Listed(summary.day)
       IN  summary' = IF Enough(trades, summary.expected)
                      THEN [at |-> "built", day |-> summary.day,
                            expected |-> summary.expected, events |-> summary.events,
                            listed |-> { r.id : r \in trades }]
                      ELSE Idle
    /\ UNCHANGED << market, botSide, files, writer, watch, faults, mailed >>

SummarySend ==
    /\ summary.at = "built"
    /\ mails' = mails \cup {[summary EXCEPT !.at = "mail"]}
    /\ summary' = [summary EXCEPT !.at = "sent"]
    /\ UNCHANGED << market, botSide, files, writer, watch, faults, told >>

SummarySave ==
    /\ summary.at = "sent"
    /\ sentDates' = sentDates \cup {summary.day}
    /\ summary' = Idle
    /\ UNCHANGED << market, botSide, journal, cursor, sentKeys, writer, watch,
                    faults, mailed >>

(* The mail server refuses, the save fails, or a kill.                     *)
SummaryFails ==
    /\ summary.at # "idle" /\ faults < MaxFaults
    /\ faults' = faults + 1 /\ summary' = Idle
    /\ UNCHANGED << market, botSide, files, writer, watch, mailed >>

-----------------------------------------------------------------------------
(* the stall monitor *)

(* _is_source_degraded.                                                    *)
Degraded(run) == run.kind.blocker \/ run.kind.warned

(* _is_source_blocked_hold.                                                *)
BlockedHold(run) ==
    run.kind.hold /\ (run.kind.blocker \/ (Degraded(run) /\ run.kind.named))

(* _load_recent_signal_runs over the longer of the two look-backs.         *)
Recent == SelectSeq(runs, LAMBDA r : day - r.day <= NoTradeDays + 4)

(* _trailing_matching, as the number of runs at the end.                   *)
Trailing(list, matching) ==
    Cardinality({ k \in DOMAIN list : k..Len(list) \subseteq matching })

Blocked == { eventLog[k] : k \in { n \in DOMAIN eventLog : eventLog[n].type = "blocked" } }
Signal(e) == 10 * e.day + e.slot

(* _decision_invariant_alert: named by the last event that lacks evidence, *)
(* it lists all of four days.                                              *)
InvariantAlert(keys) ==
    LET odd == { e \in Blocked : e.evidence # "pattern" /\ day - e.day <= 4 }
        last == CHOOSE e \in odd : \A f \in odd : f.at <= e.at
        key == <<"invariant", Signal(last)>>
    IN  IF odd = {} \/ key \in keys THEN << >>
        ELSE << [key |-> key, tells |-> { <<"invariant", Signal(e)>> : e \in odd }] >>

(* _previous_london_trading_date.                                          *)
PreviousTradingDay(d) == IF d % 7 = 0 THEN d - 3 ELSE d - 1

(* _pattern_suppression_alert: the last two consecutive trading days with  *)
(* four suppressed windows between them, and one at least on each.         *)
PatternAlert(keys) ==
    LET slots(d) == { e.slot : e \in { b \in Blocked :
                        b.day = d /\ b.evidence # "none" } }
        pairs == { d \in 0..day :
                     /\ slots(d) # {} /\ slots(PreviousTradingDay(d)) # {}
                     /\ Cardinality(slots(d))
                        + Cardinality(slots(PreviousTradingDay(d))) >= 4 }
        key == <<"pattern", Max(pairs)>>
    IN  IF pairs = {} \/ key \in keys THEN << >>
        ELSE << [key |-> key, tells |-> {key}] >>

(* _latest_position_opened_at and _signal_runs_after_trade.                *)
DaysWithoutTrade ==
    LET opens == { k \in DOMAIN eventLog : eventLog[k].type = "opened" }
        latest == Max({ eventLog[k].at : k \in opens } \cup {None})
    IN  { Recent[k].day : k \in { n \in DOMAIN Recent : Recent[n].at > latest } }

(* _alert_key: the kind and the day of the last run.                       *)
AlertKey(kind, list) == <<kind, list[Len(list)].day>>

(* One alert unless its key was sent.                                      *)
Unless(keys, key) == IF key \in keys THEN << >> ELSE << [key |-> key, tells |-> {key}] >>

(* _build_alerts: a stall hides the two milder alerts.                     *)
Alerts(keys) ==
    LET list == Recent
        first == InvariantAlert(keys) \o PatternAlert(keys)
        stalled == { k \in DOMAIN list : BlockedHold(list[k]) }
        degraded == { k \in DOMAIN list : Degraded(list[k]) }
    IN  IF list = << >> THEN first
        ELSE IF Trailing(list, stalled) >= MinRuns
        THEN first \o Unless(keys, AlertKey("stall", list))
        ELSE first
             \o (IF Trailing(list, degraded) >= MinRuns
                 THEN Unless(keys, AlertKey("degraded", list)) ELSE << >>)
             \o (IF Cardinality(DaysWithoutTrade) >= NoTradeDays
                 THEN Unless(keys, <<"no_trades", day>>) ELSE << >>)

WatchStart ==
    /\ watch.at = "idle"
    /\ LET queue == Alerts(ToSet(sentKeys))
       IN  watch' = IF queue = << >> THEN Idle
                    ELSE [at |-> "sending", queue |-> queue, keys |-> sentKeys]
    /\ UNCHANGED << market, botSide, files, writer, summary, faults, mailed >>

WatchSend ==
    /\ watch.at = "sending"
    /\ told' = told \cup Head(watch.queue).tells
    /\ watch' = [watch EXCEPT !.at = "sent"]
    /\ UNCHANGED << market, botSide, files, writer, summary, faults, mails >>

(* The keys are written back after each mail.                              *)
WatchSave ==
    /\ watch.at = "sent"
    /\ sentKeys' = Append(watch.keys, Head(watch.queue).key)
    /\ watch' = IF Tail(watch.queue) = << >> THEN Idle
                ELSE [at |-> "sending", queue |-> Tail(watch.queue), keys |-> sentKeys']
    /\ UNCHANGED << market, botSide, journal, cursor, sentDates, writer, summary,
                    faults, mailed >>

(* Slip: the mail that was refused counts as sent.                         *)
WatchFailsSilently ==
    /\ watch.at = "sending" /\ faults < MaxFaults
    /\ faults' = faults + 1 /\ watch' = [watch EXCEPT !.at = "sent"]
    /\ UNCHANGED << market, botSide, files, writer, summary, mailed >>

WatchFails ==
    /\ watch.at # "idle" /\ faults < MaxFaults
    /\ faults' = faults + 1 /\ watch' = Idle
    /\ UNCHANGED << market, botSide, files, writer, summary, mailed >>

-----------------------------------------------------------------------------

Bot ==
    \/ \E p \in Positions :
         \/ \E owner \in OwnersOf[p] : Open(p, owner)
         \/ Close(p) \/ Drop(p) \/ CloseUntracked(p)
    \/ FullWrite \/ Restart
    \/ \E kind \in RunKinds : ArchiveRun(kind)
    \/ \E slot \in Slots, evidence \in {"pattern", "mismatch", "none"} :
         Decide(slot, evidence)

ReportsNext ==
    \/ NewDay \/ GetsLate \/ Bot
    \/ JournalStart \/ JournalAppend \/ JournalSave \/ JournalFails
    \/ SummaryStart \/ SummaryBuild \/ SummarySend \/ SummarySave \/ SummaryFails
    \/ WatchStart \/ WatchSend \/ WatchSave \/ WatchFails

(* systemd and Monit start the jobs again and again, and a job that runs   *)
(* goes on.                                                                *)
Fairness ==
    /\ WF_reportVars(JournalStart)
    /\ WF_reportVars(JournalAppend)
    /\ WF_reportVars(JournalSave)
    /\ WF_reportVars(WatchStart)
    /\ WF_reportVars(WatchSend)
    /\ WF_reportVars(WatchSave)

ReportsSpec == ReportsInit /\ [][ReportsNext]_reportVars /\ Fairness

-----------------------------------------------------------------------------
(* properties *)

Taken(d) == { p \in Positions : pos[p].owner = "xauex" /\ pos[p].opened = d }

(* A summary that was mailed has every trade of its day: it lists each     *)
(* XAUEX close whose event was there when the job read the state file, and *)
(* where that file counted all trades of the day and no older position     *)
(* closed on it, it lists every trade taken, although events can be lost,  *)
(* closes can come without an owner and entries can be journalled twice.   *)
SummaryIsComplete ==
    \A m \in mails :
      /\ m.events \subseteq m.listed
      /\ (/\ m.expected = Cardinality(Taken(m.day))
          /\ \A p \in Positions :
               pos[p].owner = "xauex" /\ pos[p].closed = m.day => pos[p].opened = m.day)
         => Taken(m.day) \subseteq m.listed

Journalled(p) == \E k \in DOMAIN journal : journal[k].id = p

(* A crash, a full disk or a refused mail between two steps of a job loses *)
(* nothing: what a file marks as done, or a job is about to mark, was      *)
(* journalled or mailed before.                                            *)
MarkedIsDone ==
    /\ \A p \in cursor : Journalled(p)
    /\ writer.at # "idle" => \A p \in writer.done : Journalled(p)
    /\ \A d \in sentDates : \E m \in mails : m.day = d
    /\ ToSet(sentKeys) \subseteq told

(* Nor is anything repeated without such a fault: runs start again at any  *)
(* time, from a stale state file and a journal that has the same trades,   *)
(* yet the entries exceed the trades by no more than the faults.           *)
RepeatsNeedFaults ==
    Len(journal) <= Cardinality({ journal[k].id : k \in DOMAIN journal }) + faults

Stalled ==
    /\ Len(runs) >= MinRuns
    /\ \A k \in Len(runs) - MinRuns + 1..Len(runs) : BlockedHold(runs[k])

(* Nothing that happened stays unreported: again and again every trade     *)
(* with a close event has its journal entry; if the last runs were blocked *)
(* by their sources a mail of that day says so; and every hard block       *)
(* without evidence is named in a mail.                                    *)
EverythingReported ==
    []<>( /\ \A r \in ClosedEvents : Journalled(r.id)
          /\ Stalled => <<"stall", runs[Len(runs)].day>> \in told
          /\ \A e \in Blocked : e.evidence # "pattern" =>
                               <<"invariant", 10 * e.day + e.slot>> \in told )
=============================================================================
