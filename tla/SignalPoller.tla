---------------------------- MODULE SignalPoller ----------------------------
(***************************************************************************)
(* _poll_xauex_signal of xauex/main.py: the passes over cmd.json that turn *)
(* the signal of an entry window (live_windows.py) into at most one order, *)
(* the slots and trades of the London day they are counted in, and the     *)
(* file risk_state.json both are kept in over a restart.                   *)
(*                                                                         *)
(* A day is the windows of its slots in order; each has a lead (the signal *)
(* job runs, entry has not begun), its entry window and the grace period   *)
(* after it, in which only a deferred signal may enter.  A day without     *)
(* windows (a weekend) does nothing and is left out.  Windows end hours    *)
(* before midnight and a pass lasts seconds, so no pass spans two days;    *)
(* it may span the end of a window.                                        *)
(*                                                                         *)
(* A pass is cut at its awaits: pattern evidence, gate, order, write_state.*)
(* What the decisions in between look at is free here: each refuses or     *)
(* lets pass.  A mark that is not terminal changes nothing that is kept.   *)
(***************************************************************************)
EXTENDS Naturals, FiniteSets

CONSTANTS
    LastSlot,       \* slots are 1..LastSlot in the order of their windows
    MaxTrades,      \* xauex_max_trades_per_day
    MaxDay,         \* bound: last day
    MaxSignals,     \* bound: signals the jobs write
    MaxRaises       \* bound: counted exceptions of write_state per slot

ASSUME PollerConstants ==
    /\ LastSlot \in Nat \ {0}
    /\ MaxTrades \in Nat \ {0}
    /\ MaxDay \in Nat \ {0}
    /\ MaxSignals \in Nat
    /\ MaxRaises \in Nat

Slots == 1..LastSlot
Days == 1..MaxDay
Ids == 1..MaxSignals
Stages == {"lead", "open", "grace"}

NoFile == [file |-> "missing"]
NoSignal == [signal |-> "none"]
NoId == 0
Never == 0

(* xauex_signal of cmd.json.  kind: a BUY or SELL ("trade"), or another    *)
(* action or a timestamp that cannot be parsed ("other"); day, slot and    *)
(* stage: when it was made; deferred: microstructure_deferred.             *)
Signal ==
    [ id : Ids, kind : {"trade", "other"}, day : Days, slot : Slots,
      stage : Stages, deferred : BOOLEAN ]

(* The xauex_* fields of RiskState.  used: slots with a terminal run.      *)
Book == [ date : Days \cup {Never}, taken : Nat, used : SUBSET Slots ]

(* Of a slot's run of today: never in the file, in it now, written over by *)
(* an older copy, and lost in a restart from that file.                    *)
SaveStates == {"never", "shown", "overtaken", "forgotten"}

NewBook == [date |-> Never, taken |-> 0, used |-> {}]

VARIABLES
    day, slot, stage,   \* the clock
    cmd,        \* the signal in cmd.json
    written,    \* signals written so far
    up,
    kill,       \* kill_switch_active
    book,       \* risk_state
    last,       \* _last_xauex_signal_id_by_slot
    cooling,    \* the retry backoff of the slot's last signal runs
    pc,         \* the pass: "sleep", or awaiting "evidence", the "gate",
                \* the order ("placing"), write_state after an order
                \* ("placed"), at the end of the try ("writing") or outside
                \* it ("closing"); "dead" when the task has ended
    cur,        \* slot of the pass
    copy,       \* the book another task's save in flight has copied
    disk,       \* risk_state.json
    saved,      \* history: what became of each slot's run of today in the
                \* file, over restarts
    orders,     \* history: orders of each slot since the day or process began
    raised,     \* history: those whose write_state raised before the mark
    filled      \* history: orders placed since the day or process began

clock == << day, slot, stage >>
signals == << cmd, written >>
memory == << book, last, cooling >>
pass == << pc, cur >>
stored == << disk, saved >>
file == << copy, stored >>
history == << orders, raised, filled >>

vars == << clock, signals, up, kill, memory, pass, file, history >>

NoneYet == [s \in Slots |-> 0]
NeverSaved == [s \in Slots |-> "never"]

-----------------------------------------------------------------------------
(* the London day *)

(* Slip: dated one day ahead.                                              *)
RolledAhead(b) ==
    IF b.date = day THEN b ELSE [NewBook EXCEPT !.date = day + 1]

(* _clear_xauex_runs_for_new_day, for the book and for what memory keeps   *)
(* per slot.                                                               *)
Rolled(b) == IF b.date = day THEN b ELSE [NewBook EXCEPT !.date = day]

RolledLast == IF book.date = day THEN last ELSE [s \in Slots |-> NoId]

RolledCooling == IF book.date = day THEN cooling ELSE [s \in Slots |-> FALSE]

Init ==
    /\ day = 1 /\ slot = 1 /\ stage = "lead"
    /\ cmd = NoSignal /\ written = 0
    /\ up = TRUE /\ kill = FALSE
    /\ book = NewBook
    /\ last = [s \in Slots |-> NoId]
    /\ cooling = [s \in Slots |-> FALSE]
    /\ pc = "sleep" /\ cur = 1
    /\ copy = NoFile /\ disk = NoFile /\ saved = NeverSaved
    /\ orders = NoneYet /\ raised = NoneYet /\ filled = 0

(* The clock reaches the next edge of a window.                            *)
ClockTurns ==
    /\ \/ stage = "lead" /\ stage' = "open" /\ slot' = slot
       \/ stage = "open" /\ stage' = "grace" /\ slot' = slot
       \/ stage = "grace" /\ slot < LastSlot
          /\ stage' = "lead" /\ slot' = slot + 1
    /\ UNCHANGED << day, signals, up, kill, memory, pass, file, history >>

NextDay ==
    /\ stage = "grace" /\ slot = LastSlot
    /\ day < MaxDay
    /\ pc \in {"sleep", "dead"}
    /\ day' = day + 1 /\ slot' = 1 /\ stage' = "lead"
    /\ orders' = NoneYet /\ raised' = NoneYet /\ filled' = 0
    /\ saved' = NeverSaved
    /\ UNCHANGED << signals, up, kill, memory, pass, copy, disk >>

-----------------------------------------------------------------------------
(* cmd.json, written by other processes (CommandFile has their races) *)

WriteSignal(kind) ==
    /\ written < MaxSignals
    /\ written' = written + 1
    /\ cmd' = [ id |-> written', kind |-> kind, day |-> day, slot |-> slot,
                stage |-> stage, deferred |-> FALSE ]
    /\ UNCHANGED << clock, up, kill, memory, pass, file, history >>

(* The confirm job writes back a signal it read before it was deferred.    *)
Undefer ==
    /\ cmd # NoSignal
    /\ cmd.deferred
    /\ cmd' = [cmd EXCEPT !.deferred = FALSE]
    /\ UNCHANGED << clock, written, up, kill, memory, pass, file, history >>

(* The dashboard writes a file without a signal.                           *)
DropSignal ==
    /\ cmd # NoSignal
    /\ cmd' = NoSignal
    /\ UNCHANGED << clock, written, up, kill, memory, pass, file, history >>

(* _poll_kill_switch.                                                      *)
KillSwitch ==
    /\ up
    /\ kill' = ~kill
    /\ UNCHANGED << clock, signals, up, memory, pass, file, history >>

-----------------------------------------------------------------------------
(* the pass up to its first await *)

(* _xauex_entry_slot or _xauex_grace_entry_slot is the slot of the clock.  *)
InEntry == stage = "open" \/ (stage = "grace" /\ cmd.deferred)

(* _should_retry_signal_in_slot.                                           *)
RetryDue == cmd.id # RolledLast[slot] \/ ~RolledCooling[slot]

Begin(next) ==
    /\ up
    /\ pc = "sleep"
    /\ ~kill
    /\ cmd # NoSignal
    /\ InEntry
    /\ slot \notin Rolled(book).used
    /\ RetryDue
    /\ last' = [RolledLast EXCEPT ![slot] = cmd.id]
    /\ cooling' = [RolledCooling EXCEPT ![slot] = TRUE]
    /\ cur' = slot
    /\ pc' = next
    /\ UNCHANGED << clock, written, up, kill, file, history >>

(* Slip: every run is recorded as one that is not terminal.                *)
MarkNone(b, s, terminal) == b

(* _mark_slot_used: a terminal run uses the slot up.                       *)
Mark(b, s, terminal) == [b EXCEPT !.used = IF terminal THEN @ \cup {s} ELSE @]

(* A HOLD, or a timestamp that is none.                                    *)
PassHold ==
    /\ Begin("closing")
    /\ cmd.kind = "other"
    /\ book' = Mark(Rolled(book), slot, TRUE)
    /\ UNCHANGED cmd

(* Older than any age limit: made for another window.                      *)
OldSignal == cmd.day # day \/ cmd.slot # slot

(* _stale_signal_should_consume_slot.                                      *)
StaleConsumes == ~OldSignal /\ cmd.stage # "lead"

(* The age is over _xauex_signal_age_limit_seconds.                        *)
PassStale ==
    /\ Begin("closing")
    /\ cmd.kind = "trade"
    /\ book' = Mark(Rolled(book), slot, StaleConsumes)
    /\ UNCHANGED cmd

(* Slip: one trade too many.                                               *)
CapPassed(b) == b.taken > MaxTrades

(* xauex_trades_taken_london against xauex_max_trades_per_day.             *)
CapReached(b) == b.taken >= MaxTrades

PassCap ==
    /\ Begin("writing")
    /\ cmd.kind = "trade" /\ ~OldSignal
    /\ CapReached(Rolled(book))
    /\ book' = Mark(Rolled(book), slot, TRUE)
    /\ UNCHANGED cmd

Fresh ==
    /\ cmd.kind = "trade" /\ ~OldSignal
    /\ ~CapReached(Rolled(book))

(* Symbol, distance unit, confirm veto, assurance (terminal), or no symbol *)
(* spec yet (not terminal).                                                *)
PassRefuse(terminal) ==
    /\ Begin("writing")
    /\ Fresh
    /\ book' = Mark(Rolled(book), slot, terminal)
    /\ UNCHANGED cmd

(* MICROSTRUCTURE_DEFERRED, persisted by _persist_inline_confirm_result.   *)
PassDefer ==
    /\ Begin("writing")
    /\ Fresh
    /\ book' = Rolled(book)
    /\ cmd' = [cmd EXCEPT !.deferred = TRUE]

(* An exception before the first await.                                    *)
PassRaises ==
    /\ Begin("closing")
    /\ cmd.kind = "trade" /\ ~OldSignal
    /\ book' = Rolled(book)
    /\ UNCHANGED cmd

PassGoesOn ==
    /\ Begin("evidence")
    /\ Fresh
    /\ book' = Rolled(book)
    /\ UNCHANGED cmd

-----------------------------------------------------------------------------
(* the rest of the pass *)

Continue(from, to) ==
    /\ up
    /\ pc = from
    /\ pc' = to
    /\ UNCHANGED << clock, signals, up, kill, last, cooling, cur, copy >>

(* Entry quality or the add-on decision refuses.                           *)
EvidenceRefuses ==
    /\ Continue("evidence", "writing")
    /\ book' = Mark(book, cur, TRUE)
    /\ UNCHANGED << stored, history >>

EvidencePasses ==
    /\ Continue("evidence", "gate")
    /\ UNCHANGED << book, stored, history >>

(* _environment_gate, the quote, the spread or the risk budget refuse for  *)
(* now; distances, lot or remaining daily risk refuse for the window.      *)
GateRefuses(terminal) ==
    /\ Continue("gate", "writing")
    /\ terminal => ~kill
    /\ book' = Mark(book, cur, terminal)
    /\ UNCHANGED << stored, history >>

Send ==
    /\ Continue("gate", "placing")
    /\ ~kill
    /\ orders' = [orders EXCEPT ![cur] = @ + 1]
    /\ UNCHANGED << book, stored, raised, filled >>

(* An exception of evidence, gate or sizing: EXECUTION_EXCEPTION.          *)
PassFails ==
    /\ \E from \in {"evidence", "gate"} : Continue(from, "closing")
    /\ UNCHANGED << book, stored, history >>

(* place_market_order returned an id: _record_xauex_trade.                 *)
OrderPlaced ==
    /\ Continue("placing", "placed")
    /\ book' = [book EXCEPT !.taken = @ + 1]
    /\ filled' = filled + 1
    /\ UNCHANGED << stored, orders, raised >>

(* place_market_order returned None: refused, or not answered in time.     *)
OrderNotPlaced ==
    /\ Continue("placing", "writing")
    /\ book' = Mark(book, cur, TRUE)
    /\ UNCHANGED << stored, history >>

(* A lost connection cancels the future the pass waits on: CancelledError  *)
(* is no Exception and ends the task.                                      *)
Cancelled ==
    /\ \E from \in {"evidence", "placing"} : Continue(from, "dead")
    /\ UNCHANGED << book, stored, history >>

ShownIn(f) == IF f # NoFile /\ f.date = day THEN f.used ELSE {}

(* The file of today shows a slot as used, or no longer does.              *)
Noted(f) ==
    [ s \in Slots |-> IF s \in ShownIn(f) THEN "shown"
                      ELSE IF saved[s] = "shown" THEN "overtaken"
                      ELSE saved[s] ]

Written(f) == disk' = f /\ saved' = Noted(f)

(* write_state returned; its save may have failed with an OSError, which   *)
(* is only logged.                                                         *)
Saved(b) == Written(b) \/ UNCHANGED stored

(* After the first write_state the slot is marked ORDER_PLACED.            *)
OrderRecorded ==
    /\ Continue("placed", "writing")
    /\ Saved(book)
    /\ book' = Mark(book, cur, TRUE)
    /\ UNCHANGED history

(* It raised: EXECUTION_EXCEPTION, which is not terminal.                  *)
RecordRaises ==
    /\ Continue("placed", "closing")
    /\ raised[cur] < MaxRaises
    /\ raised' = [raised EXCEPT ![cur] = @ + 1]
    /\ UNCHANGED << book, stored, orders, filled >>

PassEnds ==
    /\ \E from \in {"writing", "closing"} : Continue(from, "sleep")
    /\ Saved(book)
    /\ UNCHANGED << book, history >>

(* write_state raised inside the try, or outside it.                       *)
WriteRaises ==
    /\ \/ Continue("writing", "closing")
       \/ Continue("closing", "dead")
    /\ UNCHANGED << book, stored, history >>

(* _XAUEX_SLOT_RETRY_BACKOFF_SECONDS have passed.                          *)
BackoffEnds(s) ==
    /\ cooling[s]
    /\ cooling' = [cooling EXCEPT ![s] = FALSE]
    /\ UNCHANGED << clock, signals, up, kill, book, last, pass, file,
                    history >>

-----------------------------------------------------------------------------
(* write_state of the other tasks, which rolls the day too *)

RollDay ==
    /\ book' = Rolled(book)
    /\ last' = RolledLast
    /\ cooling' = RolledCooling

BeginSave ==
    /\ up
    /\ copy = NoFile
    /\ RollDay
    /\ copy' = book'
    /\ UNCHANGED << clock, signals, up, kill, pass, stored, history >>

EndSave ==
    /\ up
    /\ copy # NoFile
    /\ Written(copy) \/ UNCHANGED stored
    /\ copy' = NoFile
    /\ UNCHANGED << clock, signals, up, kill, memory, pass, history >>

(* A save that begins and ends while another is in flight.                 *)
QuickSave ==
    /\ up
    /\ RollDay
    /\ Written(book')
    /\ UNCHANGED << clock, signals, up, kill, pass, copy, history >>

-----------------------------------------------------------------------------
(* crash and restart *)

Crash ==
    /\ up
    /\ up' = FALSE
    /\ pc' = "sleep"
    /\ copy' = NoFile
    /\ UNCHANGED << clock, signals, kill, memory, cur, stored, history >>

(* Slip: the runs are not read back.                                       *)
RestoredCount ==
    IF disk = NoFile THEN NewBook ELSE [disk EXCEPT !.used = {}]

(* _restore_risk_state.                                                    *)
Restored == IF disk = NoFile THEN NewBook ELSE disk

Restart ==
    /\ ~up
    /\ up' = TRUE
    /\ kill' = FALSE
    /\ book' = Restored
    /\ last' = [s \in Slots |-> NoId]
    /\ cooling' = [s \in Slots |-> FALSE]
    /\ orders' = NoneYet /\ raised' = NoneYet /\ filled' = 0
    /\ saved' = [ s \in Slots |-> IF saved[s] = "overtaken" THEN "forgotten"
                                  ELSE saved[s] ]
    /\ UNCHANGED << clock, signals, pass, copy, disk >>

-----------------------------------------------------------------------------

Next ==
    \/ ClockTurns
    \/ NextDay
    \/ \E kind \in {"trade", "other"} : WriteSignal(kind)
    \/ Undefer
    \/ DropSignal
    \/ KillSwitch
    \/ PassHold
    \/ PassStale
    \/ PassCap
    \/ \E terminal \in BOOLEAN : PassRefuse(terminal)
    \/ PassDefer
    \/ PassRaises
    \/ PassGoesOn
    \/ EvidenceRefuses
    \/ EvidencePasses
    \/ \E terminal \in BOOLEAN : GateRefuses(terminal)
    \/ Send
    \/ PassFails
    \/ OrderPlaced
    \/ OrderNotPlaced
    \/ Cancelled
    \/ OrderRecorded
    \/ RecordRaises
    \/ PassEnds
    \/ WriteRaises
    \/ \E s \in Slots : BackoffEnds(s)
    \/ BeginSave
    \/ EndSave
    \/ QuickSave
    \/ Crash
    \/ Restart

Spec == Init /\ [][Next]_vars

-----------------------------------------------------------------------------
(* Properties *)

(* Every variable of the poller, its book and its file has its type.       *)
TypeOK ==
    /\ day \in Days /\ slot \in Slots /\ stage \in Stages
    /\ cmd \in Signal \cup {NoSignal}
    /\ written \in 0..MaxSignals
    /\ up \in BOOLEAN /\ kill \in BOOLEAN
    /\ book \in Book
    /\ last \in [Slots -> Ids \cup {NoId}]
    /\ cooling \in [Slots -> BOOLEAN]
    /\ pc \in {"sleep", "evidence", "gate", "placing", "placed", "writing",
               "closing", "dead"}
    /\ cur \in Slots
    /\ copy \in Book \cup {NoFile}
    /\ disk \in Book \cup {NoFile}
    /\ saved \in [Slots -> SaveStates]
    /\ orders \in [Slots -> Nat]
    /\ raised \in [Slots -> Nat]
    /\ filled \in Nat

(* _mark_slot_used and _has_run_slot_been_used_today: whatever signals     *)
(* arrive, are deferred, retried after the backoff or come back in the     *)
(* grace period, one process sends one order for a slot of a day, and one  *)
(* more only for each time write_state raised between the order and the    *)
(* mark of the slot.                                                       *)
SlotTradedOnce == \A s \in Slots : orders[s] <= 1 + raised[s]

(* xauex_max_trades_per_day is checked three awaits before the trade is    *)
(* counted: still no process places more orders on a day.                  *)
DailyCapHolds == filled <= MaxTrades

(* A slot that risk_state.json has shown as used today is not traded again *)
(* by this process, also when an overlapping save writes an older copy     *)
(* over it; a later process only trades it when it was started from such   *)
(* an older copy, before a newer save (_restore_risk_state knows the file  *)
(* alone).                                                                 *)
SavedSlotFreedOnlyByOldCopy ==
    [][ \A s \in Slots :
            orders'[s] > orders[s] => saved[s] \in {"never", "forgotten"} ]_vars
=============================================================================
