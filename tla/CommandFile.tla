---------------------------- MODULE CommandFile -----------------------------
(***************************************************************************)
(* cmd.json, which carries the kill switch and the latest signal to the    *)
(* bot.  Four programs read it, change a part and write the whole file     *)
(* back, without a lock:                                                   *)
(*   run        the signal job (signal/run.py), through write_signal;      *)
(*   confirm    the confirm job (signal/confirm.py), which reads the       *)
(*              signal, decides, and calls write_signal;                   *)
(*   dashboard  action_kill_switch of dashboard.py: toggles the switch and *)
(*              writes a file with nothing else in it;                     *)
(*   poller     _persist_inline_confirm_result of the bot, which writes    *)
(*              back what its pass has read, truncating the file first.    *)
(* The others replace the file atomically.  The bot's _poll_kill_switch    *)
(* only reads; it runs on the same loop as the poller, so not while the    *)
(* poller writes.                                                          *)
(*                                                                         *)
(* A turn of a program is the file it has read and what it will write.     *)
(***************************************************************************)
EXTENDS Naturals

CONSTANT MaxSignals     \* bound: signals the signal job makes

ASSUME FileConstants == MaxSignals \in Nat

(* Signals are numbered in the order they are made; 0 is none.             *)
Signals == 0..MaxSignals
NoSignal == 0

Content == [kill : BOOLEAN, signal : Signals]

Blank == [kill |-> FALSE, signal |-> NoSignal]

Missing == [file |-> "missing"]
Torn == [file |-> "torn"]   \* cannot be parsed as JSON

Files == Content \cup {Missing, Torn}

Turn == [step : {"idle", "loaded", "ready"}, read : Files, write : Content]

Idle == [step |-> "idle", read |-> Missing, write |-> Blank]

VARIABLES
    file,       \* cmd.json
    made,       \* signals made so far
    run,        \* turn of the signal job
    confirm,    \* turn of the confirm job; "loaded": it has read the signal
    dashboard,  \* turn of the dashboard
    poller,     \* turn of the poller; "loaded": read, "ready": truncated
    up,         \* the bot runs
    kill_switch_active,
    wanted,     \* history: the switch the dashboard last wrote
    newest,     \* history: the last signal written and not dropped by it
    upset       \* history: a turn has changed a file it had not read, or
                \* the poller has left a torn one

jobs == << run, confirm, dashboard >>
bot == << poller, up, kill_switch_active >>
history == << wanted, newest, upset >>

vars == << file, made, jobs, bot, history >>

-----------------------------------------------------------------------------

Init ==
    /\ file = Missing
    /\ made = 0
    /\ run = Idle /\ confirm = Idle /\ dashboard = Idle /\ poller = Idle
    /\ up = TRUE
    /\ kill_switch_active = FALSE
    /\ wanted = FALSE /\ newest = NoSignal /\ upset = FALSE

(* What a reader makes of a file: kill_switch and xauex_signal, with their *)
(* defaults when it is missing or cannot be parsed.                        *)
Parsed(f) == IF f \in {Missing, Torn} THEN Blank ELSE f

(* Slip: the switch is written with its default.                           *)
WithDefault(s) == [kill |-> FALSE, signal |-> s]

(* write_signal: what it writes after its read.                            *)
WithSignal(s) == [kill |-> Parsed(file).kill, signal |-> s]

(* action_kill_switch, _write_cmd.                                         *)
Toggled == [kill |-> ~Parsed(file).kill, signal |-> NoSignal]

(* The file is no longer the one the turn has read, or was torn then.      *)
Crossed(turn) == turn.read # file \/ turn.read = Torn

-----------------------------------------------------------------------------
(* the signal job: write_signal reads, then replaces *)

RunReads ==
    /\ run = Idle
    /\ made < MaxSignals
    /\ made' = made + 1
    /\ run' = [step |-> "ready", read |-> file, write |-> WithSignal(made')]
    /\ UNCHANGED << file, confirm, dashboard, bot, history >>

RunReplaces ==
    /\ run # Idle
    /\ file' = run.write
    /\ newest' = run.write.signal
    /\ upset' = (upset \/ Crossed(run))
    /\ run' = Idle
    /\ UNCHANGED << made, confirm, dashboard, bot, wanted >>

-----------------------------------------------------------------------------
(* the confirm job: loads the signal, then write_signal reads the switch *)

ConfirmLoads ==
    /\ confirm = Idle
    /\ Parsed(file).signal # NoSignal
    /\ confirm' = [step |-> "loaded", read |-> file, write |-> file]
    /\ UNCHANGED << file, made, run, dashboard, bot, history >>

ConfirmReads ==
    /\ confirm.step = "loaded"
    /\ confirm' = [step |-> "ready", read |-> file,
                   write |-> WithSignal(confirm.write.signal)]
    /\ upset' = (upset \/ Crossed(confirm))
    /\ UNCHANGED << file, made, run, dashboard, bot, wanted, newest >>

ConfirmReplaces ==
    /\ confirm.step = "ready"
    /\ file' = confirm.write
    /\ upset' = (upset \/ Crossed(confirm))
    /\ confirm' = Idle
    /\ UNCHANGED << made, run, dashboard, bot, wanted, newest >>

-----------------------------------------------------------------------------
(* the dashboard *)

DashboardReads ==
    /\ dashboard = Idle
    /\ dashboard' = [step |-> "ready", read |-> file, write |-> Toggled]
    /\ UNCHANGED << file, made, run, confirm, bot, history >>

DashboardReplaces ==
    /\ dashboard # Idle
    /\ file' = dashboard.write
    /\ wanted' = dashboard.write.kill
    /\ newest' = NoSignal
    /\ upset' = (upset \/ Crossed(dashboard))
    /\ dashboard' = Idle
    /\ UNCHANGED << made, run, confirm, bot >>

-----------------------------------------------------------------------------
(* the bot *)

(* Slip: a file without a signal is no reason to end the pass.             *)
PollerReadsAny ==
    /\ up
    /\ poller = Idle
    /\ ~kill_switch_active
    /\ poller' = [step |-> "loaded", read |-> file, write |-> file]
    /\ UNCHANGED << file, made, jobs, up, kill_switch_active, history >>

(* A pass of the poller reads a signal that it will confirm itself.        *)
PollerReads ==
    /\ up
    /\ poller = Idle
    /\ ~kill_switch_active
    /\ Parsed(file).signal # NoSignal
    /\ poller' = [step |-> "loaded", read |-> file, write |-> file]
    /\ UNCHANGED << file, made, jobs, up, kill_switch_active, history >>

(* open(..., "w").                                                         *)
PollerTruncates ==
    /\ up
    /\ poller.step = "loaded"
    /\ poller' = [poller EXCEPT !.step = "ready"]
    /\ file' = Torn
    /\ upset' = (upset \/ Crossed(poller))
    /\ UNCHANGED << made, jobs, up, kill_switch_active, wanted, newest >>

(* json.dump of the whole payload.  A file that another program has put in *)
(* its place meanwhile is not touched: the open handle is of the old one.  *)
PollerWrites ==
    /\ up
    /\ poller.step = "ready"
    /\ file' = IF file = Torn THEN poller.write ELSE file
    /\ poller' = Idle
    /\ UNCHANGED << made, jobs, up, kill_switch_active, history >>

(* An exception while writing: logged, the file stays torn.                *)
PollerFails ==
    /\ up
    /\ poller.step = "ready"
    /\ poller' = Idle
    /\ upset' = TRUE
    /\ UNCHANGED << file, made, jobs, up, kill_switch_active, wanted, newest >>

(* Slip: the poll only ever lifts the switch.                              *)
PollKillSwitchLifts ==
    /\ up
    /\ poller = Idle
    /\ file \notin {Missing, Torn}
    /\ kill_switch_active' = (kill_switch_active /\ file.kill)
    /\ UNCHANGED << file, made, jobs, poller, up, history >>

(* _poll_kill_switch.  A missing file and one that cannot be parsed change *)
(* nothing.                                                                *)
PollKillSwitch ==
    /\ up
    /\ poller = Idle
    /\ file \notin {Missing, Torn}
    /\ kill_switch_active' = file.kill
    /\ UNCHANGED << file, made, jobs, poller, up, history >>

Crash ==
    /\ up
    /\ up' = FALSE
    /\ poller' = Idle
    /\ upset' = (upset \/ poller.step = "ready")
    /\ UNCHANGED << file, made, jobs, kill_switch_active, wanted, newest >>

Startup ==
    /\ ~up
    /\ up' = TRUE
    /\ kill_switch_active' = FALSE
    /\ UNCHANGED << file, made, jobs, poller, history >>

-----------------------------------------------------------------------------

Next ==
    \/ RunReads
    \/ RunReplaces
    \/ ConfirmLoads
    \/ ConfirmReads
    \/ ConfirmReplaces
    \/ DashboardReads
    \/ DashboardReplaces
    \/ PollerReads
    \/ PollerTruncates
    \/ PollerWrites
    \/ PollerFails
    \/ PollKillSwitch
    \/ Crash
    \/ Startup

(* The loop of a running bot goes on: a pass that writes ends, and between *)
(* two passes, 10 s apart, the switch is polled.                           *)
Fairness ==
    /\ WF_vars(PollerTruncates)
    /\ WF_vars(PollerWrites)
    /\ SF_vars(PollKillSwitch)

Spec == Init /\ [][Next]_vars /\ Fairness

-----------------------------------------------------------------------------
(* Properties *)

(* The file, the turns and the bot have their types.                       *)
TypeOK ==
    /\ file \in Files
    /\ made \in Signals
    /\ run \in Turn /\ confirm \in Turn /\ dashboard \in Turn
    /\ poller \in Turn
    /\ up \in BOOLEAN
    /\ kill_switch_active \in BOOLEAN
    /\ wanted \in BOOLEAN
    /\ newest \in Signals
    /\ upset \in BOOLEAN

(* The switch the operator set and the signal that goes with it.           *)
Expected == [kill |-> wanted, signal |-> newest]

(* write_signal, _write_cmd and _persist_inline_confirm_result write the   *)
(* whole file.  As long as none of them has changed a file it had not      *)
(* read, and none was cut short, the file holds the switch the operator    *)
(* last set and the newest signal, however many turns of the four programs *)
(* have come in between, and it is torn only while the poller writes just  *)
(* that.                                                                   *)
UpdatesKept ==
    ~upset => IF file = Torn
              THEN poller.step = "ready" /\ poller.write = Expected
              ELSE Parsed(file) = Expected

(* _poll_kill_switch: under the same condition a switch the operator has   *)
(* set reaches a bot that stays up, unless it is lifted first, although    *)
(* the poller keeps tearing the file.                                      *)
SwitchReachesBot ==
    []~upset /\ <>[]up => (wanted ~> (kill_switch_active \/ ~wanted))

(* README: "The signal writers preserve the top-level `kill_switch`".      *)
WritersPreserveSwitch ==
    [][ RunReplaces \/ ConfirmReplaces
        => file'.kill = Parsed(file).kill ]_vars
=============================================================================
