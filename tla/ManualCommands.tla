--------------------------- MODULE ManualCommands ---------------------------
(***************************************************************************)
(* Manual trades.  The dashboard signs a command and writes it, in place   *)
(* of any earlier one, to one file (app.py, manual_commands.py).  Every    *)
(* 2 s the bot takes the file, verifies the command, looks it up in a      *)
(* bounded ledger on disk, remembers it there and carries it out           *)
(* (_poll_manual_trade_commands).                                          *)
(*                                                                         *)
(* Faults: the file cannot be read or removed, it is put back later, it    *)
(* was not written by the dashboard; the ledger cannot be parsed or        *)
(* written; the broker call or the state write raises, which nothing in    *)
(* the loop catches; the bot crashes at any point and is started again.    *)
(*                                                                         *)
(* Time is counted in ticks of one sleep of the loop, so the loop reads    *)
(* the file at most once in a tick.  MaxNow stands for every later time.   *)
(***************************************************************************)
EXTENDS Naturals, Sequences

CONSTANTS
    Ids,            \* command ids (uuid4: never drawn twice)
    NoId,
    TTL,            \* DEFAULT_MANUAL_COMMAND_TTL_SECONDS, in ticks
    MaxEntries,     \* CommandReplayGuard.max_entries
    MaxNow          \* bound: commands are issued and expire before it

(* A command lives 180 s, 90 ticks; the ledger keeps 2048.                 *)
ASSUME ManualConstants ==
    /\ TTL \in Nat \ {0}
    /\ MaxEntries \in Nat /\ MaxEntries >= TTL
    /\ MaxNow \in Nat \ {0}
    /\ NoId \notin Ids

VARIABLES
    now,
    polled,     \* the loop has slept less than a tick since its last read
    expires,    \* expires_at_utc of each command; 0: not issued
    file,       \* the command file
    ledger,     \* the replay ledger: the ids and when they were accepted
    legible,    \* the ledger can be parsed
    step,       \* where the loop is
    taken,      \* the file the loop has read
    seen,       \* _manual_command_ids
    orders      \* how often each command reached the broker

disk == << file, ledger, legible >>
bot == << step, taken, seen >>
vars == << now, polled, expires, disk, bot, orders >>

Forms == {"signed", "other", "none"}
NoFile == [id |-> NoId, form |-> "none"]
OtherFile == [id |-> NoId, form |-> "other"]
Envelope == [id : Ids \cup {NoId}, form : Forms]
Entry == [id : Ids, at : Nat]

Steps == {"asleep", "read", "verified", "accepted", "sent", "report",
          "dead", "down"}

(* No await from the read to the call of the broker.                       *)
Synchronous == {"read", "verified", "accepted"}

Init ==
    /\ now = 1
    /\ polled = TRUE
    /\ expires = [c \in Ids |-> 0]
    /\ file = NoFile
    /\ ledger = << >> /\ legible = TRUE
    /\ step = "asleep" /\ taken = NoFile /\ seen = {}
    /\ orders = [c \in Ids |-> 0]

Tick ==
    /\ step \notin Synchronous
    /\ now' = IF now < MaxNow THEN now + 1 ELSE now
    /\ polled' = FALSE
    /\ UNCHANGED << expires, disk, bot, orders >>

-----------------------------------------------------------------------------
(* the dashboard, and what else may happen to the file *)

(* create_signed_manual_command.                                           *)
Signed(c) == [id |-> c, form |-> "signed"]

(* manual_trade and manual_close after their checks: the command is signed *)
(* and replaces the file.                                                  *)
Queue(c) ==
    /\ expires[c] = 0
    /\ now + TTL < MaxNow
    /\ expires' = [expires EXCEPT ![c] = now + TTL]
    /\ file' = Signed(c)
    /\ UNCHANGED << now, polled, ledger, legible, bot, orders >>

(* A command of the dashboard is copied back into place.                   *)
PutBack(c) ==
    /\ expires[c] # 0
    /\ file' = Signed(c)
    /\ UNCHANGED << now, polled, expires, ledger, legible, bot, orders >>

(* A file that is no JSON object, is unsigned, has another schema or a     *)
(* signature that does not match.                                          *)
PutOther ==
    /\ file' = OtherFile
    /\ UNCHANGED << now, polled, expires, ledger, legible, bot, orders >>

(* The ledger is no longer JSON.                                           *)
Spoil ==
    /\ legible
    /\ legible' = FALSE
    /\ UNCHANGED << now, polled, expires, file, ledger, bot, orders >>

-----------------------------------------------------------------------------
(* the loop *)

(* The file is read and unlinked; unlink may fail, which is ignored.       *)
Reads ==
    /\ step = "asleep" /\ ~polled
    /\ file # NoFile
    /\ polled' = TRUE
    /\ file' \in {NoFile, file}
    /\ taken' = file
    /\ step' = "read"
    /\ UNCHANGED << now, expires, ledger, legible, seen, orders >>

(* OSError: READ_ERROR.  A symbolic link or a file that is too large is    *)
(* no OSError: the task ends.                                              *)
ReadFails ==
    /\ step = "asleep" /\ ~polled
    /\ file # NoFile
    /\ polled' = TRUE
    /\ step' \in {"report", "dead"}
    /\ UNCHANGED << now, expires, disk, taken, seen, orders >>

(* The envelope is verified: its form, the ids seen by this process, the   *)
(* expiry, the signature.  A tick is coarser than the comparison of times, *)
(* so at the tick of the expiry either answer may come.                    *)
Valid(c) == taken.form = "signed" /\ c \notin seen /\ now <= expires[c]
Invalid(c) == taken.form = "signed" => c \in seen \/ now >= expires[c]

(* Slip: the expiry is not looked at.                                      *)
VerifiesStale ==
    /\ step = "read"
    /\ taken.form = "signed" /\ taken.id \notin seen
    /\ seen' = seen \cup {taken.id}
    /\ step' = "verified"
    /\ UNCHANGED << now, polled, expires, disk, taken, orders >>

Verifies ==
    /\ step = "read"
    /\ Valid(taken.id)
    /\ seen' = seen \cup {taken.id}
    /\ step' = "verified"
    /\ UNCHANGED << now, polled, expires, disk, taken, orders >>

(* Slip: the loop goes on without an answer.                               *)
VerifyDrops ==
    /\ step = "read"
    /\ Invalid(taken.id)
    /\ step' = "asleep"
    /\ UNCHANGED << now, polled, expires, disk, taken, seen, orders >>

(* Slip: the id is kept as seen before the envelope is verified.           *)
VerifyRefusesSeen ==
    /\ step = "read"
    /\ Invalid(taken.id)
    /\ seen' = seen \cup {taken.id}
    /\ step' = "report"
    /\ UNCHANGED << now, polled, expires, disk, taken, orders >>

VerifyRefuses ==
    /\ step = "read"
    /\ Invalid(taken.id)
    /\ step' = "report"
    /\ UNCHANGED << now, polled, expires, disk, taken, seen, orders >>

InLedger(c) == \E i \in 1..Len(ledger) : ledger[i].id = c

(* Slip: one entry fewer is kept.                                          *)
RememberOneLess(c) ==
    Append(IF Len(ledger) + 1 < MaxEntries THEN ledger ELSE Tail(ledger),
           [id |-> c, at |-> now])

(* remember: the newest max_entries are kept.                              *)
Remember(c) ==
    Append(IF Len(ledger) < MaxEntries THEN ledger ELSE Tail(ledger),
           [id |-> c, at |-> now])

(* The ledger does not know the command and is replaced by one that does.  *)
Accepts ==
    /\ step = "verified"
    /\ legible /\ ~InLedger(taken.id)
    /\ ledger' = Remember(taken.id)
    /\ step' = "accepted"
    /\ UNCHANGED << now, polled, expires, file, legible, taken, seen, orders >>

(* DUPLICATE_COMMAND or REPLAY_LEDGER_ERROR.                               *)
LedgerRefuses ==
    /\ step = "verified"
    /\ ~legible \/ InLedger(taken.id)
    /\ step' = "report"
    /\ UNCHANGED << now, polled, expires, disk, taken, seen, orders >>

(* The atomic write raises an OSError, before or after the replace.        *)
LedgerWriteFails ==
    /\ step = "verified"
    /\ legible /\ ~InLedger(taken.id)
    /\ ledger' \in {ledger, Remember(taken.id)}
    /\ step' = "dead" /\ taken' = NoFile
    /\ UNCHANGED << now, polled, expires, file, legible, seen, orders >>

(* A payload that is not valid, a position that is not a manual one, the   *)
(* kill switch, an auth failure, no price, a stop or target on the wrong   *)
(* side of it.                                                             *)
PolicyRefuses ==
    /\ step = "accepted"
    /\ step' = "report"
    /\ UNCHANGED << now, polled, expires, disk, taken, seen, orders >>

(* place_market_order or close_position is called.                         *)
Sends ==
    /\ step = "accepted"
    /\ orders' = [orders EXCEPT ![taken.id] = @ + 1]
    /\ step' = "sent"
    /\ UNCHANGED << now, polled, expires, disk, taken, seen >>

Answered ==
    /\ step = "sent"
    /\ step' = "report"
    /\ UNCHANGED << now, polled, expires, disk, taken, seen, orders >>

(* _manual_trade_status is set for the command taken, or for none after a  *)
(* READ_ERROR; write_state, then the next turn of the loop.                *)
Reports ==
    /\ step = "report"
    /\ step' = "asleep" /\ taken' = NoFile
    /\ UNCHANGED << now, polled, expires, disk, seen, orders >>

(* An exception of the broker call or of write_state ends the task.        *)
Raises ==
    /\ step \in {"sent", "report"}
    /\ step' = "dead" /\ taken' = NoFile
    /\ UNCHANGED << now, polled, expires, disk, seen, orders >>

-----------------------------------------------------------------------------

Crash ==
    /\ step # "down"
    /\ step' = "down" /\ taken' = NoFile
    /\ UNCHANGED << now, polled, expires, disk, seen, orders >>

(* A new process knows no ids, and sleeps first.                           *)
Startup ==
    /\ step = "down"
    /\ step' = "asleep"
    /\ seen' = {}
    /\ polled' = TRUE
    /\ UNCHANGED << now, expires, disk, taken, orders >>

Loop ==
    \/ Reads
    \/ ReadFails
    \/ Verifies
    \/ VerifyRefuses
    \/ Accepts
    \/ LedgerRefuses
    \/ LedgerWriteFails
    \/ PolicyRefuses
    \/ Sends
    \/ Answered
    \/ Reports
    \/ Raises

Next ==
    \/ Tick
    \/ \E c \in Ids : Queue(c)
    \/ \E c \in Ids : PutBack(c)
    \/ PutOther
    \/ Spoil
    \/ Loop
    \/ Crash
    \/ Startup

(* Time passes, and the loop of a process goes on after each await.        *)
Fairness == WF_vars(Tick) /\ WF_vars(Loop)

Spec == Init /\ [][Next]_vars /\ Fairness

-----------------------------------------------------------------------------
(* Properties *)

(* The clock, the files and the loop have their types.                     *)
TypeOK ==
    /\ now \in Nat
    /\ polled \in BOOLEAN
    /\ expires \in [Ids -> Nat]
    /\ file \in Envelope /\ taken \in Envelope
    /\ ledger \in Seq(Entry)
    /\ legible \in BOOLEAN
    /\ step \in Steps
    /\ seen \subseteq Ids
    /\ orders \in [Ids -> Nat]

(* The promise to the operator: each command reaches the broker at most    *)
(* once and in time, however often the file is put back or cannot be       *)
(* removed, although the ids seen are lost in a restart and the ledger     *)
(* forgets.                                                                *)
Once == INSTANCE CommandOnce WITH carried <- orders
CarriedOutOnce == Once!OnceSpec

(* The entries of the ledger are of different ticks, oldest first: what    *)
(* has been pushed out of a full ledger has expired.  A command of which   *)
(* an order exists, and one that is about to be carried out, is in the     *)
(* ledger or can no longer be verified.                                    *)
SentIsBarred ==
    \A c \in Ids :
        orders[c] # 0 \/ (step = "accepted" /\ taken.id = c)
        => \/ InLedger(c)
           \/ now > expires[c]
           \/ now = expires[c] /\ polled

(* _manual_trade_status answers every command that was put in the file: a  *)
(* bot that stays up and whose task does not end reports it (or an error   *)
(* in reading it), unless another file takes its place first.              *)
FileIsAnswered ==
    \A c \in Ids :
        [](step \notin {"dead", "down"})
        => (file.id = c ~> \/ step = "report" /\ taken.id \in {c, NoId}
                           \/ file.id # c /\ file # NoFile)
=============================================================================
