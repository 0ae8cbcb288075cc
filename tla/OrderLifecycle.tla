--------------------------- MODULE OrderLifecycle ---------------------------
(***************************************************************************)
(* From an order to a tracked position and its close: the Executor and its *)
(* PositionManager (executor.py), the client's correlation of answers and  *)
(* events (client.py), the event handler and the startup of main.py, the   *)
(* watchdog (watchdog.py) and reconcile_positions (reconciler.py).         *)
(*                                                                         *)
(* A market order and the position it opens have one name here.  An order  *)
(* is sent by the task of its owner: the signal poller ("xauex") or the    *)
(* manual command poller ("manual").  The broker may answer it "filled",   *)
(* or "accepted" and report the fill in an event.  The first message that  *)
(* carries the request's id is the answer and resolves the caller's        *)
(* future; every other message is an event for the dispatcher, so the      *)
(* dispatcher may handle a fill before the caller has resumed.             *)
(*                                                                         *)
(* A lost connection cancels the futures that are waiting: the             *)
(* CancelledError passes the "except Exception" clauses of the caller and  *)
(* ends its task for good.                                                 *)
(***************************************************************************)
EXTENDS Naturals, Sequences, FiniteSets

CONSTANTS
    Orders,     \* the market orders of a run
    OwnerOf,    \* owner argument of each order
    ShapeOf     \* its direction, lot size, stop loss and take profit

Owners == {"xauex", "manual"}

(* The owner of a tracked position; "strategy" is the code's default.      *)
Untracked == "untracked"
TrackedAs == Owners \cup {"strategy", Untracked}

ASSUME OrderConstants ==
    /\ OwnerOf \in [Orders -> Owners]
    /\ DOMAIN ShapeOf = Orders

(* Orders of different owners differ in some parameter by more than        *)
(* match_recovered_position_metadata's tolerances.                         *)
ASSUME ShapesTellOwners ==
    \A o, p \in Orders : ShapeOf[o] = ShapeOf[p] => OwnerOf[o] = OwnerOf[p]

VARIABLES
    broker,     \* each order at the broker
    call,       \* the place_market_order call of each order
    answer,     \* the resolved future the caller has not seen yet
    events,     \* _execution_event_queue
    connected,
    dispatching,\* the dispatch tasks run
    dead,       \* owners whose polling task has ended
    watchdog,   \* "idle", "reconciling" or "dead"
    snapshot,   \* the broker's positions in the reconcile answer
    tracked,    \* PositionManager: the owner of each tracked position
    pending,    \* _pending_market_orders
    disk,       \* state.json: tracked positions and pending orders
    up,         \* the process runs
    calm        \* history: no disconnect, reconnect, crash or timeout yet

wire == << answer, events, connected, dispatching >>
tasks == << call, dead >>
guard == << watchdog, snapshot >>
book == << tracked, pending >>

vars == << broker, wire, tasks, guard, book, disk, up, calm >>

OpenAtBroker == {o \in Orders : broker[o] = "open"}

Tracked == {o \in Orders : tracked[o] # Untracked}

-----------------------------------------------------------------------------

Init ==
    /\ broker = [o \in Orders |-> "none"]
    /\ call = [o \in Orders |-> "none"]
    /\ answer = [o \in Orders |-> "none"]
    /\ events = <<>>
    /\ connected = TRUE
    /\ dispatching = TRUE
    /\ dead = {}
    /\ watchdog = "idle"
    /\ snapshot = {}
    /\ tracked = [o \in Orders |-> Untracked]
    /\ pending = {}
    /\ disk = [tracked |-> tracked, pending |-> {}]
    /\ up = TRUE
    /\ calm = TRUE

-----------------------------------------------------------------------------
(* Executor.place_market_order *)

(* The request goes out; a task has one call at a time.                    *)
Send(o) ==
    /\ up /\ connected
    /\ call[o] = "none"
    /\ OwnerOf[o] \notin dead
    /\ \A p \in Orders : OwnerOf[p] = OwnerOf[o] => call[p] # "waiting"
    /\ call' = [call EXCEPT ![o] = "waiting"]
    /\ broker' = [broker EXCEPT ![o] = "sent"]
    /\ UNCHANGED << wire, dead, guard, book, disk, up, calm >>

(* The future timed out after 10 s: client and executor return None.       *)
Timeout(o) ==
    /\ up
    /\ call[o] = "waiting" /\ answer[o] = "none"
    /\ call' = [call EXCEPT ![o] = "returned"]
    /\ calm' = FALSE
    /\ UNCHANGED << broker, wire, dead, guard, book, disk, up >>

(* The caller resumes with its answer.                                     *)
Resume(o) ==
    /\ up
    /\ call[o] = "waiting" /\ answer[o] # "none"
    /\ call' = [call EXCEPT ![o] = "returned"]
    /\ answer' = [answer EXCEPT ![o] = "none"]
    /\ tracked' = IF answer[o] = "filled"
                  THEN [tracked EXCEPT ![o] = OwnerOf[o]] ELSE tracked
    /\ pending' = IF answer[o] = "accepted" THEN pending \cup {o} ELSE pending
    /\ UNCHANGED << broker, events, connected, dispatching, dead, guard, disk,
                    up, calm >>

-----------------------------------------------------------------------------
(* The broker, and _route_message for what it sends *)

(* The futures of the calls that wait for an answer.                       *)
Waiting == {o \in Orders : call[o] = "waiting" /\ answer[o] = "none"}

Events == [kind : {"fill", "close"}, pos : Orders]

Event(kind, o) == [kind |-> kind, pos |-> o]

(* A message of an order: the answer if its call waits, else an event.     *)
Route(o, status) ==
    IF ~connected THEN UNCHANGED << answer, events >>
    ELSE IF o \in Waiting
         THEN /\ answer' = [answer EXCEPT ![o] = status]
              /\ UNCHANGED events
         ELSE /\ events' = IF status = "filled"
                           THEN Append(events, Event("fill", o)) ELSE events
              /\ UNCHANGED answer

(* The broker accepts, fills at once or rejects an order it was sent.      *)
BrokerAnswer(o, status) ==
    /\ broker[o] = "sent"
    /\ broker' = [broker EXCEPT ![o] =
                    CASE status = "filled"   -> "open"
                      [] status = "accepted" -> "accepted"
                      [] status = "rejected" -> "rejected"]
    /\ Route(o, status)
    /\ UNCHANGED << connected, dispatching, tasks, guard, book, disk, up,
                    calm >>

BrokerFill(o) ==
    /\ broker[o] = "accepted"
    /\ broker' = [broker EXCEPT ![o] = "open"]
    /\ events' = IF connected THEN Append(events, Event("fill", o)) ELSE events
    /\ UNCHANGED << answer, connected, dispatching, tasks, guard, book, disk,
                    up, calm >>

(* A stop, a target or an accepted close request closes a position.        *)
BrokerClose(o) ==
    /\ broker[o] = "open"
    /\ broker' = [broker EXCEPT ![o] = "closed"]
    /\ events' = IF connected THEN Append(events, Event("close", o)) ELSE events
    /\ UNCHANGED << answer, connected, dispatching, tasks, guard, book, disk,
                    up, calm >>

-----------------------------------------------------------------------------
(* _on_execution_event.  Its awaits come after its changes to the tracker  *)
(* and only delay the next event; one that is cancelled there loses the    *)
(* position count (RiskBook) and a write_state.                            *)

Handles(kind) ==
    /\ up /\ connected /\ dispatching
    /\ events # <<>>
    /\ Head(events).kind = kind
    /\ events' = Tail(events)

(* Slip: the fill of an order that is not pending is ignored.              *)
HandleFillOfPending ==
    /\ Handles("fill")
    /\ LET o == Head(events).pos
       IN  /\ pending' = pending \ {o}
           /\ tracked' = [tracked EXCEPT ![o] =
                            IF o \in pending THEN OwnerOf[o] ELSE @]
    /\ UNCHANGED << broker, answer, connected, dispatching, call, dead, guard,
                    disk, up, calm >>

(* A fill consumes the pending order; a position nobody announced is       *)
(* tracked as "strategy", one already tracked keeps its owner.             *)
HandleFill ==
    /\ Handles("fill")
    /\ LET o == Head(events).pos
       IN  /\ pending' = pending \ {o}
           /\ tracked' = [tracked EXCEPT ![o] =
                            IF o \in pending THEN OwnerOf[o]
                            ELSE IF @ = Untracked THEN "strategy" ELSE @]
    /\ UNCHANGED << broker, answer, connected, dispatching, call, dead, guard,
                    disk, up, calm >>

(* on_position_closed: the position is dropped, and a state is written     *)
(* whose pending orders are those of the last full state.                  *)
HandleClose ==
    /\ Handles("close")
    /\ tracked' = [tracked EXCEPT ![Head(events).pos] = Untracked]
    /\ disk' \in {disk, [disk EXCEPT !.tracked = tracked']}
    /\ UNCHANGED << broker, answer, connected, dispatching, call, dead, guard,
                    pending, up, calm >>

(* write_state, from any task.  A write that is overtaken by a newer one   *)
(* leaves an older state, as one that has not happened would.              *)
WriteState ==
    /\ up
    /\ disk' = [tracked |-> tracked, pending |-> pending]
    /\ UNCHANGED << broker, wire, tasks, guard, book, up, calm >>

-----------------------------------------------------------------------------
(* Connection and watchdog *)

(* Every future is cancelled: the tasks that wait for one end.             *)
CancelFutures ==
    /\ call' = [o \in Orders |-> IF o \in Waiting THEN "returned" ELSE call[o]]
    /\ dead' = dead \cup {OwnerOf[o] : o \in Waiting}
    /\ events' = <<>>

(* _on_disconnect.  The watchdog waits for a future while it reconciles.   *)
Disconnect ==
    /\ up /\ connected
    /\ CancelFutures
    /\ connected' = FALSE
    /\ dispatching' = FALSE
    /\ watchdog' = IF watchdog = "reconciling" THEN "dead" ELSE watchdog
    /\ calm' = FALSE
    /\ UNCHANGED << broker, answer, snapshot, book, disk, up >>

(* The connection is down, or up without ticks: disconnect, connect,       *)
(* subscribe_ticks, which starts the dispatch tasks unless it fails, and   *)
(* the reconcile request.                                                  *)
Reconnect ==
    /\ up
    /\ watchdog = "idle"
    /\ CancelFutures
    /\ connected' = TRUE
    /\ dispatching' \in BOOLEAN
    /\ watchdog' = "reconciling"
    /\ snapshot' = OpenAtBroker
    /\ calm' = FALSE
    /\ UNCHANGED << broker, answer, book, disk, up >>

(* Slip: an orphan gets the owner that on_position_closed gives a stranger.*)
ReconciledUnknown(o) ==
    IF o \notin snapshot THEN Untracked
    ELSE IF tracked[o] = Untracked THEN "unknown" ELSE tracked[o]

(* Slip: what the broker reports is tracked anew.                          *)
ReconciledAnew(o) == IF o \in snapshot THEN "strategy" ELSE Untracked

(* reconcile_positions once the answers are in: orphans are added with the *)
(* default owner, ghosts are removed.                                      *)
Reconciled(o) ==
    IF o \notin snapshot THEN Untracked
    ELSE IF tracked[o] = Untracked THEN "strategy" ELSE tracked[o]

ReconcilePositions ==
    /\ up
    /\ watchdog = "reconciling"
    /\ tracked' = [o \in Orders |-> Reconciled(o)]
    /\ watchdog' = "idle"
    /\ snapshot' = {}
    /\ UNCHANGED << broker, wire, tasks, pending, disk, up, calm >>

ReconcileFails ==
    /\ up
    /\ watchdog = "reconciling"
    /\ watchdog' = "idle"
    /\ snapshot' = {}
    /\ UNCHANGED << broker, wire, tasks, book, disk, up, calm >>

-----------------------------------------------------------------------------
(* Crash and startup *)

Crash ==
    /\ up
    /\ up' = FALSE
    /\ connected' = FALSE
    /\ dispatching' = FALSE
    /\ call' = [o \in Orders |-> IF call[o] = "waiting" THEN "returned"
                                 ELSE call[o]]
    /\ answer' = [o \in Orders |-> "none"]
    /\ events' = <<>>
    /\ dead' = {}
    /\ watchdog' = "idle"
    /\ snapshot' = {}
    /\ tracked' = [o \in Orders |-> Untracked]
    /\ pending' = {}
    /\ calm' = FALSE
    /\ UNCHANGED << broker, disk >>

(* match_recovered_position_metadata: the owner saved with the position,   *)
(* else that of the newest saved pending order with its parameters; dates  *)
(* are left out, so any of these may be the newest.  A fill away from the  *)
(* quote gives the position another stop and target than its order has,    *)
(* and then it matches nothing.                                            *)
RecoveredOwners(o) ==
    LET candidates == {p \in disk.pending : ShapeOf[p] = ShapeOf[o]}
    IN  IF disk.tracked[o] # Untracked THEN {disk.tracked[o]}
        ELSE {"strategy"} \cup {OwnerOf[p] : p \in candidates}

(* startup steps 3 to 11 and the first write_state, which may fail.        *)
Startup ==
    /\ ~up
    /\ up' = TRUE
    /\ connected' = TRUE
    /\ dispatching' = TRUE
    /\ tracked' \in [Orders -> TrackedAs]
    /\ \A o \in Orders : IF o \in OpenAtBroker
                         THEN tracked'[o] \in RecoveredOwners(o)
                         ELSE tracked'[o] = Untracked
    /\ pending' = {o \in disk.pending : broker[o] = "accepted"}
    /\ disk' \in {disk, [tracked |-> tracked', pending |-> pending']}
    /\ UNCHANGED << broker, answer, events, tasks, guard, calm >>

-----------------------------------------------------------------------------

Next ==
    \/ \E o \in Orders :
          \/ Send(o) \/ Timeout(o) \/ Resume(o)
          \/ \E status \in {"filled", "accepted", "rejected"} :
                BrokerAnswer(o, status)
          \/ BrokerFill(o) \/ BrokerClose(o)
    \/ HandleFill \/ HandleClose \/ WriteState
    \/ Disconnect \/ Reconnect \/ ReconcilePositions \/ ReconcileFails
    \/ Crash \/ Startup

Spec == Init /\ [][Next]_vars

-----------------------------------------------------------------------------
(* Properties *)

(* Every variable of an order's life has its type.                         *)
TypeOK ==
    /\ broker \in [Orders -> {"none", "sent", "accepted", "open", "closed",
                              "rejected"}]
    /\ call \in [Orders -> {"none", "waiting", "returned"}]
    /\ answer \in [Orders -> {"none", "filled", "accepted", "rejected"}]
    /\ events \in Seq(Events)
    /\ connected \in BOOLEAN /\ dispatching \in BOOLEAN
    /\ dead \subseteq Owners
    /\ watchdog \in {"idle", "reconciling", "dead"}
    /\ snapshot \subseteq Orders
    /\ tracked \in [Orders -> TrackedAs]
    /\ pending \subseteq Orders
    /\ disk \in [tracked : [Orders -> TrackedAs], pending : SUBSET Orders]
    /\ up \in BOOLEAN
    /\ calm \in BOOLEAN

(* However answers, events, reconciles and restarts interleave, a position *)
(* is tracked under the owner that ordered it or under the default: the    *)
(* monitor never takes a manual trade for its own, nor a manual command an *)
(* XAUEX trade.                                                            *)
OwnerNeverInvented ==
    \A o \in Orders : tracked[o] \in {OwnerOf[o], "strategy", Untracked}

(* In an uninterrupted session, an open position whose caller has its      *)
(* answer and whose fill has been handled is tracked.                      *)
SteadyTracking ==
    calm => \A o \in OpenAtBroker :
               \/ o \in Tracked
               \/ call[o] = "waiting"
               \/ \E i \in DOMAIN events : events[i] = Event("fill", o)

(* PositionManager as its readers see it: whatever the order of answers,   *)
(* events, reconciles and restarts, each step of the order's life is a     *)
(* step of PositionBook.  A known owner is never lost to the default, an   *)
(* open position is dropped only by a reconcile after a disturbance or by  *)
(* a crash, and a start tracks the positions that are open and no other.   *)
Life(o) == IF broker[o] \in {"sent", "accepted"} THEN "ordered" ELSE broker[o]
Book == INSTANCE PositionBook WITH life <- [o \in Orders |-> Life(o)],
                                   owner <- tracked
BookKept == Book!BookSpec

(* _monitor_xauex_positions: "Close XAUEX positions on cash TP/SL or at    *)
(* the London force-flat time."  It manages what is tracked as "xauex", so *)
(* that is how, in an uninterrupted session, an open position of the       *)
(* signal poller is tracked once its call has returned and no event is     *)
(* left to handle.                                                         *)
(* The code breaks this, see "Disagreements" in the README.                *)
XauexPositionsManaged ==
    calm /\ events = <<>> =>
        \A o \in OpenAtBroker :
            OwnerOf[o] = "xauex" /\ call[o] = "returned"
                => tracked[o] = "xauex"

(* reconcile_positions: "After reconciliation, PositionManager reflects    *)
(* the live broker state."  The tracker may only differ by what is still   *)
(* on its way to it, as an event or as an answer.                          *)
(* The code breaks this, see "Disagreements" in the README.                *)
ReconcileReflects ==
    [][ ReconcilePositions /\ events = <<>>
           /\ (\A o \in Orders : answer[o] = "none")
        => Tracked' = OpenAtBroker ]_vars
=============================================================================
