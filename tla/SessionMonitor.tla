--------------------------- MODULE SessionMonitor ---------------------------
(***************************************************************************)
(* _monitor_xauex_positions of xauex/main.py: passes over the broker's     *)
(* open positions that advance each XAUEX position's session phase, move   *)
(* its stop and close it, with the requests these need (amend_position_    *)
(* sltp, close_position), the close requests it remembers, the signal      *)
(* poller's entries and add-ons, lost connections, crash and restart.      *)
(*                                                                         *)
(* Prices are levels relative to the fill in the position's own direction, *)
(* so a SHORT mirrors a LONG: 0 is the fill, a higher stop is a tighter    *)
(* one.  The market moves freely: every price that is read is an input of  *)
(* the step that reads it.                                                 *)
(*                                                                         *)
(* An order carries the distance of its stop from the last quote, not the  *)
(* stop: the broker measures that distance from the fill, the tracker      *)
(* keeps the stop that was asked for.  A new position therefore begins     *)
(* with two stops that need not agree.                                     *)
(*                                                                         *)
(* A pass is one stretch of code between awaits, so no other task runs     *)
(* while pc is "visit"; the broker may act at any time.                    *)
(***************************************************************************)
EXTENDS Integers, Sequences, FiniteSets

CONSTANTS
    Positions,
    Addons,         \* those opened as continuation add-ons
    Prices,         \* levels the market is seen at
    Stops,          \* levels a stop can have
    EntryStops,     \* those of a new position, at the broker or as ordered
    LockStops,      \* _xauex_protect_stop_price: from the fill, or from the
                    \* price of the order, whichever the tracker has as entry
    ProtectAt,      \* protect_r in levels
    TrailAt,        \* trail_r in levels
    HoldPasses,     \* _XAUEX_CLOSE_REQUEST_TTL_SECONDS in monitor passes
    MaxWire         \* bound: amend requests the broker has not processed

ASSUME SessionConstants ==
    /\ Addons \subseteq Positions
    /\ Prices \subseteq Int /\ Stops \subseteq Int
    /\ EntryStops \subseteq Stops
    /\ LockStops \subseteq Stops
    /\ ProtectAt \in Int /\ TrailAt \in Int
    /\ HoldPasses \in Nat \ {0}
    /\ MaxWire \in Nat

(* The value where there is no stop to speak of.                           *)
NoStop == 0

Levels == Stops \cup {NoStop}

Phases == {"OBSERVE", "PROTECT", "TRAIL"}

(* A ProtoOAAmendPositionSLTPReq.                                          *)
Amend == [pos : Positions, stop : Stops]

(* The phase of a position that is not tracked as "xauex", and no position.*)
NotOurs == "not ours"
Nobody == "nobody"

VARIABLES
    broker,     \* each position at the broker: "none", "open" or "closed"
    live_stop,  \* its stop there
    wire,       \* amend requests on their way to the broker
    connected,
    up,
    phase,      \* session phase of each position tracked as "xauex"
    stop_loss,  \* tracked.stop_loss
    requested,  \* _xauex_close_requested: passes a request is still held
    flat,       \* the London clock is past the force-flat time
    pc,         \* the monitor: "sleep", "reading", "visit", "amend",
                \* "close" or "dead"
    todo,       \* positions the pass has still to visit
    cur,        \* the position the monitor awaits an answer for
    asked,      \* the stop it asked for
    answer,     \* resolved answer to the amend: "none", "ok" or "refused"
    pass_flat,  \* force_flat_due of the pass
    entry,      \* the poller: "idle", "first", "addon" (approved) or "dead"
    ordered,    \* history: the tracker's stop at the fill, a set that is
                \* empty once the broker has taken an amend
    unsure,     \* history: positions with an amend that was never answered
    idle        \* history: flat passes since a close was last tried

market == << broker, live_stop, wire >>
link == << connected, up >>
tracker == << phase, stop_loss >>
task == << pc, todo, cur, asked, answer, pass_flat >>
history == << ordered, unsure, idle >>

vars == << market, link, tracker, requested, flat, task, entry, history >>

OpenAtBroker == {p \in Positions : broker[p] = "open"}

(* Tracked positions owned by "xauex".                                     *)
Managed == {p \in Positions : phase[p] # NotOurs}

(* Another task of the bot may run.                                        *)
LoopFree == up /\ pc # "visit"

-----------------------------------------------------------------------------

Init ==
    /\ broker = [p \in Positions |-> "none"]
    /\ live_stop = [p \in Positions |-> NoStop]
    /\ wire = <<>>
    /\ connected = TRUE
    /\ up = TRUE
    /\ phase = [p \in Positions |-> NotOurs]
    /\ stop_loss = live_stop
    /\ requested = [p \in Positions |-> 0]
    /\ flat = FALSE
    /\ pc = "sleep"
    /\ todo = {}
    /\ cur = Nobody
    /\ asked = NoStop
    /\ answer = "none"
    /\ pass_flat = FALSE
    /\ entry = "idle"
    /\ ordered = [p \in Positions |-> {}]
    /\ unsure = {}
    /\ idle = [p \in Positions |-> 0]

-----------------------------------------------------------------------------
(* Session phases and stops *)

(* advance_xauex_session_phase *)
Advance(ph, price) ==
    LET ph1 == IF ph = "OBSERVE" /\ price >= ProtectAt THEN "PROTECT" ELSE ph
    IN  IF ph1 = "PROTECT" /\ price >= TrailAt THEN "TRAIL" ELSE ph1

(* confirm_xauex_session_phase_transition: the broker's profit must have   *)
(* reached the new phase too, or the previous phase stays.                 *)
Confirm(ph, candidate, pnl) ==
    IF \/ candidate = ph
       \/ candidate = "PROTECT" /\ pnl >= ProtectAt
       \/ candidate = "TRAIL" /\ pnl >= TrailAt
    THEN candidate ELSE ph

(* Slip: the stop is put at the level that started the phase.              *)
WantedAtTrigger(previous, current) ==
    IF current = "PROTECT" /\ previous = "OBSERVE" THEN {ProtectAt}
    ELSE IF current = "TRAIL" THEN Stops
    ELSE {}

(* The stop the pass wants: a lock level on the step from OBSERVE to       *)
(* PROTECT; in TRAIL whatever the recent closes give, which may be any     *)
(* level; none otherwise.                                                  *)
Wanted(previous, current) ==
    IF current = "PROTECT" /\ previous = "OBSERVE" THEN LockStops
    ELSE IF current = "TRAIL" THEN Stops
    ELSE {}

(* Slip: the tighten-only rule compares with the stop of the order.        *)
validate_sl_modification_initial(p, new_sl) == \A s \in ordered[p] : new_sl >= s

validate_sl_modification(p, new_sl) == new_sl >= stop_loss[p]

validate_sl_against_market(new_sl, bid) == new_sl < bid

-----------------------------------------------------------------------------
(* The pass *)

Await(p) == cur' = p /\ UNCHANGED << todo, pass_flat >>

(* The visit of p is over.                                                 *)
Leave(p) ==
    /\ todo' = todo \ {p}
    /\ pc' = IF todo' = {} THEN "sleep" ELSE "visit"
    /\ pass_flat' = (pass_flat /\ todo' # {})
    /\ cur' = Nobody

TryClose(p) == idle' = [idle EXCEPT ![p] = 0]

(* The second half of a visit: a force-flat pass closes, any other pass    *)
(* closes on a cash target or loss, an input here.  A request that cannot  *)
(* be sent counts as refused.                                              *)
Exit(p) ==
    \/ /\ connected
       /\ pc' = "close"
       /\ Await(p)
       /\ TryClose(p)
    \/ /\ pass_flat /\ ~connected
       /\ Leave(p)
       /\ TryClose(p)
    \/ /\ ~pass_flat
       /\ Leave(p)
       /\ UNCHANGED idle

StartRead ==
    /\ up /\ connected
    /\ pc = "sleep"
    /\ pc' = "reading"
    /\ todo' = OpenAtBroker
    /\ UNCHANGED << market, link, tracker, requested, flat, cur, asked, answer,
                    pass_flat, entry, history >>

ReadFails ==
    /\ up
    /\ pc = "reading"
    /\ pc' = "sleep"
    /\ todo' = {}
    /\ UNCHANGED << market, link, tracker, requested, flat, cur, asked, answer,
                    pass_flat, entry, history >>

(* Slip: a request is held as long as its position is open.                *)
HeldForever(p) == IF p \in todo THEN {requested[p]} ELSE {0}

(* _clear_stale_close_requests: a request is dropped with its position,    *)
(* and after HoldPasses passes at the latest, sooner when passes are slow. *)
Held(p) ==
    IF p \in todo /\ requested[p] > 0 THEN 0..(requested[p] - 1) ELSE {0}

EndRead ==
    /\ up /\ connected
    /\ pc = "reading"
    /\ requested' \in [Positions -> 0..HoldPasses]
    /\ \A p \in Positions : requested'[p] \in Held(p)
    /\ pass_flat' = (flat /\ todo # {})
    /\ pc' = IF todo = {} THEN "sleep" ELSE "visit"
    /\ idle' = [p \in Positions |->
                  IF flat /\ p \in todo \cap Managed THEN idle[p] + 1 ELSE 0]
    /\ UNCHANGED << market, link, tracker, flat, todo, cur, asked, answer,
                    entry, unsure, ordered >>

(* A position with a close request, or one that is not ours.               *)
SkipVisit(p) ==
    /\ up /\ pc = "visit" /\ p \in todo
    /\ requested[p] > 0 \/ p \notin Managed
    /\ Leave(p)
    /\ UNCHANGED << market, link, tracker, requested, flat, asked, answer,
                    entry, history >>

(* The first half of a visit; it ends in an amend request when the wanted  *)
(* stop is valid and can be sent.                                          *)
Visit(p) ==
    /\ up /\ pc = "visit" /\ p \in todo
    /\ requested[p] = 0 /\ p \in Managed
    /\ \E price, pnl, bid \in Prices :
          LET current == Confirm(phase[p], Advance(phase[p], price), pnl)
              wanted == Wanted(phase[p], current)
              Valid(s) == /\ validate_sl_modification(p, s)
                          /\ validate_sl_against_market(s, bid)
          IN  /\ phase' = [phase EXCEPT ![p] = current]
              /\ \/ \E new_sl \in wanted :
                       /\ Valid(new_sl)
                       /\ connected
                       /\ Len(wire) < MaxWire
                       /\ wire' = Append(wire, [pos |-> p, stop |-> new_sl])
                       /\ asked' = new_sl
                       /\ pc' = "amend"
                       /\ Await(p)
                       /\ UNCHANGED idle
                 \/ /\ \/ wanted = {}
                       \/ ~connected
                       \/ \E new_sl \in wanted : ~Valid(new_sl)
                    /\ Exit(p)
                    /\ UNCHANGED << wire, asked >>
    /\ UNCHANGED << broker, live_stop, link, stop_loss, requested, flat,
                    answer, entry, unsure, ordered >>

(* Slip: the stop is taken over whatever the broker answered.              *)
AmendReturnsBlindly ==
    /\ up /\ pc = "amend" /\ answer # "none"
    /\ stop_loss' = [stop_loss EXCEPT ![cur] = asked]
    /\ answer' = "none"
    /\ asked' = NoStop
    /\ Exit(cur)
    /\ UNCHANGED << market, link, phase, requested, flat, entry, unsure,
                    ordered >>

AmendReturns ==
    /\ up /\ pc = "amend" /\ answer # "none"
    /\ stop_loss' = IF answer = "ok" THEN [stop_loss EXCEPT ![cur] = asked]
                                     ELSE stop_loss
    /\ answer' = "none"
    /\ asked' = NoStop
    /\ Exit(cur)
    /\ UNCHANGED << market, link, phase, requested, flat, entry, unsure,
                    ordered >>

(* No answer in 10 s: amend_position_sltp returns False.                   *)
AmendTimesOut ==
    /\ up /\ pc = "amend" /\ answer = "none"
    /\ unsure' = unsure \cup {cur}
    /\ asked' = NoStop
    /\ Exit(cur)
    /\ UNCHANGED << market, link, tracker, requested, flat, answer, entry,
                    ordered >>

(* close_position returns: accepted, or refused or timed out.              *)
CloseReturns(closed) ==
    /\ up /\ pc = "close"
    /\ requested' = IF closed THEN [requested EXCEPT ![cur] = HoldPasses]
                              ELSE requested
    /\ Leave(cur)
    /\ UNCHANGED << market, link, tracker, flat, asked, answer, entry,
                    history >>

-----------------------------------------------------------------------------
(* The broker and the clock *)

(* The broker takes the next amend request; the answer reaches the monitor *)
(* if that is the request it waits for.                                    *)
BrokerAmends(verdict) ==
    /\ wire # <<>>
    /\ LET r == Head(wire)
       IN  /\ verdict = "ok" => broker[r.pos] = "open"
           /\ IF verdict = "ok"
              THEN /\ live_stop' = [live_stop EXCEPT ![r.pos] = r.stop]
                   /\ ordered' = [ordered EXCEPT ![r.pos] = {}]
              ELSE UNCHANGED << live_stop, ordered >>
    /\ wire' = Tail(wire)
    /\ answer' = IF pc = "amend" /\ Len(wire) = 1 THEN verdict ELSE answer
    /\ UNCHANGED << broker, link, tracker, requested, flat, pc, todo, cur,
                    asked, pass_flat, entry, unsure, idle >>

(* A stop, the target or a close request is executed.                      *)
BrokerCloses(p) ==
    /\ broker[p] = "open"
    /\ broker' = [broker EXCEPT ![p] = "closed"]
    /\ live_stop' = [live_stop EXCEPT ![p] = NoStop]
    /\ ordered' = [ordered EXCEPT ![p] = {}]
    /\ UNCHANGED << wire, link, tracker, requested, flat, task, entry, unsure,
                    idle >>

(* The force-flat time comes, and ends at London midnight.                 *)
ClockTurns ==
    /\ LoopFree \/ ~up
    /\ flat' = ~flat
    /\ UNCHANGED << market, link, tracker, requested, task, entry, history >>

-----------------------------------------------------------------------------
(* Other tasks of the bot *)

(* The close event, or the reconciler, removes a closed position.          *)
Untrack(p) ==
    /\ LoopFree /\ connected
    /\ p \in Managed /\ broker[p] = "closed"
    /\ phase' = [phase EXCEPT ![p] = NotOurs]
    /\ stop_loss' = [stop_loss EXCEPT ![p] = NoStop]
    /\ UNCHANGED << market, link, requested, flat, task, entry, history >>

(* build_xauex_continuation_addon_decision: with no XAUEX position open    *)
(* the entry is an ordinary one; one position in PROTECT or TRAIL that is  *)
(* not itself an add-on allows an add-on.                                  *)
AddonAllowed ==
    /\ Cardinality(Managed) = 1
    /\ Managed \cap Addons = {}
    /\ \E p \in Managed : phase[p] \in {"PROTECT", "TRAIL"}

DecideEntry ==
    /\ LoopFree
    /\ entry = "idle"
    /\ \/ Managed = {} /\ entry' = "first"
       \/ AddonAllowed /\ entry' = "addon"
    /\ UNCHANGED << market, link, tracker, requested, flat, task, history >>

(* A later gate refuses.                                                   *)
DropEntry ==
    /\ LoopFree
    /\ entry \in {"first", "addon"}
    /\ entry' = "idle"
    /\ UNCHANGED << market, link, tracker, requested, flat, task, history >>

(* The order is filled and its position tracked.  The broker's stop is its *)
(* distance in the order away from the fill; the tracker has the stop of   *)
(* the order, or the broker's when the reconciler knew the position before *)
(* its fill event came.                                                    *)
PlaceEntry(p) ==
    /\ LoopFree /\ connected
    /\ entry = IF p \in Addons THEN "addon" ELSE "first"
    /\ broker[p] = "none"
    /\ broker' = [broker EXCEPT ![p] = "open"]
    /\ \E asked_for, from_fill \in EntryStops :
          /\ stop_loss' = [stop_loss EXCEPT ![p] = asked_for]
          /\ live_stop' = [live_stop EXCEPT ![p] = from_fill]
          /\ ordered' = [ordered EXCEPT ![p] = {asked_for}]
    /\ phase' = [phase EXCEPT ![p] = "OBSERVE"]
    /\ entry' = "idle"
    /\ UNCHANGED << wire, link, requested, flat, task, unsure, idle >>

-----------------------------------------------------------------------------
(* Connection, crash and restart *)

(* The monitor awaits a broker answer that has not arrived.                *)
AwaitsBroker ==
    \/ pc \in {"reading", "close"}
    \/ pc = "amend" /\ answer = "none"

(* Futures are cancelled: a CancelledError is no Exception, it passes the  *)
(* except clauses of the monitor and ends the task.  A poller that awaits  *)
(* the broker ends as well.                                                *)
CancelFutures ==
    /\ IF AwaitsBroker
       THEN /\ pc' = "dead"
            /\ todo' = {}
            /\ cur' = Nobody
            /\ asked' = NoStop
            /\ pass_flat' = FALSE
       ELSE UNCHANGED << pc, todo, cur, asked, pass_flat >>
    /\ unsure' = IF pc = "amend" /\ answer = "none" THEN unsure \cup {cur}
                                                    ELSE unsure
    /\ entry' \in IF entry \in {"first", "addon"} THEN {entry, "dead"}
                                                  ELSE {entry}
    /\ wire' = <<>>

Disconnect ==
    /\ LoopFree /\ connected
    /\ CancelFutures
    /\ connected' = FALSE
    /\ UNCHANGED << broker, live_stop, up, tracker, requested, flat, answer,
                    idle, ordered >>

(* The watchdog reconnects, or replaces a connection without ticks.        *)
Reconnect ==
    /\ LoopFree
    /\ CancelFutures
    /\ connected' = TRUE
    /\ UNCHANGED << broker, live_stop, up, tracker, requested, flat, answer,
                    idle, ordered >>

Crash ==
    /\ up
    /\ up' = FALSE
    /\ connected' = FALSE
    /\ wire' = <<>>
    /\ requested' = [p \in Positions |-> 0]
    /\ pc' = "sleep"
    /\ todo' = {}
    /\ cur' = Nobody
    /\ asked' = NoStop
    /\ answer' = "none"
    /\ pass_flat' = FALSE
    /\ entry' = "idle"
    /\ unsure' = {}
    /\ idle' = [p \in Positions |-> 0]
    /\ UNCHANGED << broker, live_stop, tracker, flat, ordered >>

(* The phases up to ph: state.json is written again and again without      *)
(* waiting for it, so it may hold any earlier phase of a position, or not  *)
(* know it as ours.                                                        *)
Earlier(ph) ==
    CASE ph = "TRAIL"   -> {NotOurs, "OBSERVE", "PROTECT", "TRAIL"}
      [] ph = "PROTECT" -> {NotOurs, "OBSERVE", "PROTECT"}
      [] ph = "OBSERVE" -> {NotOurs, "OBSERVE"}
      [] OTHER          -> {NotOurs}

Recovered(p) == IF p \in OpenAtBroker THEN Earlier(phase[p]) ELSE {NotOurs}

(* startup: stops come from the broker, owners and phases from state.json. *)
Startup ==
    /\ ~up
    /\ up' = TRUE
    /\ connected' = TRUE
    /\ phase' \in [Positions -> Phases \cup {NotOurs}]
    /\ \A p \in Positions : phase'[p] \in Recovered(p)
    /\ stop_loss' = live_stop
    /\ UNCHANGED << market, requested, flat, task, entry, history >>

-----------------------------------------------------------------------------

Next ==
    \/ StartRead \/ ReadFails \/ EndRead
    \/ \E p \in Positions : SkipVisit(p) \/ Visit(p)
    \/ AmendReturns \/ AmendTimesOut
    \/ \E closed \in BOOLEAN : CloseReturns(closed)
    \/ \E verdict \in {"ok", "refused"} : BrokerAmends(verdict)
    \/ \E p \in Positions : BrokerCloses(p) \/ Untrack(p) \/ PlaceEntry(p)
    \/ ClockTurns
    \/ DecideEntry \/ DropEntry
    \/ Disconnect \/ Reconnect \/ Crash \/ Startup

Spec == Init /\ [][Next]_vars

-----------------------------------------------------------------------------
(* Properties *)

(* Every variable of the monitor and its environment has its type.         *)
TypeOK ==
    /\ broker \in [Positions -> {"none", "open", "closed"}]
    /\ live_stop \in [Positions -> Levels]
    /\ wire \in Seq(Amend)
    /\ connected \in BOOLEAN /\ up \in BOOLEAN
    /\ phase \in [Positions -> Phases \cup {NotOurs}]
    /\ stop_loss \in [Positions -> Levels]
    /\ requested \in [Positions -> 0..HoldPasses]
    /\ flat \in BOOLEAN
    /\ pc \in {"sleep", "reading", "visit", "amend", "close", "dead"}
    /\ todo \subseteq Positions
    /\ cur \in Positions \cup {Nobody}
    /\ asked \in Levels
    /\ answer \in {"none", "ok", "refused"}
    /\ pass_flat \in BOOLEAN
    /\ entry \in {"idle", "first", "addon", "dead"}
    /\ ordered \in [Positions -> SUBSET Stops]
    /\ unsure \subseteq Positions
    /\ idle \in [Positions -> Nat]

(* The close request the monitor remembers must not shield a position for  *)
(* good when the broker accepted the close and never executed it: in       *)
(* force-flat time no open XAUEX position sees more than HoldPasses        *)
(* passes without a new attempt to close it.                               *)
CloseIsRetried == \A p \in Positions : idle[p] <= HoldPasses

(* Only the fill parts the tracker's stop from the broker's: where they    *)
(* differ, the tracker has the stop it had at the fill and the broker has  *)
(* taken no amend yet.  The first amend that is answered, or a restart,    *)
(* joins them for good, across refusals, closes of other positions and     *)
(* reconnects; except while an amend of the position is being made, and    *)
(* after one that was never answered.                                      *)
StopsInStep ==
    up => \A p \in Managed \cap OpenAtBroker :
        p \notin unsure /\ ~(pc = "amend" /\ cur = p)
            => stop_loss[p] = live_stop[p] \/ stop_loss[p] \in ordered[p]

(* validate_sl_modification compares with the tracker's stop.  As long as  *)
(* no amend of the position went unanswered, only the first amend that the *)
(* broker takes may loosen its stop, and not to one that risks more than   *)
(* the tracker's stop at the fill did.                                     *)
LoosensOnlyToOrder ==
    [][ \A p \in OpenAtBroker \cap OpenAtBroker' :
            p \notin unsure /\ live_stop'[p] < live_stop[p]
            => \E s \in ordered[p] : live_stop'[p] >= s ]_vars

(* validate_sl_modification: "Return False and log if the new SL would     *)
(* move further from entry."  No step loosens the broker's stop of an open *)
(* position all of whose amends were answered.  The code breaks this, see  *)
(* "Disagreements" in the README.                                          *)
StopNeverLoosens ==
    [][ \A p \in OpenAtBroker \cap OpenAtBroker' :
            p \notin unsure => live_stop'[p] >= live_stop[p] ]_vars

(* The monitor's handler: "Position monitor iteration crashed; keeping     *)
(* monitor alive."  No failure of a pass ends the monitor of a running     *)
(* bot.                                                                    *)
MonitorStaysAlive == up => pc # "dead"

(* build_xauex_continuation_addon_decision: "Allow one reduced-risk        *)
(* continuation add-on only after the parent trade is protected."  When an *)
(* add-on is allowed, the broker's stop of the parent is past its entry.   *)
(* The code breaks this, see "Disagreements" in the README.                *)
AddonParentProtected ==
    [][ DecideEntry /\ entry' = "addon"
        => \A p \in Managed \cap OpenAtBroker : live_stop[p] > 0 ]_vars
=============================================================================
