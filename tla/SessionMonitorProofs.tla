------------------------ MODULE SessionMonitorProofs ------------------------
(***************************************************************************)
(* Proofs about SessionMonitor, for any positions, levels and bounds.      *)
(***************************************************************************)
EXTENDS SessionMonitor, TLAPS

Waits == pc \in {"amend", "close"}

(* What holds of the monitor's own task.                                   *)
TaskInv ==
    /\ Waits => cur \in todo
    /\ pc = "close" => idle[cur] = 0
    /\ pc = "amend" => cur \in Managed \/ broker[cur] = "closed"
    /\ pc # "amend" => answer = "none"
    /\ ~up => /\ pc = "sleep"
              /\ wire = <<>>
              /\ \A p \in Positions : idle[p] = 0 /\ requested[p] = 0

(* A position that was never opened has left no trace.                     *)
FreshInv ==
    \A p \in Positions : broker[p] = "none" =>
        /\ phase[p] = NotOurs
        /\ p \notin todo
        /\ idle[p] = 0

(* No visit of p is still to come before the next pass.                    *)
Settled(p) ==
    \/ pc \in {"sleep", "reading"}
    \/ pc \in {"visit", "amend", "close"} /\ p \notin todo

(* The passes since the last attempt and those a request is still held     *)
(* together never exceed HoldPasses; a managed position that no request    *)
(* shields has just been tried.                                            *)
HoldInv ==
    \A p \in Positions :
        /\ idle[p] + requested[p] <= HoldPasses
        /\ Settled(p) /\ requested[p] = 0 /\ p \in Managed => idle[p] = 0
        /\ pc \in {"visit", "amend", "close"} /\ ~pass_flat => idle[p] = 0

(* The request the monitor waits for is the last one on the wire; every    *)
(* other one there is an unanswered amend, and its answer leaves the wire  *)
(* empty.                                                                  *)
WireInv ==
    /\ pc = "amend" /\ answer # "none" => wire = <<>>
    /\ pc = "amend" /\ answer = "none" =>
          /\ Len(wire) > 0
          /\ wire[Len(wire)] = [pos |-> cur, stop |-> asked]
    /\ \A i \in 1..Len(wire) :
          /\ broker[wire[i].pos] # "none"
          /\ wire[i].pos \notin unsure =>
                pc = "amend" /\ answer = "none" /\ i = Len(wire)

(* The two stops of a position agree, or the tracker's is the one it had   *)
(* at the fill and the broker has taken no amend since.                    *)
InStep(p) == stop_loss[p] = live_stop[p] \/ stop_loss[p] \in ordered[p]

(* The two stops of a position are in step; while an amend of it is under  *)
(* way, they are until the broker has taken it.                            *)
StopInv ==
    up => \A p \in Managed \cap OpenAtBroker : p \notin unsure =>
        IF pc = "amend" /\ cur = p
        THEN /\ asked >= stop_loss[p]
             /\ IF answer = "ok" THEN live_stop[p] = asked ELSE InStep(p)
        ELSE InStep(p)

MonitorInv ==
    TypeOK /\ TaskInv /\ FreshInv /\ HoldInv /\ WireInv /\ StopInv

-----------------------------------------------------------------------------

LEMMA EmptyWire == <<>> \in Seq(Amend)
  OBVIOUS

LEMMA InitInv == Init => MonitorInv
<1> SUFFICES ASSUME Init PROVE MonitorInv
  OBVIOUS
<1> USE SessionConstants DEF Init, Levels
<1>1. 0 \in 0..HoldPasses /\ 0 \in Nat /\ 0 + 0 <= HoldPasses
  OBVIOUS
<1>2. /\ connected \in BOOLEAN /\ up \in BOOLEAN
      /\ flat \in BOOLEAN /\ pass_flat \in BOOLEAN
  OBVIOUS
<1>3. TypeOK
  <2>1. wire \in Seq(Amend)
    BY EmptyWire
  <2>2. /\ broker \in [Positions -> {"none", "open", "closed"}]
        /\ live_stop \in [Positions -> Levels]
        /\ stop_loss \in [Positions -> Levels]
        /\ ordered \in [Positions -> SUBSET Stops]
        /\ phase \in [Positions -> Phases \cup {NotOurs}]
    OBVIOUS
  <2>3. /\ requested \in [Positions -> 0..HoldPasses]
        /\ idle \in [Positions -> Nat]
    BY <1>1
  <2> QED
    BY <1>2, <2>1, <2>2, <2>3 DEF TypeOK
<1>4. TaskInv /\ FreshInv
  BY DEF TaskInv, FreshInv, Waits
<1>5. HoldInv
  BY <1>1 DEF HoldInv, Settled, Managed
<1>6. WireInv /\ StopInv
  BY DEF WireInv, StopInv, Managed
<1> QED
  BY <1>3, <1>4, <1>5, <1>6 DEF MonitorInv

(* A confirmed phase is a phase, and the stops a pass wants are stops.     *)
LEMMA PhaseStep ==
    ASSUME NEW ph \in Phases, NEW price, NEW pnl
    PROVE  /\ Confirm(ph, Advance(ph, price), pnl) \in Phases
           /\ \A current : Wanted(ph, current) \subseteq Stops
  BY SessionConstants DEF Confirm, Advance, Wanted, Phases

-----------------------------------------------------------------------------
(* Type correctness *)

(* What the end of a visit leaves in the monitor's variables.              *)
VisitTypes ==
    /\ pc \in {"sleep", "visit", "amend", "close"}
    /\ todo \subseteq Positions
    /\ cur \in Positions \cup {Nobody}
    /\ pass_flat \in BOOLEAN
    /\ idle \in [Positions -> Nat]

LEMMA LeaveTypes ==
    ASSUME TypeOK, NEW p, Leave(p)
    PROVE  /\ pc' \in {"sleep", "visit", "amend", "close"}
           /\ todo' \subseteq Positions
           /\ cur' \in Positions \cup {Nobody}
           /\ pass_flat' \in BOOLEAN
<1>1. pass_flat' \in BOOLEAN
  BY Zenon DEF Leave, TypeOK
<1> QED
  BY <1>1 DEF Leave, TypeOK

LEMMA ExitTypes ==
    ASSUME TypeOK, NEW p \in Positions, Exit(p)
    PROVE  VisitTypes'
<1>1. CASE pc' = "close" /\ Await(p) /\ TryClose(p)
  BY <1>1 DEF TypeOK, VisitTypes, Await, TryClose
<1>2. CASE Leave(p) /\ (TryClose(p) \/ UNCHANGED idle)
  <2>0. idle \in [Positions -> Nat]
    BY DEF TypeOK
  <2>1. idle' \in [Positions -> Nat]
    BY <1>2, <2>0 DEF TryClose
  <2> QED
    BY <1>2, <2>1, LeaveTypes DEF VisitTypes
<1> QED
  BY <1>1, <1>2 DEF Exit

LEMMA NextTypes == TypeOK /\ TaskInv /\ [Next]_vars => TypeOK'
<1> SUFFICES ASSUME TypeOK, TaskInv, [Next]_vars PROVE TypeOK'
  OBVIOUS
<1> USE SessionConstants DEF TypeOK, Levels
<1>1. CASE StartRead
  BY <1>1 DEF StartRead, market, link, tracker, history, OpenAtBroker
<1>2. CASE ReadFails
  BY <1>2 DEF ReadFails, market, link, tracker, history
<1>3. CASE EndRead
  <2>1. pass_flat' \in BOOLEAN
    BY <1>3, Zenon DEF EndRead
  <2>2. idle' \in [Positions -> Nat]
    BY <1>3 DEF EndRead
  <2> QED
    BY <1>3, <2>1, <2>2 DEF EndRead, market, link, tracker
<1>4. ASSUME NEW p \in Positions, SkipVisit(p) PROVE TypeOK'
  BY <1>4, LeaveTypes DEF SkipVisit, market, link, tracker, history
<1>5. ASSUME NEW p \in Positions, Visit(p) PROVE TypeOK'
  <2>1. PICK price \in Prices, pnl \in Prices, bid \in Prices :
          LET current == Confirm(phase[p], Advance(phase[p], price), pnl)
              wanted == Wanted(phase[p], current)
          IN  /\ phase' = [phase EXCEPT ![p] = current]
              /\ \/ \E new_sl \in wanted :
                       /\ wire' = Append(wire, [pos |-> p, stop |-> new_sl])
                       /\ asked' = new_sl
                       /\ pc' = "amend"
                       /\ Await(p)
                       /\ UNCHANGED idle
                 \/ /\ Exit(p)
                    /\ UNCHANGED << wire, asked >>
    BY <1>5 DEF Visit
  <2>2. phase[p] \in Phases
    BY <1>5 DEF Visit, Managed
  <2>3. phase' \in [Positions -> Phases \cup {NotOurs}]
    BY <2>1, <2>2, PhaseStep
  <2>4. /\ wire' \in Seq(Amend)
        /\ asked' \in Levels
    <3>1. ASSUME NEW new_sl \in Stops, asked' = new_sl,
                 wire' = Append(wire, [pos |-> p, stop |-> new_sl])
          PROVE  wire' \in Seq(Amend) /\ asked' \in Levels
      <4>1. [pos |-> p, stop |-> new_sl] \in Amend
        BY DEF Amend
      <4> QED
        BY <3>1, <4>1
    <3> QED
      BY <2>1, <2>2, <3>1, PhaseStep
  <2>5. VisitTypes'
    <3>1. CASE pc' = "amend" /\ Await(p) /\ UNCHANGED idle
      BY <3>1 DEF VisitTypes, Await
    <3> QED
      BY <2>1, <3>1, ExitTypes
  <2> QED
    BY <1>5, <2>3, <2>4, <2>5 DEF Visit, VisitTypes, link
<1>6. CASE AmendReturns
  <2>1. cur \in Positions
    BY <1>6 DEF AmendReturns, TaskInv, Waits
  <2>2. VisitTypes'
    BY <1>6, <2>1, ExitTypes DEF AmendReturns
  <2>3. stop_loss' \in [Positions -> Levels]
    BY <1>6, <2>1 DEF AmendReturns
  <2> QED
    BY <1>6, <2>2, <2>3 DEF AmendReturns, VisitTypes, market, link
<1>7. CASE AmendTimesOut
  <2>1. cur \in Positions
    BY <1>7 DEF AmendTimesOut, TaskInv, Waits
  <2>2. VisitTypes'
    BY <1>7, <2>1, ExitTypes DEF AmendTimesOut
  <2> QED
    BY <1>7, <2>1, <2>2 DEF AmendTimesOut, VisitTypes, market, link, tracker
<1>8. ASSUME NEW closed \in BOOLEAN, CloseReturns(closed) PROVE TypeOK'
  <2>0. HoldPasses \in 0..HoldPasses
    OBVIOUS
  <2>1. requested' \in [Positions -> 0..HoldPasses]
    BY <1>8, <2>0 DEF CloseReturns
  <2> QED
    BY <1>8, <2>1, LeaveTypes DEF CloseReturns, market, link, tracker, history
<1>9. ASSUME NEW verdict \in {"ok", "refused"}, BrokerAmends(verdict)
      PROVE  TypeOK'
  <2>1. /\ Head(wire) \in Amend
        /\ Tail(wire) \in Seq(Amend)
    BY <1>9 DEF BrokerAmends
  <2>2. /\ Head(wire).pos \in Positions /\ Head(wire).stop \in Stops
    BY <2>1 DEF Amend
  <2>3. /\ wire' \in Seq(Amend)
        /\ live_stop' \in [Positions -> Levels]
        /\ ordered' \in [Positions -> SUBSET Stops]
        /\ answer' \in {"none", "ok", "refused"}
    BY <1>9, <2>1, <2>2 DEF BrokerAmends
  <2> QED
    BY <1>9, <2>3 DEF BrokerAmends, link, tracker, history
<1>10. ASSUME NEW p \in Positions, BrokerCloses(p) PROVE TypeOK'
  BY <1>10 DEF BrokerCloses, link, tracker, task, history
<1>11. ASSUME NEW p \in Positions, Untrack(p) PROVE TypeOK'
  BY <1>11 DEF Untrack, market, link, task, history
<1>12. ASSUME NEW p \in Positions, PlaceEntry(p) PROVE TypeOK'
  BY <1>12 DEF PlaceEntry, link, task, history, Phases
<1>13. CASE ClockTurns
  BY <1>13 DEF ClockTurns, market, link, tracker, task, history
<1>14. CASE DecideEntry \/ DropEntry
  BY <1>14 DEF DecideEntry, DropEntry, market, link, tracker, task, history
<1>15. CASE Disconnect \/ Reconnect
  <2>1. connected' \in BOOLEAN
    BY <1>15, Zenon DEF Disconnect, Reconnect
  <2>2. unsure' \subseteq Positions
    BY <1>15 DEF Disconnect, Reconnect, CancelFutures, TaskInv, Waits
  <2>3. /\ pc' \in {"sleep", "reading", "visit", "amend", "close", "dead"}
        /\ todo' \subseteq Positions
        /\ cur' \in Positions \cup {Nobody}
        /\ asked' \in Levels
    BY <1>15 DEF Disconnect, Reconnect, CancelFutures
  <2>4. pass_flat' \in BOOLEAN
    BY <1>15, Zenon DEF Disconnect, Reconnect, CancelFutures
  <2>5. wire' \in Seq(Amend)
    BY <1>15, EmptyWire DEF Disconnect, Reconnect, CancelFutures
  <2>6. entry' \in {"idle", "first", "addon", "dead"}
    BY <1>15 DEF Disconnect, Reconnect, CancelFutures
  <2> QED
    BY <1>15, <2>1, <2>2, <2>3, <2>4, <2>5, <2>6
    DEF Disconnect, Reconnect, tracker
<1>16. CASE Crash
  <2>1. 0 \in 0..HoldPasses /\ 0 \in Nat
    OBVIOUS
  <2>2. /\ requested' \in [Positions -> 0..HoldPasses]
        /\ idle' \in [Positions -> Nat]
    BY <1>16, <2>1 DEF Crash
  <2>3. up' \in BOOLEAN /\ connected' \in BOOLEAN /\ pass_flat' \in BOOLEAN
    BY <1>16, Zenon DEF Crash
  <2> QED
    BY <1>16, <2>2, <2>3 DEF Crash, tracker
<1>17. CASE Startup
  BY <1>17 DEF Startup, market, task, history
<1>18. CASE UNCHANGED vars
  BY <1>18 DEF vars, market, link, tracker, task, history
<1> QED
  BY <1>1, <1>2, <1>3, <1>4, <1>5, <1>6, <1>7, <1>8, <1>9, <1>10, <1>11,
     <1>12, <1>13, <1>14, <1>15, <1>16, <1>17, <1>18 DEF Next

-----------------------------------------------------------------------------
(* The monitor's task, and positions that were never opened *)

LEMMA NextTask ==
    TypeOK /\ TaskInv /\ FreshInv /\ HoldInv /\ [Next]_vars => TaskInv'
<1> SUFFICES ASSUME TypeOK, TaskInv, FreshInv, HoldInv, [Next]_vars
             PROVE  TaskInv'
  OBVIOUS
<1> USE SessionConstants DEF TypeOK, TaskInv, Waits, Managed
<1>1. CASE StartRead
  BY <1>1 DEF StartRead, market, link, tracker, history
<1>2. CASE ReadFails
  BY <1>2 DEF ReadFails, market, link, tracker, history
<1>3. CASE EndRead
  BY <1>3 DEF EndRead, market, link, tracker
<1>4. ASSUME NEW p \in Positions, SkipVisit(p) PROVE TaskInv'
  BY <1>4 DEF SkipVisit, Leave, market, link, tracker, history
<1>5. ASSUME NEW p \in Positions, Visit(p) PROVE TaskInv'
  <2>1. PICK price \in Prices, pnl \in Prices, bid \in Prices :
          LET current == Confirm(phase[p], Advance(phase[p], price), pnl)
          IN  /\ phase' = [phase EXCEPT ![p] = current]
              /\ \/ pc' = "amend" /\ Await(p)
                 \/ Exit(p)
    BY <1>5 DEF Visit
  <2>2. phase'[p] \in Phases
    BY <1>5, <2>1, PhaseStep DEF Visit
  <2>3. up' /\ answer' = "none"
    BY <1>5 DEF Visit, link
  <2>4. CASE pc' = "amend" /\ Await(p)
    BY <1>5, <2>2, <2>3, <2>4 DEF Visit, Await, Phases, NotOurs
  <2>5. CASE Exit(p)
    BY <1>5, <2>3, <2>5 DEF Visit, Exit, Leave, Await, TryClose
  <2> QED
    BY <2>1, <2>4, <2>5
<1>6. CASE AmendReturns
  BY <1>6 DEF AmendReturns, Exit, Leave, Await, TryClose, market, link
<1>7. CASE AmendTimesOut
  BY <1>7 DEF AmendTimesOut, Exit, Leave, Await, TryClose, market, link,
              tracker
<1>8. ASSUME NEW closed \in BOOLEAN, CloseReturns(closed) PROVE TaskInv'
  BY <1>8 DEF CloseReturns, Leave, market, link, tracker, history
<1>9. ASSUME NEW verdict \in {"ok", "refused"}, BrokerAmends(verdict)
      PROVE  TaskInv'
  BY <1>9 DEF BrokerAmends, link, tracker, history
<1>10. ASSUME NEW p \in Positions, BrokerCloses(p) PROVE TaskInv'
  BY <1>10 DEF BrokerCloses, link, tracker, task, history
<1>11. ASSUME NEW p \in Positions, Untrack(p) PROVE TaskInv'
  BY <1>11 DEF Untrack, market, link, task, history, LoopFree
<1>12. ASSUME NEW p \in Positions, PlaceEntry(p) PROVE TaskInv'
  BY <1>12 DEF PlaceEntry, link, task, history, LoopFree, NotOurs
<1>13. CASE ClockTurns
  BY <1>13 DEF ClockTurns, market, link, tracker, task, history
<1>14. CASE DecideEntry \/ DropEntry
  BY <1>14 DEF DecideEntry, DropEntry, market, link, tracker, task, history
<1>15. CASE Disconnect \/ Reconnect
  BY <1>15 DEF Disconnect, Reconnect, CancelFutures, AwaitsBroker, tracker,
               LoopFree
<1>16. CASE Crash
  BY <1>16 DEF Crash, tracker
<1>17. CASE Startup
  BY <1>17 DEF Startup, market, task, history
<1>18. CASE UNCHANGED vars
  BY <1>18 DEF vars, market, link, tracker, task, history
<1> QED
  BY <1>1, <1>2, <1>3, <1>4, <1>5, <1>6, <1>7, <1>8, <1>9, <1>10, <1>11,
     <1>12, <1>13, <1>14, <1>15, <1>16, <1>17, <1>18 DEF Next

LEMMA NextFresh ==
    TypeOK /\ TaskInv /\ FreshInv /\ WireInv /\ [Next]_vars => FreshInv'
<1> SUFFICES ASSUME TypeOK, TaskInv, FreshInv, WireInv, [Next]_vars,
                    NEW q \in Positions, broker'[q] = "none"
             PROVE  /\ phase'[q] = NotOurs
                    /\ q \notin todo'
                    /\ idle'[q] = 0
  BY DEF FreshInv
<1> DEFINE Goal == /\ phase'[q] = NotOurs
                   /\ q \notin todo'
                   /\ idle'[q] = 0
<1> USE SessionConstants DEF TypeOK, TaskInv, Waits, Managed, FreshInv
<1>1. CASE StartRead
  BY <1>1 DEF StartRead, market, link, tracker, history, OpenAtBroker
<1>2. CASE ReadFails
  BY <1>2 DEF ReadFails, market, link, tracker, history
<1>3. CASE EndRead
  BY <1>3 DEF EndRead, market, link, tracker
<1>4. ASSUME NEW p \in Positions, SkipVisit(p) PROVE Goal
  BY <1>4 DEF SkipVisit, Leave, market, link, tracker, history
<1>5. ASSUME NEW p \in Positions, Visit(p) PROVE Goal
  <2>1. broker[q] = "none" /\ p # q
    BY <1>5 DEF Visit
  <2> QED
    BY <1>5, <2>1 DEF Visit, Exit, Leave, Await, TryClose, link
<1>6. CASE AmendReturns
  BY <1>6 DEF AmendReturns, Exit, Leave, Await, TryClose, market, link
<1>7. CASE AmendTimesOut
  BY <1>7 DEF AmendTimesOut, Exit, Leave, Await, TryClose, market, link,
              tracker
<1>8. ASSUME NEW closed \in BOOLEAN, CloseReturns(closed) PROVE Goal
  BY <1>8 DEF CloseReturns, Leave, market, link, tracker, history
<1>9. ASSUME NEW verdict \in {"ok", "refused"}, BrokerAmends(verdict)
      PROVE  Goal
  BY <1>9 DEF BrokerAmends, link, tracker, history
<1>10. ASSUME NEW p \in Positions, BrokerCloses(p) PROVE Goal
  BY <1>10 DEF BrokerCloses, link, tracker, task, history
<1>11. ASSUME NEW p \in Positions, Untrack(p) PROVE Goal
  BY <1>11 DEF Untrack, market, link, task, history, LoopFree
<1>12. ASSUME NEW p \in Positions, PlaceEntry(p) PROVE Goal
  BY <1>12 DEF PlaceEntry, link, task, history, LoopFree
<1>13. CASE ClockTurns
  BY <1>13 DEF ClockTurns, market, link, tracker, task, history
<1>14. CASE DecideEntry \/ DropEntry
  BY <1>14 DEF DecideEntry, DropEntry, market, link, tracker, task, history
<1>15. CASE Disconnect \/ Reconnect
  BY <1>15 DEF Disconnect, Reconnect, CancelFutures, tracker
<1>16. CASE Crash
  BY <1>16 DEF Crash, tracker
<1>17. CASE Startup
  <2>1. broker[q] = "none" /\ phase'[q] \in Recovered(q)
    BY <1>17 DEF Startup, market
  <2>2. phase'[q] = NotOurs
    BY <2>1 DEF Recovered, OpenAtBroker
  <2> QED
    BY <1>17, <2>1, <2>2 DEF Startup, market, task, history
<1>18. CASE UNCHANGED vars
  BY <1>18 DEF vars, market, link, tracker, task, history
<1> QED
  BY <1>1, <1>2, <1>3, <1>4, <1>5, <1>6, <1>7, <1>8, <1>9, <1>10, <1>11,
     <1>12, <1>13, <1>14, <1>15, <1>16, <1>17, <1>18 DEF Next

-----------------------------------------------------------------------------
(* Close requests *)

(* A position's part of HoldInv, with the variables it depends on.         *)
HoldOf(q) ==
    /\ idle[q] + requested[q] <= HoldPasses
    /\ Settled(q) /\ requested[q] = 0 /\ q \in Managed => idle[q] = 0
    /\ pc \in {"visit", "amend", "close"} /\ ~pass_flat => idle[q] = 0

(* The end of the visit of p keeps every position's part: p was shielded,  *)
(* has just been tried, or the pass is not one of the force-flat time.     *)
LEMMA LeaveHold ==
    ASSUME TypeOK, NEW p \in Positions, NEW q \in Positions,
           HoldOf(q), requested' = requested, Leave(p),
           pc \in {"visit", "amend", "close"},
           q \in Managed' => q \in Managed,
           \/ idle'[q] = 0
           \/ idle'[q] = idle[q] /\ (q # p \/ ~pass_flat \/ requested[q] > 0
                                            \/ q \notin Managed)
    PROVE  HoldOf(q)'
<1>1. /\ idle[q] \in Nat /\ idle'[q] \in Nat
      /\ requested[q] \in 0..HoldPasses /\ HoldPasses \in Nat
  BY SessionConstants DEF TypeOK
<1>2. idle'[q] + requested'[q] <= HoldPasses
  BY <1>1 DEF HoldOf
<1>3. pc' \in {"visit", "amend", "close"} /\ ~pass_flat' => idle'[q] = 0
  <2>1. pc' = "visit" => (pass_flat' <=> pass_flat)
    BY Zenon DEF Leave
  <2>2. pc' \notin {"amend", "close"}
    BY DEF Leave
  <2> QED
    BY <2>1, <2>2 DEF HoldOf
<1>4. Settled(q)' /\ requested'[q] = 0 /\ q \in Managed' => idle'[q] = 0
  <2>1. q # p => (q \in todo' <=> q \in todo)
    BY DEF Leave
  <2>2. q # p /\ Settled(q)' => Settled(q)
    BY <2>1 DEF Settled, Leave
  <2> QED
    BY <1>1, <2>2 DEF HoldOf
<1> QED
  BY <1>2, <1>3, <1>4 DEF HoldOf

LEMMA ExitHold ==
    ASSUME TypeOK, NEW p \in Positions, NEW q \in Positions,
           HoldOf(q), requested' = requested, Exit(p),
           pc \in {"visit", "amend"}, p \in todo,
           q \in Managed' => q \in Managed
    PROVE  HoldOf(q)'
<1>0. idle \in [Positions -> Nat] /\ requested[q] \in 0..HoldPasses
      /\ HoldPasses \in Nat
  BY SessionConstants DEF TypeOK
<1>1. CASE pc' = "close" /\ Await(p) /\ TryClose(p)
  <2>1. idle'[q] = 0 \/ idle'[q] = idle[q]
    BY <1>0, <1>1 DEF TryClose
  <2>2. todo' = todo /\ (pass_flat' <=> pass_flat)
    BY <1>1 DEF Await
  <2> QED
    BY <1>0, <1>1, <2>1, <2>2 DEF HoldOf, Settled
<1>2. CASE Leave(p) /\ TryClose(p)
  <2>1. idle'[q] = 0 \/ (idle'[q] = idle[q] /\ q # p)
    BY <1>0, <1>2 DEF TryClose
  <2> QED
    BY <1>2, <2>1, LeaveHold
<1>3. CASE ~pass_flat /\ Leave(p) /\ UNCHANGED idle
  BY <1>3, LeaveHold
<1> QED
  BY <1>1, <1>2, <1>3 DEF Exit

LEMMA NextHold ==
    TypeOK /\ TaskInv /\ FreshInv /\ HoldInv /\ [Next]_vars => HoldInv'
<1> SUFFICES ASSUME TypeOK, TaskInv, FreshInv, HoldInv, [Next]_vars,
                    NEW q \in Positions
             PROVE  HoldOf(q)'
  BY DEF HoldInv, HoldOf
<1>0. /\ HoldOf(q)
      /\ requested[q] \in 0..HoldPasses /\ idle[q] \in Nat
      /\ HoldPasses \in Nat \ {0}
  BY SessionConstants DEF HoldInv, HoldOf, TypeOK
<1>a. ASSUME idle' = idle, requested' = requested, phase' = phase,
             UNCHANGED << pc, todo, pass_flat >>
      PROVE  HoldOf(q)'
  BY <1>0, <1>a DEF HoldOf, Settled, Managed
<1>1. CASE StartRead
  BY <1>0, <1>1 DEF StartRead, tracker, history, HoldOf, Settled, Managed
<1>2. CASE ReadFails
  BY <1>0, <1>2 DEF ReadFails, tracker, history, HoldOf, Settled, Managed
<1>3. CASE EndRead
  <2>1. /\ requested'[q] \in Held(q)
        /\ idle'[q] = IF flat /\ q \in todo \cap Managed
                      THEN idle[q] + 1 ELSE 0
        /\ phase' = phase /\ todo' = todo
        /\ pc' = IF todo = {} THEN "sleep" ELSE "visit"
    BY <1>3 DEF EndRead, tracker
  <2>2. requested[q] = 0 /\ q \in Managed => idle[q] = 0
    BY <1>0, <1>3 DEF EndRead, HoldOf, Settled
  <2>3. idle'[q] + requested'[q] <= HoldPasses
    BY <1>0, <2>1, <2>2 DEF Held, HoldOf
  <2>4. Settled(q)' => idle'[q] = 0
    BY <2>1 DEF Settled
  <2>5. pc' \in {"visit", "amend", "close"} /\ ~pass_flat' => idle'[q] = 0
    <3>1. pc' # "sleep" => todo # {}
      BY <2>1
    <3>2. todo # {} /\ ~pass_flat' => ~flat
      BY <1>3, Zenon DEF EndRead
    <3> QED
      BY <2>1, <3>1, <3>2
  <2> QED
    BY <2>3, <2>4, <2>5 DEF HoldOf
<1>4. ASSUME NEW p \in Positions, SkipVisit(p) PROVE HoldOf(q)'
  <2>1. /\ Leave(p) /\ requested' = requested /\ idle' = idle
        /\ phase' = phase /\ pc = "visit"
        /\ requested[p] > 0 \/ p \notin Managed
    BY <1>4 DEF SkipVisit, tracker, history
  <2>2. q \in Managed' => q \in Managed
    BY <2>1 DEF Managed
  <2> QED
    BY <1>0, <2>1, <2>2, LeaveHold
<1>5. ASSUME NEW p \in Positions, Visit(p) PROVE HoldOf(q)'
  <2>1. requested' = requested /\ p \in todo /\ pc = "visit"
    BY <1>5 DEF Visit
  <2>2. \/ pc' = "amend" /\ Await(p) /\ idle' = idle
        \/ Exit(p)
    BY <1>5 DEF Visit
  <2>3. q \in Managed' => q \in Managed
    BY <1>5 DEF Visit, Managed, TypeOK
  <2>4. CASE pc' = "amend" /\ Await(p) /\ idle' = idle
    BY <1>0, <2>1, <2>3, <2>4 DEF HoldOf, Settled, Await
  <2> QED
    BY <1>0, <2>1, <2>2, <2>3, <2>4, ExitHold
<1>6. CASE AmendReturns \/ AmendTimesOut
  <2>1. /\ cur \in todo /\ cur \in Positions /\ pc = "amend"
        /\ requested' = requested /\ phase' = phase /\ Exit(cur)
    BY <1>6 DEF AmendReturns, AmendTimesOut, TaskInv, Waits, TypeOK, tracker
  <2>2. q \in Managed' => q \in Managed
    BY <2>1 DEF Managed
  <2> QED
    BY <1>0, <2>1, <2>2, ExitHold
<1>8. ASSUME NEW closed \in BOOLEAN, CloseReturns(closed) PROVE HoldOf(q)'
  <2>1. /\ cur \in todo /\ cur \in Positions /\ pc = "close"
        /\ idle[cur] = 0 /\ idle' = idle /\ phase' = phase /\ Leave(cur)
    BY <1>8 DEF CloseReturns, TaskInv, Waits, TypeOK, tracker, history
  <2>2. q \in Managed' => q \in Managed
    BY <2>1 DEF Managed
  <2>3. CASE requested' = requested
    BY <1>0, <2>1, <2>2, <2>3, LeaveHold
  <2>4. CASE requested' = [requested EXCEPT ![cur] = HoldPasses]
    <3>1. CASE q = cur
      BY <1>0, <2>1, <2>4, <3>1 DEF HoldOf, TypeOK
    <3>2. CASE q # cur
      <4>1. requested'[q] = requested[q]
        BY <2>4, <3>2 DEF TypeOK
      <4>2. pc' = "visit" => (pass_flat' <=> pass_flat)
        BY <2>1, Zenon DEF Leave
      <4>3. Settled(q)' => Settled(q)
        BY <2>1, <3>2 DEF Leave, Settled
      <4>4. pc' \notin {"amend", "close"}
        BY <2>1 DEF Leave
      <4> QED
        BY <1>0, <2>1, <2>2, <4>1, <4>2, <4>3, <4>4 DEF HoldOf
    <3> QED
      BY <3>1, <3>2
  <2> QED
    BY <1>8, <2>3, <2>4 DEF CloseReturns
<1>9. ASSUME NEW verdict \in {"ok", "refused"}, BrokerAmends(verdict)
      PROVE  HoldOf(q)'
  BY <1>9, <1>a DEF BrokerAmends, tracker, history
<1>10. ASSUME NEW p \in Positions, BrokerCloses(p) PROVE HoldOf(q)'
  BY <1>10, <1>a DEF BrokerCloses, tracker, task, history
<1>11. ASSUME NEW p \in Positions, Untrack(p) PROVE HoldOf(q)'
  <2>1. q \in Managed' => q \in Managed
    BY <1>11 DEF Untrack, Managed, TypeOK
  <2> QED
    BY <1>0, <1>11, <2>1 DEF Untrack, task, history, HoldOf, Settled
<1>12. ASSUME NEW p \in Positions, PlaceEntry(p) PROVE HoldOf(q)'
  <2>1. CASE q = p
    <3>1. idle[q] = 0
      BY <1>12, <2>1 DEF PlaceEntry, FreshInv
    <3> QED
      BY <1>0, <1>12, <3>1 DEF PlaceEntry, task, history, HoldOf
  <2>2. CASE q # p
    <3>1. q \in Managed' => q \in Managed
      BY <1>12, <2>2 DEF PlaceEntry, Managed, TypeOK
    <3> QED
      BY <1>0, <1>12, <3>1 DEF PlaceEntry, task, history, HoldOf, Settled
  <2> QED
    BY <2>1, <2>2
<1>13. CASE ClockTurns \/ DecideEntry \/ DropEntry
  BY <1>13, <1>a
  DEF ClockTurns, DecideEntry, DropEntry, tracker, task, history
<1>14. CASE Disconnect \/ Reconnect
  <2>1. idle' = idle /\ requested' = requested /\ phase' = phase
    BY <1>14 DEF Disconnect, Reconnect, tracker
  <2>2. CASE pc' = "dead"
    BY <1>0, <2>1, <2>2 DEF HoldOf, Settled
  <2>3. CASE UNCHANGED << pc, todo, pass_flat >>
    BY <2>1, <2>3, <1>a
  <2> QED
    BY <1>14, <2>2, <2>3 DEF Disconnect, Reconnect, CancelFutures
<1>15. CASE Crash
  BY <1>0, <1>15 DEF Crash, HoldOf
<1>16. CASE Startup
  BY <1>0, <1>16 DEF Startup, TaskInv, task, history, HoldOf
<1>17. CASE UNCHANGED vars
  BY <1>17, <1>a DEF vars, tracker, task, history
<1> QED
  BY <1>1, <1>2, <1>3, <1>4, <1>5, <1>6, <1>8, <1>9, <1>10, <1>11, <1>12,
     <1>13, <1>14, <1>15, <1>16, <1>17 DEF Next

-----------------------------------------------------------------------------
(* Amend requests on the wire *)

LEMMA NextWire ==
    TypeOK /\ TaskInv /\ FreshInv /\ WireInv /\ [Next]_vars => WireInv'
<1> SUFFICES ASSUME TypeOK, TaskInv, FreshInv, WireInv, [Next]_vars
             PROVE  WireInv'
  OBVIOUS
<1> DEFINE Unanswered == pc = "amend" /\ answer = "none"
<1>0. wire \in Seq(Amend)
  BY DEF TypeOK
(* Nothing is sent, and the monitor does not wait or waits as before.      *)
<1>a. ASSUME wire' = wire, unsure \subseteq unsure',
             \A i \in 1..Len(wire) : broker'[wire[i].pos] # "none",
             \/ ~Unanswered /\ pc' # "amend"
             \/ UNCHANGED << pc, answer, cur, asked >>
      PROVE  WireInv'
  BY <1>a DEF WireInv
<1>b. broker' = broker => \A i \in 1..Len(wire) : broker'[wire[i].pos] # "none"
  BY DEF WireInv
<1>1. CASE StartRead \/ ReadFails \/ EndRead
  BY <1>1, <1>a, <1>b DEF StartRead, ReadFails, EndRead, market, history
<1>2. ASSUME NEW p \in Positions, SkipVisit(p) PROVE WireInv'
  BY <1>2, <1>a, <1>b DEF SkipVisit, Leave, market, history
<1>3. ASSUME NEW p \in Positions, Visit(p) PROVE WireInv'
  <2>1. /\ pc = "visit" /\ p \in todo
        /\ broker' = broker /\ unsure' = unsure /\ answer' = answer
    BY <1>3 DEF Visit
  <2>2. broker[p] # "none"
    BY <2>1 DEF FreshInv
  <2>3. \/ \E new_sl : /\ wire' = Append(wire, [pos |-> p, stop |-> new_sl])
                       /\ asked' = new_sl
                       /\ pc' = "amend"
                       /\ cur' = p
        \/ Exit(p) /\ wire' = wire
    BY <1>3 DEF Visit, Await
  <2>4. ASSUME NEW new_sl, asked' = new_sl, pc' = "amend", cur' = p,
               wire' = Append(wire, [pos |-> p, stop |-> new_sl])
        PROVE  WireInv'
    <3>1. /\ Len(wire') = Len(wire) + 1 /\ Len(wire) \in Nat
          /\ wire'[Len(wire')] = [pos |-> p, stop |-> new_sl]
          /\ \A i \in 1..Len(wire) : wire'[i] = wire[i]
      BY <1>0, <2>4
    <3>2. \A i \in 1..Len(wire) : /\ broker[wire[i].pos] # "none"
                                  /\ wire[i].pos \in unsure
      BY <2>1 DEF WireInv
    <3>3. answer' = "none"
      BY <2>1 DEF TaskInv
    <3>4. \A i \in 1..Len(wire') : i = Len(wire') \/ i \in 1..Len(wire)
      BY <3>1
    <3>5. broker[wire'[Len(wire')].pos] # "none"
      BY <2>2, <3>1
    <3> QED
      BY <2>1, <2>4, <3>1, <3>2, <3>3, <3>4, <3>5 DEF WireInv
  <2>5. CASE Exit(p) /\ wire' = wire
    BY <2>1, <2>5, <1>a, <1>b DEF Exit, Leave
  <2> QED
    BY <2>3, <2>4, <2>5
<1>4. CASE AmendReturns
  <2>1. pc' # "amend"
    BY <1>4 DEF AmendReturns, Exit, Leave
  <2> QED
    BY <1>4, <2>1, <1>a, <1>b DEF AmendReturns, market
<1>5. CASE AmendTimesOut
  <2>1. pc' # "amend"
    BY <1>5 DEF AmendTimesOut, Exit, Leave
  <2>2. /\ wire' = wire /\ broker' = broker /\ unsure' = unsure \cup {cur}
        /\ wire[Len(wire)].pos = cur
    BY <1>5 DEF AmendTimesOut, market, WireInv
  <2>3. \A i \in 1..Len(wire) : wire[i].pos \in unsure'
    BY <2>2 DEF WireInv
  <2> QED
    BY <2>1, <2>2, <2>3, <1>b DEF WireInv
<1>6. ASSUME NEW closed \in BOOLEAN, CloseReturns(closed) PROVE WireInv'
  BY <1>6, <1>a, <1>b DEF CloseReturns, Leave, market, history
<1>7. ASSUME NEW verdict \in {"ok", "refused"}, BrokerAmends(verdict)
      PROVE  WireInv'
  <2>1. /\ wire # <<>> /\ wire' = Tail(wire) /\ broker' = broker
        /\ UNCHANGED << pc, cur, asked, unsure >>
        /\ answer' = IF pc = "amend" /\ Len(wire) = 1 THEN verdict ELSE answer
    BY <1>7 DEF BrokerAmends, history
  <2>2. /\ Len(wire) \in Nat \ {0} /\ Len(wire') = Len(wire) - 1
        /\ \A i \in 1..Len(wire') : /\ wire'[i] = wire[i + 1]
                                    /\ i + 1 \in 1..Len(wire)
    BY <1>0, <2>1
  <2>3. CASE Len(wire) = 1
    BY <2>1, <2>2, <2>3 DEF WireInv
  <2>4. CASE Len(wire) # 1
    <3>1. answer' = answer
      BY <2>1, <2>4
    <3>2. wire'[Len(wire')] = wire[Len(wire)]
      BY <2>2, <2>4
    <3>3. Len(wire') > 0
      BY <2>2, <2>4
    <3>4. \A i \in 1..Len(wire') : i + 1 = Len(wire) => i = Len(wire')
      BY <2>2
    <3> QED
      BY <2>1, <2>2, <3>1, <3>2, <3>3, <3>4 DEF WireInv
  <2> QED
    BY <2>3, <2>4
<1>8. ASSUME NEW p \in Positions, BrokerCloses(p) \/ PlaceEntry(p)
      PROVE  WireInv'
  <2>1. \A q \in Positions : broker[q] # "none" => broker'[q] # "none"
    BY <1>8 DEF BrokerCloses, PlaceEntry, TypeOK
  <2>2. ASSUME NEW i \in 1..Len(wire) PROVE wire[i].pos \in Positions
    <3>1. wire[i] \in Amend
      BY <1>0
    <3> QED
      BY <3>1 DEF Amend
  <2>3. \A i \in 1..Len(wire) : broker'[wire[i].pos] # "none"
    BY <2>1, <2>2 DEF WireInv
  <2> QED
    BY <1>8, <2>3, <1>a DEF BrokerCloses, PlaceEntry, task, history
<1>9. ASSUME NEW p \in Positions, Untrack(p) PROVE WireInv'
  BY <1>9, <1>a, <1>b DEF Untrack, market, task, history
<1>10. CASE ClockTurns \/ DecideEntry \/ DropEntry
  BY <1>10, <1>a, <1>b
  DEF ClockTurns, DecideEntry, DropEntry, market, task, history
<1>11. CASE Disconnect \/ Reconnect
  <2>1. /\ wire' = <<>> /\ answer' = answer
        /\ pc' = "dead" \/ (pc' = pc /\ ~Unanswered)
    BY <1>11 DEF Disconnect, Reconnect, CancelFutures, AwaitsBroker
  <2> QED
    BY <2>1 DEF WireInv
<1>12. CASE Crash
  BY <1>12 DEF Crash, WireInv
<1>13. CASE Startup
  BY <1>13, <1>a, <1>b DEF Startup, TaskInv, market, task, history
<1>14. CASE UNCHANGED vars
  BY <1>14, <1>a, <1>b DEF vars, market, task, history
<1> QED
  BY <1>1, <1>2, <1>3, <1>4, <1>5, <1>6, <1>7, <1>8, <1>9, <1>10, <1>11,
     <1>12, <1>13, <1>14 DEF Next

-----------------------------------------------------------------------------
(* The two stops of a position *)

StopOf(q) ==
    IF pc = "amend" /\ cur = q
    THEN /\ asked >= stop_loss[q]
         /\ IF answer = "ok" THEN live_stop[q] = asked ELSE InStep(q)
    ELSE InStep(q)

(* An amend the broker takes for a position that is not unsure is the one  *)
(* the monitor waits for.                                                  *)
LEMMA TakenIsAwaited ==
    ASSUME TypeOK, WireInv, wire # <<>>, Head(wire).pos \notin unsure
    PROVE  /\ pc = "amend" /\ answer = "none" /\ Len(wire) = 1
           /\ Head(wire) = [pos |-> cur, stop |-> asked]
<1>1. Len(wire) \in Nat \ {0} /\ Head(wire) = wire[1] /\ 1 \in 1..Len(wire)
  BY DEF TypeOK
<1> QED
  BY <1>1 DEF WireInv

LEMMA NextStop ==
    MonitorInv /\ [Next]_vars => StopInv'
<1> SUFFICES ASSUME MonitorInv, [Next]_vars, up',
                    NEW q \in Positions, q \in Managed', q \in OpenAtBroker',
                    q \notin unsure'
             PROVE  StopOf(q)'
  BY DEF StopInv, StopOf, Managed
<1>0. /\ TypeOK /\ TaskInv /\ FreshInv /\ WireInv
      /\ up /\ q \in Managed /\ broker[q] = "open" /\ q \notin unsure
            => StopOf(q)
      /\ broker'[q] = "open"
  BY DEF MonitorInv, StopInv, StopOf, OpenAtBroker
(* A step that leaves the stops alone and has the monitor wait for an      *)
(* amend of q only if it did before.                                       *)
<1>a. ASSUME up, q \in Managed, broker[q] = "open", q \notin unsure,
             stop_loss' = stop_loss, live_stop' = live_stop,
             ordered' = ordered,
             \/ UNCHANGED << pc, cur, asked, answer >>
             \/ pc' # "amend" /\ ~(pc = "amend" /\ cur = q /\ answer = "ok")
      PROVE  StopOf(q)'
  BY <1>0, <1>a DEF StopOf, InStep
<1>b. phase' = phase => q \in Managed
  BY DEF Managed
<1>1. CASE StartRead \/ ReadFails \/ EndRead
  BY <1>0, <1>1, <1>a, <1>b
  DEF StartRead, ReadFails, EndRead, market, tracker, history
<1>2. ASSUME NEW p \in Positions, SkipVisit(p) PROVE StopOf(q)'
  BY <1>0, <1>2, <1>a, <1>b
  DEF SkipVisit, Leave, market, link, tracker, history
<1>3. ASSUME NEW p \in Positions, Visit(p) PROVE StopOf(q)'
  <2>1. /\ up /\ pc = "visit" /\ broker' = broker /\ unsure' = unsure
        /\ stop_loss' = stop_loss /\ live_stop' = live_stop
        /\ ordered' = ordered /\ answer' = "none"
    BY <1>0, <1>3 DEF Visit, TaskInv
  <2>2. q \in Managed
    BY <1>0, <1>3 DEF Visit, Managed, TypeOK
  <2>3. StopOf(q)
    BY <1>0, <2>1, <2>2
  <2>4. \/ /\ pc' = "amend" /\ cur' = p
           /\ validate_sl_modification(p, asked')
        \/ Exit(p)
    BY <1>3 DEF Visit, Await
  <2>5. CASE Exit(p)
    BY <2>1, <2>3, <2>5 DEF Exit, Leave, StopOf, InStep
  <2>6. CASE /\ pc' = "amend" /\ cur' = p
             /\ validate_sl_modification(p, asked')
    BY <2>1, <2>3, <2>6 DEF StopOf, InStep, validate_sl_modification
  <2> QED
    BY <2>4, <2>5, <2>6
<1>4. CASE AmendReturns
  <2>1. /\ up /\ pc = "amend" /\ answer \in {"ok", "refused"}
        /\ broker' = broker /\ unsure' = unsure /\ live_stop' = live_stop
        /\ q \in Managed /\ pc' # "amend" /\ ordered' = ordered
        /\ stop_loss' = IF answer = "ok" THEN [stop_loss EXCEPT ![cur] = asked]
                                         ELSE stop_loss
    BY <1>0, <1>4, <1>b DEF AmendReturns, Exit, Leave, market, TypeOK
  <2>2. StopOf(q)
    BY <1>0, <2>1
  <2>3. stop_loss \in [Positions -> Levels]
    BY <1>0 DEF TypeOK
  <2> QED
    BY <2>1, <2>2, <2>3 DEF StopOf, InStep
<1>5. CASE AmendTimesOut
  <2>1. pc' # "amend"
    BY <1>5 DEF AmendTimesOut, Exit, Leave
  <2> QED
    BY <1>0, <1>5, <2>1, <1>a, <1>b DEF AmendTimesOut, market, tracker
<1>6. ASSUME NEW closed \in BOOLEAN, CloseReturns(closed) PROVE StopOf(q)'
  BY <1>0, <1>6, <1>a, <1>b
  DEF CloseReturns, Leave, market, tracker, history
<1>7. ASSUME NEW verdict \in {"ok", "refused"}, BrokerAmends(verdict)
      PROVE  StopOf(q)'
  <2>1. /\ wire # <<>> /\ broker' = broker /\ stop_loss' = stop_loss
        /\ phase' = phase /\ up' = up
        /\ UNCHANGED << pc, cur, asked, unsure >>
        /\ answer' = IF pc = "amend" /\ Len(wire) = 1 THEN verdict ELSE answer
        /\ IF verdict = "ok"
           THEN /\ live_stop' = [live_stop EXCEPT ![Head(wire).pos] =
                                                     Head(wire).stop]
                /\ ordered' = [ordered EXCEPT ![Head(wire).pos] = {}]
           ELSE UNCHANGED << live_stop, ordered >>
    BY <1>7 DEF BrokerAmends, history, tracker, link
  <2>2. /\ StopOf(q)
        /\ live_stop \in [Positions -> Levels]
        /\ ordered \in [Positions -> SUBSET Stops]
    BY <1>0, <1>b, <2>1 DEF TypeOK
  <2>3. CASE Head(wire).pos \notin unsure
    <3>1. /\ pc = "amend" /\ answer = "none" /\ Len(wire) = 1
          /\ Head(wire).pos = cur /\ Head(wire).stop = asked
      BY <1>0, <2>1, <2>3, TakenIsAwaited
    <3> QED
      BY <2>1, <2>2, <3>1 DEF StopOf, InStep
  <2>4. CASE Head(wire).pos \in unsure
    <3>1. /\ Head(wire).pos # q /\ live_stop'[q] = live_stop[q]
          /\ ordered'[q] = ordered[q]
      BY <2>1, <2>2, <2>4
    <3>2. ~(pc = "amend" /\ cur = q /\ Len(wire) = 1)
      <4>1. SUFFICES ASSUME pc = "amend", cur = q, Len(wire) = 1 PROVE FALSE
        OBVIOUS
      <4>2. Head(wire) = wire[Len(wire)]
        BY <1>0, <4>1 DEF TypeOK
      <4>3. CASE answer = "none"
        BY <1>0, <3>1, <4>1, <4>2, <4>3 DEF WireInv
      <4>4. CASE answer # "none"
        BY <1>0, <2>1, <4>1, <4>4 DEF WireInv
      <4> QED
        BY <4>3, <4>4
    <3> QED
      BY <2>1, <2>2, <3>1, <3>2 DEF StopOf, InStep
  <2> QED
    BY <2>3, <2>4
<1>8. ASSUME NEW p \in Positions, BrokerCloses(p) PROVE StopOf(q)'
  <2>1. q # p
    BY <1>0, <1>8 DEF BrokerCloses, TypeOK
  <2>2. /\ broker[q] = "open" /\ live_stop'[q] = live_stop[q]
        /\ ordered'[q] = ordered[q]
    BY <1>0, <1>8, <2>1 DEF BrokerCloses, TypeOK
  <2>3. StopOf(q)
    BY <1>0, <1>8, <1>b, <2>2 DEF BrokerCloses, link, tracker, history
  <2> QED
    BY <1>8, <2>2, <2>3 DEF BrokerCloses, tracker, task, StopOf, InStep
<1>9. ASSUME NEW p \in Positions, Untrack(p) PROVE StopOf(q)'
  <2>1. q \in Managed /\ q # p /\ stop_loss'[q] = stop_loss[q]
    BY <1>0, <1>9 DEF Untrack, Managed, TypeOK, market
  <2>2. StopOf(q)
    BY <1>0, <1>9, <2>1 DEF Untrack, market, link, history, LoopFree
  <2> QED
    BY <1>9, <2>1, <2>2 DEF Untrack, market, task, history, StopOf, InStep
<1>10. ASSUME NEW p \in Positions, PlaceEntry(p) PROVE StopOf(q)'
  <2>0. PICK asked_for \in EntryStops, from_fill \in EntryStops :
          /\ stop_loss' = [stop_loss EXCEPT ![p] = asked_for]
          /\ live_stop' = [live_stop EXCEPT ![p] = from_fill]
          /\ ordered' = [ordered EXCEPT ![p] = {asked_for}]
    BY <1>10 DEF PlaceEntry
  <2>1. /\ up /\ unsure' = unsure
        /\ UNCHANGED << pc, cur, asked, answer >>
        /\ stop_loss \in [Positions -> Levels]
        /\ live_stop \in [Positions -> Levels]
        /\ ordered \in [Positions -> SUBSET Stops]
    BY <1>0, <1>10 DEF PlaceEntry, LoopFree, task, TypeOK
  <2>2. CASE q = p
    <3>1. ~(pc = "amend" /\ cur = q)
      BY <1>0, <1>10, <2>2 DEF PlaceEntry, FreshInv, TaskInv, Waits
    <3> QED
      BY <2>0, <2>1, <2>2, <3>1 DEF StopOf, InStep
  <2>3. CASE q # p
    <3>1. q \in Managed /\ broker[q] = "open"
      BY <1>0, <1>10, <2>3 DEF PlaceEntry, Managed, TypeOK
    <3> QED
      BY <1>0, <2>0, <2>1, <2>3, <3>1 DEF StopOf, InStep
  <2> QED
    BY <2>2, <2>3
<1>11. CASE ClockTurns \/ DecideEntry \/ DropEntry
  BY <1>0, <1>11, <1>a, <1>b
  DEF ClockTurns, DecideEntry, DropEntry, market, link, tracker, task, history
<1>12. CASE Disconnect \/ Reconnect
  <2>1. /\ up /\ broker' = broker /\ q \in Managed /\ q \notin unsure
        /\ stop_loss' = stop_loss /\ live_stop' = live_stop /\ answer' = answer
        /\ ordered' = ordered
    BY <1>0, <1>12, <1>b
    DEF Disconnect, Reconnect, CancelFutures, LoopFree, tracker
  <2>2. \/ pc' = "dead" /\ (pc = "amend" => answer = "none")
        \/ UNCHANGED << pc, cur, asked >>
    BY <1>12 DEF Disconnect, Reconnect, CancelFutures, AwaitsBroker
  <2> QED
    BY <1>0, <1>a, <2>1, <2>2
<1>13. CASE Crash
  BY <1>13 DEF Crash
<1>14. CASE Startup
  BY <1>0, <1>14 DEF Startup, TaskInv, market, task, StopOf, InStep
<1>15. CASE UNCHANGED vars
  BY <1>0, <1>15, <1>a, <1>b DEF vars, market, link, tracker, task, history
<1> QED
  BY <1>1, <1>2, <1>3, <1>4, <1>5, <1>6, <1>7, <1>8, <1>9, <1>10, <1>11,
     <1>12, <1>13, <1>14, <1>15 DEF Next

-----------------------------------------------------------------------------
(* Theorems *)

LEMMA NextInv == MonitorInv /\ [Next]_vars => MonitorInv'
  BY NextTypes, NextTask, NextFresh, NextHold, NextWire, NextStop
  DEF MonitorInv

(* MonitorInv is an invariant of the monitor, its broker and its restarts, *)
(* for every number of positions, every set of levels and every holding    *)
(* time of a close request.                                                *)
THEOREM MonitorInvariant == Spec => []MonitorInv
  BY InitInv, NextInv, PTL DEF Spec

(* Every variable of the monitor keeps its type.                           *)
THEOREM MonitorTypes == Spec => []TypeOK
<1>1. MonitorInv => TypeOK
  BY DEF MonitorInv
<1> QED
  BY <1>1, MonitorInvariant, PTL

(* In force-flat time, _clear_stale_close_requests lets no close request   *)
(* shield an open position for more than HoldPasses passes.                *)
THEOREM ClosesAreRetried == Spec => []CloseIsRetried
<1>1. MonitorInv => CloseIsRetried
  <2> SUFFICES ASSUME MonitorInv, NEW p \in Positions
               PROVE  idle[p] <= HoldPasses
    BY DEF CloseIsRetried
  <2>1. /\ idle[p] + requested[p] <= HoldPasses
        /\ idle[p] \in Nat /\ requested[p] \in 0..HoldPasses
        /\ HoldPasses \in Nat
    BY SessionConstants DEF MonitorInv, HoldInv, TypeOK
  <2> QED
    BY <2>1
<1> QED
  BY <1>1, MonitorInvariant, PTL

(* The tracker's stop of a managed position is the broker's, or else the   *)
(* one it had at the fill and no amend has been taken since; unless an     *)
(* amend of it went unanswered or is being made.                           *)
THEOREM StopsStayInStep == Spec => []StopsInStep
<1>1. MonitorInv => StopsInStep
  BY DEF MonitorInv, StopInv, InStep, StopsInStep
<1> QED
  BY <1>1, MonitorInvariant, PTL

(* A step changes the broker's stop of an open position only by taking an  *)
(* amend; the one the monitor waits for was checked against the tracker's  *)
(* stop, which is the broker's or the one of the fill.                     *)
LEMMA StepLoosensToOrder ==
    ASSUME MonitorInv, [Next]_vars, NEW p \in Positions,
           broker[p] = "open", broker'[p] = "open", p \notin unsure,
           live_stop'[p] < live_stop[p]
    PROVE  \E s \in ordered[p] : live_stop'[p] >= s
<1>0. /\ TypeOK /\ TaskInv /\ WireInv
      /\ live_stop \in [Positions -> Levels] /\ live_stop[p] \in Int
      /\ live_stop'[p] # live_stop[p]
  <2>1. TypeOK /\ TaskInv /\ WireInv
    BY DEF MonitorInv
  <2>2. live_stop \in [Positions -> Levels] /\ Levels \subseteq Int
    BY <2>1, SessionConstants DEF TypeOK, Levels, NoStop
  <2>3. live_stop[p] \in Int
    BY <2>2
  <2> QED
    BY <2>1, <2>2, <2>3
<1>1. ASSUME NEW verdict \in {"ok", "refused"}, BrokerAmends(verdict)
      PROVE  \E s \in ordered[p] : live_stop'[p] >= s
  <2>1. /\ wire # <<>>
        /\ IF verdict = "ok"
           THEN live_stop' = [live_stop EXCEPT ![Head(wire).pos] =
                                                  Head(wire).stop]
           ELSE live_stop' = live_stop
    BY <1>1 DEF BrokerAmends
  <2>2. Head(wire).pos = p /\ live_stop'[p] = Head(wire).stop
    BY <1>0, <2>1
  <2>3. /\ pc = "amend" /\ answer = "none" /\ cur = p
        /\ Head(wire).stop = asked
    BY <1>0, <2>1, <2>2, TakenIsAwaited
  <2>4. up /\ p \in Managed
    BY <1>0, <2>3 DEF TaskInv
  <2>5. asked >= stop_loss[p] /\ InStep(p)
    BY <2>3, <2>4 DEF MonitorInv, StopInv, OpenAtBroker
  <2>6. stop_loss[p] # live_stop[p]
    <3>1. asked \in Int
      BY <1>0, SessionConstants DEF TypeOK, Levels, NoStop
    <3> QED
      BY <1>0, <2>2, <2>3, <2>5, <3>1
  <2> QED
    BY <2>2, <2>3, <2>5, <2>6 DEF InStep
<1>2. ASSUME NEW q \in Positions, BrokerCloses(q) \/ PlaceEntry(q)
      PROVE  live_stop'[p] = live_stop[p]
  <2>1. q # p
    BY <1>0, <1>2 DEF BrokerCloses, PlaceEntry, TypeOK
  <2> QED
    BY <1>0, <1>2, <2>1 DEF BrokerCloses, PlaceEntry
<1>3. ASSUME NEW q \in Positions, SkipVisit(q) \/ Visit(q) \/ Untrack(q)
      PROVE  live_stop' = live_stop
  BY <1>3 DEF SkipVisit, Visit, Untrack, market
<1>4. ASSUME NEW closed \in BOOLEAN, CloseReturns(closed)
      PROVE  live_stop' = live_stop
  BY <1>4 DEF CloseReturns, market
<1>5. ASSUME \/ StartRead \/ ReadFails \/ EndRead
             \/ AmendReturns \/ AmendTimesOut \/ ClockTurns
             \/ DecideEntry \/ DropEntry
             \/ Disconnect \/ Reconnect \/ Crash \/ Startup
             \/ UNCHANGED vars
      PROVE  live_stop' = live_stop
  BY <1>5
  DEF StartRead, ReadFails, EndRead, AmendReturns, AmendTimesOut, ClockTurns,
      DecideEntry, DropEntry, Disconnect, Reconnect, Crash, Startup, vars,
      market
<1> QED
  BY <1>0, <1>1, <1>2, <1>3, <1>4, <1>5 DEF Next

(* While no amend of a position has gone unanswered, only the first that   *)
(* the broker takes may loosen its stop, and not below the tracker's at    *)
(* the fill.                                                               *)
THEOREM StopsLoosenOnlyToOrder == Spec => LoosensOnlyToOrder
<1>1. MonitorInv /\ [Next]_vars =>
        [ \A p \in OpenAtBroker \cap OpenAtBroker' :
            p \notin unsure /\ live_stop'[p] < live_stop[p]
            => \E s \in ordered[p] : live_stop'[p] >= s ]_vars
  BY StepLoosensToOrder DEF OpenAtBroker
<1> QED
  BY <1>1, MonitorInvariant, PTL DEF Spec, LoosensOnlyToOrder
=============================================================================
