---------------------------- MODULE TradeProofs ----------------------------
(***************************************************************************)
(* Proofs about OrderLifecycle, where a trade begins and ends, for any     *)
(* number of orders of either owner, and about Reports, where its record   *)
(* goes, for any positions and owners.                                     *)
(***************************************************************************)
EXTENDS OrderLifecycle, Reports, FiniteSetTheorems, SequenceTheorems,
        NaturalsInduction, WellFoundedInduction, TLAPS

-----------------------------------------------------------------------------
(* OrderLifecycle *)


(* The tracker and its file only know owners that ordered.                 *)
OwnersInv ==
    \A o \in Orders :
        /\ tracked[o] \in {OwnerOf[o], "strategy", Untracked}
        /\ disk.tracked[o] \in {OwnerOf[o], "strategy", Untracked}

Queued(kind, o) == \E i \in DOMAIN events : events[i] = Event(kind, o)

(* In an uninterrupted session the fill of an open position is in the      *)
(* tracker, in the answer its caller waits for, or in the queue.           *)
FillOf(o) ==
    /\ call[o] = "none" => broker[o] = "none"
    /\ call[o] # "waiting" => answer[o] = "none"
    /\ broker[o] = "sent" => call[o] = "waiting" /\ answer[o] = "none"
    /\ Queued("close", o) => broker[o] = "closed"
    /\ broker[o] = "open" =>
          \/ tracked[o] # Untracked
          \/ call[o] = "waiting" /\ answer[o] = "filled"
          \/ Queued("fill", o)

Undisturbed == up /\ connected /\ dispatching /\ watchdog = "idle"

FillInv == calm => Undisturbed /\ \A o \in Orders : FillOf(o)

OrderInv == TypeOK /\ OwnersInv /\ FillInv

LEMMA EmptyQueue == <<>> \in Seq(Events)
  OBVIOUS

LEMMA EventIsEvent ==
    ASSUME NEW kind \in {"fill", "close"}, NEW o \in Orders
    PROVE  Event(kind, o) \in Events
  BY DEF Event, Events

LEMMA InitInv == Init => OrderInv
<1> SUFFICES ASSUME Init PROVE OrderInv
  OBVIOUS
<1> USE OrderConstants DEF Init
<1>1. events \in Seq(Events)
  BY EmptyQueue
<1>2. /\ connected \in BOOLEAN /\ dispatching \in BOOLEAN
      /\ up \in BOOLEAN /\ calm \in BOOLEAN
  OBVIOUS
<1>3. tracked \in [Orders -> TrackedAs] /\ disk.tracked = tracked
  BY DEF TrackedAs
<1>4. disk \in [tracked : [Orders -> TrackedAs], pending : SUBSET Orders]
  BY <1>3
<1>5. TypeOK
  BY <1>1, <1>2, <1>3, <1>4 DEF TypeOK
<1>6. OwnersInv
  BY <1>3 DEF OwnersInv
<1>7. FillInv
  BY DEF FillInv, FillOf, Undisturbed, Queued
<1> QED
  BY <1>5, <1>6, <1>7 DEF OrderInv

-----------------------------------------------------------------------------
(* Type correctness *)

(* Taking the first event of the queue.                                    *)
LEMMA TakeEvent ==
    ASSUME TypeOK, NEW kind, Handles(kind)
    PROVE  /\ Head(events) \in Events /\ Head(events).pos \in Orders
           /\ events' = Tail(events) /\ events' \in Seq(Events)
<1>1. Head(events) \in Events /\ events' = Tail(events)
      /\ events' \in Seq(Events)
  BY DEF TypeOK, Handles
<1> QED
  BY <1>1 DEF Events

LEMMA OwnerTypes == \A o \in Orders : OwnerOf[o] \in TrackedAs
                                      /\ "strategy" \in TrackedAs
                                      /\ Untracked \in TrackedAs
  BY OrderConstants DEF TrackedAs, Owners

LEMMA NextTypes == TypeOK /\ [Next]_vars => TypeOK'
<1> SUFFICES ASSUME TypeOK, [Next]_vars PROVE TypeOK'
  OBVIOUS
<1> USE DEF TypeOK
<1>1. ASSUME NEW o \in Orders, Send(o) PROVE TypeOK'
  BY <1>1 DEF Send, wire, guard, book
<1>2. ASSUME NEW o \in Orders, Timeout(o) PROVE TypeOK'
  <2>1. calm' \in BOOLEAN
    BY <1>2, Zenon DEF Timeout
  <2> QED
    BY <1>2, <2>1 DEF Timeout, wire, guard, book
<1>3. ASSUME NEW o \in Orders, Resume(o) PROVE TypeOK'
  BY <1>3, OwnerTypes DEF Resume, guard
<1>4. ASSUME NEW o \in Orders, NEW status \in {"filled", "accepted", "rejected"},
             BrokerAnswer(o, status)
      PROVE  TypeOK'
  <2>1. events' \in Seq(Events)
    BY <1>4, EventIsEvent DEF BrokerAnswer, Route
  <2>2. answer' \in [Orders -> {"none", "filled", "accepted", "rejected"}]
    BY <1>4 DEF BrokerAnswer, Route
  <2>3. broker' \in [Orders -> {"none", "sent", "accepted", "open", "closed",
                                "rejected"}]
    <3>1. CASE status = "filled"
      BY <1>4, <3>1 DEF BrokerAnswer
    <3>2. CASE status = "accepted"
      BY <1>4, <3>2 DEF BrokerAnswer
    <3>3. CASE status = "rejected"
      BY <1>4, <3>3 DEF BrokerAnswer
    <3> QED
      BY <3>1, <3>2, <3>3
  <2> QED
    BY <1>4, <2>1, <2>2, <2>3 DEF BrokerAnswer, tasks, guard, book
<1>5. ASSUME NEW o \in Orders, BrokerFill(o) \/ BrokerClose(o) PROVE TypeOK'
  <2>0. Event("fill", o) \in Events /\ Event("close", o) \in Events
    BY EventIsEvent
  <2>1. events' \in Seq(Events)
    <3>1. CASE events' = events
      BY <3>1
    <3>2. CASE \/ events' = Append(events, Event("fill", o))
               \/ events' = Append(events, Event("close", o))
      <4>1. events \in Seq(Events)
        OBVIOUS
      <4> HIDE DEF TypeOK
      <4> QED
        BY <2>0, <3>2, <4>1
    <3> QED
      BY <1>5, <3>1, <3>2 DEF BrokerFill, BrokerClose
  <2> QED
    BY <1>5, <2>1 DEF BrokerFill, BrokerClose, tasks, guard, book
<1>6. CASE HandleFill
  <2>1. Head(events).pos \in Orders /\ events' \in Seq(Events)
    BY <1>6, TakeEvent DEF HandleFill
  <2>2. tracked' \in [Orders -> TrackedAs]
    BY <1>6, <2>1, OwnerTypes DEF HandleFill
  <2> QED
    BY <1>6, <2>1, <2>2 DEF HandleFill, guard
<1>7. CASE HandleClose
  <2>1. Head(events).pos \in Orders /\ events' \in Seq(Events)
    BY <1>7, TakeEvent DEF HandleClose
  <2>2. tracked' \in [Orders -> TrackedAs]
    BY <1>7, <2>1, OwnerTypes DEF HandleClose
  <2>3. disk' \in [tracked : [Orders -> TrackedAs], pending : SUBSET Orders]
    BY <1>7, <2>2 DEF HandleClose
  <2> QED
    BY <1>7, <2>1, <2>2, <2>3 DEF HandleClose, guard
<1>8. CASE WriteState
  BY <1>8 DEF WriteState, wire, tasks, guard, book
<1>9. CASE Disconnect \/ Reconnect
  <2>1. /\ connected' \in BOOLEAN /\ dispatching' \in BOOLEAN
        /\ calm' \in BOOLEAN
    BY <1>9, Zenon DEF Disconnect, Reconnect
  <2>2. events' \in Seq(Events)
    BY <1>9, EmptyQueue DEF Disconnect, Reconnect, CancelFutures
  <2>3. dead' \subseteq Owners
    BY <1>9, OrderConstants DEF Disconnect, Reconnect, CancelFutures, Waiting
  <2>4. call' \in [Orders -> {"none", "waiting", "returned"}]
    BY <1>9 DEF Disconnect, Reconnect, CancelFutures
  <2> QED
    BY <1>9, <2>1, <2>2, <2>3, <2>4 DEF Disconnect, Reconnect, OpenAtBroker,
                                        book
<1>10. CASE ReconcilePositions \/ ReconcileFails
  <2>1. tracked' \in [Orders -> TrackedAs]
    BY <1>10, OwnerTypes DEF ReconcilePositions, ReconcileFails, Reconciled,
                             book
  <2> QED
    BY <1>10, <2>1 DEF ReconcilePositions, ReconcileFails, wire, tasks, book
<1>11. CASE Crash
  <2>1. /\ connected' \in BOOLEAN /\ dispatching' \in BOOLEAN
        /\ calm' \in BOOLEAN /\ up' \in BOOLEAN
    BY <1>11, Zenon DEF Crash
  <2>2. events' \in Seq(Events)
    BY <1>11, EmptyQueue DEF Crash
  <2>3. tracked' \in [Orders -> TrackedAs]
    BY <1>11, OwnerTypes DEF Crash
  <2> QED
    BY <1>11, <2>1, <2>2, <2>3 DEF Crash
<1>12. CASE Startup
  <2>1. /\ connected' \in BOOLEAN /\ dispatching' \in BOOLEAN
        /\ up' \in BOOLEAN
    BY <1>12, Zenon DEF Startup
  <2>2. tracked' \in [Orders -> TrackedAs] /\ pending' \subseteq Orders
    BY <1>12 DEF Startup
  <2>3. disk' \in [tracked : [Orders -> TrackedAs], pending : SUBSET Orders]
    BY <1>12, <2>2 DEF Startup
  <2> QED
    BY <1>12, <2>1, <2>2, <2>3 DEF Startup, tasks, guard
<1>13. CASE UNCHANGED vars
  BY <1>13 DEF vars, wire, tasks, guard, book
<1> QED
  BY <1>1, <1>2, <1>3, <1>4, <1>5, <1>6, <1>7, <1>8, <1>9, <1>10, <1>11,
     <1>12, <1>13 DEF Next

-----------------------------------------------------------------------------
(* Owners *)

LEMMA NextOwners == TypeOK /\ OwnersInv /\ [Next]_vars => OwnersInv'
<1> SUFFICES ASSUME TypeOK, OwnersInv, [Next]_vars, NEW q \in Orders
             PROVE  /\ tracked'[q] \in {OwnerOf[q], "strategy", Untracked}
                    /\ disk'.tracked[q] \in {OwnerOf[q], "strategy", Untracked}
  BY DEF OwnersInv
<1> DEFINE Goal ==
      /\ tracked'[q] \in {OwnerOf[q], "strategy", Untracked}
      /\ disk'.tracked[q] \in {OwnerOf[q], "strategy", Untracked}
<1>0. /\ tracked[q] \in {OwnerOf[q], "strategy", Untracked}
      /\ disk.tracked[q] \in {OwnerOf[q], "strategy", Untracked}
      /\ tracked \in [Orders -> TrackedAs]
      /\ disk \in [tracked : [Orders -> TrackedAs], pending : SUBSET Orders]
  BY DEF OwnersInv, TypeOK
<1>1. CASE tracked' = tracked /\ disk' = disk
  BY <1>0, <1>1
<1>2. ASSUME NEW o \in Orders, Resume(o) PROVE Goal
  BY <1>0, <1>2 DEF Resume
<1>3. CASE HandleFill
  BY <1>0, <1>3 DEF HandleFill
<1>4. CASE HandleClose
  <2>1. tracked'[q] \in {OwnerOf[q], "strategy", Untracked}
    BY <1>0, <1>4 DEF HandleClose
  <2>2. disk' = disk \/ disk'.tracked = tracked'
    BY <1>0, <1>4 DEF HandleClose
  <2> QED
    BY <1>0, <2>1, <2>2
<1>5. CASE WriteState
  BY <1>0, <1>5 DEF WriteState, book
<1>6. CASE ReconcilePositions
  BY <1>0, <1>6 DEF ReconcilePositions, Reconciled
<1>7. CASE Crash
  BY <1>0, <1>7 DEF Crash
<1>8. CASE Startup
  <2>1. RecoveredOwners(q) \subseteq {OwnerOf[q], "strategy", Untracked}
    BY <1>0, ShapesTellOwners DEF RecoveredOwners
  <2>2. tracked'[q] \in {OwnerOf[q], "strategy", Untracked}
    BY <1>8, <2>1 DEF Startup
  <2>3. disk' = disk \/ disk'.tracked = tracked'
    BY <1>8 DEF Startup
  <2> QED
    BY <1>0, <2>2, <2>3
<1>9. ASSUME NEW o \in Orders,
             \/ Send(o) \/ Timeout(o) \/ BrokerFill(o) \/ BrokerClose(o)
             \/ \E status \in {"filled", "accepted", "rejected"} :
                   BrokerAnswer(o, status)
      PROVE  tracked' = tracked /\ disk' = disk
  BY <1>9 DEF Send, Timeout, BrokerFill, BrokerClose, BrokerAnswer, book
<1>10. CASE Disconnect \/ Reconnect \/ ReconcileFails \/ UNCHANGED vars
  BY <1>1, <1>10 DEF Disconnect, Reconnect, ReconcileFails, vars, book
<1> QED
  BY <1>1, <1>2, <1>3, <1>4, <1>5, <1>6, <1>7, <1>8, <1>9, <1>10 DEF Next

-----------------------------------------------------------------------------
(* Uninterrupted sessions *)

(* What an added event, and the event taken, mean for the queue.           *)
LEMMA QueueGrows ==
    ASSUME TypeOK, NEW e \in Events, events' = Append(events, e)
    PROVE  /\ \A kind, o : Queued(kind, o)' <=> Queued(kind, o)
                                                \/ e = Event(kind, o)
<1>1. /\ events \in Seq(Events) /\ Len(events) \in Nat
      /\ DOMAIN events = 1..Len(events)
      /\ DOMAIN events' = 1..(Len(events) + 1)
      /\ events'[Len(events) + 1] = e
      /\ \A i \in 1..Len(events) : events'[i] = events[i]
  BY DEF TypeOK
<1> QED
  BY <1>1 DEF Queued

LEMMA QueueShrinks ==
    ASSUME TypeOK, NEW k, Handles(k)
    PROVE  /\ \A kind, o : Queued(kind, o)' => Queued(kind, o)
           /\ \A kind, o : Queued(kind, o) /\ Head(events) # Event(kind, o)
                              => Queued(kind, o)'
<1>1. /\ events \in Seq(Events) /\ events # <<>> /\ events' = Tail(events)
  BY DEF TypeOK, Handles
<1>2. /\ Len(events) \in Nat \ {0}
      /\ DOMAIN events = 1..Len(events)
      /\ DOMAIN events' = 1..(Len(events) - 1)
      /\ Head(events) = events[1]
      /\ \A i \in 1..(Len(events) - 1) : events'[i] = events[i + 1]
  BY <1>1
<1>3. ASSUME NEW kind, NEW o, Queued(kind, o)' PROVE Queued(kind, o)
  BY <1>2, <1>3 DEF Queued, Event
<1>4. ASSUME NEW kind, NEW o, Queued(kind, o), Head(events) # Event(kind, o)
      PROVE  Queued(kind, o)'
  <2>1. PICK i \in 1..Len(events) : events[i] = Event(kind, o)
    BY <1>2, <1>4 DEF Queued
  <2>2. i # 1 /\ i - 1 \in 1..(Len(events) - 1)
    BY <1>2, <1>4, <2>1
  <2>3. events'[i - 1] = Event(kind, o)'
    BY <1>2, <2>1, <2>2 DEF Event
  <2> QED
    BY <1>2, <2>2, <2>3 DEF Queued
<1> QED
  BY <1>3, <1>4

LEMMA HeadIsQueued ==
    ASSUME TypeOK, NEW k \in {"fill", "close"}, Handles(k)
    PROVE  Head(events).pos \in Orders /\ Queued(k, Head(events).pos)
<1>1. events \in Seq(Events) /\ events # <<>> /\ Head(events) \in Events
      /\ Head(events).kind = k
  BY TakeEvent DEF TypeOK, Handles
<1>2. 1 \in DOMAIN events /\ Head(events) = events[1]
  BY <1>1
<1>3. Head(events) = Event(k, Head(events).pos)
  BY <1>1 DEF Event, Events
<1> QED
  BY <1>1, <1>2, <1>3 DEF Queued, Events

LEMMA NextFill == TypeOK /\ FillInv /\ [Next]_vars => FillInv'
<1> SUFFICES ASSUME TypeOK, FillInv, [Next]_vars, calm'
             PROVE  Undisturbed' /\ \A q \in Orders : FillOf(q)'
  BY DEF FillInv
<1> DEFINE Goal == Undisturbed' /\ \A q \in Orders : FillOf(q)'
<1>0. calm => Undisturbed /\ \A q \in Orders : FillOf(q)
  BY DEF FillInv
<1>t. /\ broker \in [Orders -> {"none", "sent", "accepted", "open", "closed",
                                "rejected"}]
      /\ call \in [Orders -> {"none", "waiting", "returned"}]
      /\ answer \in [Orders -> {"none", "filled", "accepted", "rejected"}]
      /\ tracked \in [Orders -> TrackedAs]
  BY DEF TypeOK
<1>q. events' = events => \A kind, o : Queued(kind, o)' <=> Queued(kind, o)
  BY DEF Queued, Event
(* The order q is left alone.                                              *)
<1>a. ASSUME NEW q \in Orders, FillOf(q),
             broker'[q] = broker[q], call'[q] = call[q],
             answer'[q] = answer[q],
             tracked[q] # Untracked => tracked'[q] # Untracked,
             Queued("fill", q) =>
                 Queued("fill", q)' \/ tracked'[q] # Untracked,
             Queued("close", q)' => Queued("close", q)
      PROVE  FillOf(q)'
  BY <1>a DEF FillOf
<1>1. ASSUME NEW o \in Orders, Send(o) PROVE Goal
  <2>1. calm /\ Undisturbed'
    BY <1>0, <1>1 DEF Send, wire, guard, Undisturbed
  <2>2. ASSUME NEW q \in Orders PROVE FillOf(q)'
    <3>1. CASE q = o
      BY <1>0, <1>1, <1>q, <1>t, <2>1, <3>1 DEF Send, wire, book, FillOf
    <3>2. CASE q # o
      BY <1>0, <1>1, <1>a, <1>q, <1>t, <2>1, <3>2 DEF Send, wire, book
    <3> QED
      BY <3>1, <3>2
  <2> QED
    BY <2>1, <2>2
<1>2. ASSUME NEW o \in Orders, Timeout(o) PROVE Goal
  BY <1>2 DEF Timeout
<1>3. ASSUME NEW o \in Orders, Resume(o) PROVE Goal
  <2>1. calm /\ Undisturbed'
    BY <1>0, <1>3 DEF Resume, guard, Undisturbed
  <2>2. ASSUME NEW q \in Orders PROVE FillOf(q)'
    <3>0. OwnerOf[o] # Untracked
      BY OrderConstants DEF Owners, Untracked
    <3>1. CASE q = o
      BY <1>0, <1>3, <1>q, <1>t, <2>1, <3>0, <3>1 DEF Resume, FillOf
    <3>2. CASE q # o
      BY <1>0, <1>3, <1>a, <1>q, <1>t, <2>1, <3>2 DEF Resume
    <3> QED
      BY <3>1, <3>2
  <2> QED
    BY <2>1, <2>2
<1>4. ASSUME NEW o \in Orders, BrokerAnswer(o, "filled")
                               \/ BrokerAnswer(o, "accepted")
                               \/ BrokerAnswer(o, "rejected")
      PROVE  Goal
  <2>1. calm /\ Undisturbed' /\ connected
    BY <1>0, <1>4 DEF BrokerAnswer, guard, Undisturbed
  <2>2. broker[o] = "sent" /\ o \in Waiting
    BY <1>0, <1>4, <2>1 DEF BrokerAnswer, FillOf, Waiting
  <2>3. /\ events' = events /\ call' = call /\ tracked' = tracked
    BY <1>4, <2>1, <2>2 DEF BrokerAnswer, Route, tasks, book
  <2>4. \E status \in {"filled", "accepted", "rejected"} :
          /\ answer' = [answer EXCEPT ![o] = status]
          /\ broker' = [broker EXCEPT ![o] =
                          CASE status = "filled"   -> "open"
                            [] status = "accepted" -> "accepted"
                            [] status = "rejected" -> "rejected"]
    BY <1>4, <2>1, <2>2 DEF BrokerAnswer, Route
  <2>5. PICK status \in {"filled", "accepted", "rejected"} :
          /\ answer' = [answer EXCEPT ![o] = status]
          /\ broker'[o] \in {"open", "accepted", "rejected"}
          /\ broker'[o] = "open" => status = "filled"
          /\ \A q \in Orders : q # o => broker'[q] = broker[q]
    BY <1>t, <2>4
  <2>6. ASSUME NEW q \in Orders PROVE FillOf(q)'
    <3>1. CASE q = o
      <4>1. ~Queued("close", o)
        BY <1>0, <2>1, <2>2 DEF FillOf
      <4>2. ~Queued("close", o)'
        BY <1>q, <2>3, <4>1
      <4> QED
        BY <1>t, <2>2, <2>3, <2>5, <3>1, <4>2 DEF FillOf, Waiting
    <3>2. CASE q # o
      BY <1>0, <1>a, <1>q, <1>t, <2>1, <2>3, <2>5, <3>2
    <3> QED
      BY <3>1, <3>2
  <2> QED
    BY <2>1, <2>6
<1>5. ASSUME NEW o \in Orders, BrokerFill(o) \/ BrokerClose(o) PROVE Goal
  <2>1. /\ calm /\ Undisturbed' /\ connected
        /\ call' = call /\ answer' = answer /\ tracked' = tracked
    BY <1>0, <1>5 DEF BrokerFill, BrokerClose, guard, tasks, book, Undisturbed
  <2>2. PICK k \in {"fill", "close"} :
          /\ events' = Append(events, Event(k, o))
          /\ k = "fill" => broker[o] = "accepted" /\ broker'[o] = "open"
          /\ k = "close" => broker[o] = "open" /\ broker'[o] = "closed"
          /\ \A q \in Orders : q # o => broker'[q] = broker[q]
    BY <1>5, <1>t, <2>1 DEF BrokerFill, BrokerClose
  <2>3. \A kind, q : Queued(kind, q)' <=> Queued(kind, q)
                                         \/ Event(k, o) = Event(kind, q)
    BY <2>2, QueueGrows, EventIsEvent
  <2>4. \A kind, q : Event(k, o) = Event(kind, q) <=> k = kind /\ o = q
    BY DEF Event
  <2>5. ASSUME NEW q \in Orders PROVE FillOf(q)'
    <3>1. CASE q = o
      BY <1>0, <2>1, <2>2, <2>3, <2>4, <3>1 DEF FillOf
    <3>2. CASE q # o
      BY <1>0, <1>a, <2>1, <2>2, <2>3, <2>4, <3>2
    <3> QED
      BY <3>1, <3>2
  <2> QED
    BY <2>1, <2>5
<1>6. CASE HandleFill \/ HandleClose
  <2>1. /\ calm /\ Undisturbed'
        /\ call' = call /\ answer' = answer /\ broker' = broker
    BY <1>0, <1>6 DEF HandleFill, HandleClose, Handles, guard, Undisturbed
  <2>2. PICK k \in {"fill", "close"} : Handles(k) /\ Head(events).kind = k
    BY <1>6 DEF HandleFill, HandleClose, Handles
  <2>3. Head(events) \in Events
    BY <2>2, TakeEvent
  <2>4. \A kind, q : Head(events) = Event(kind, q)
                      <=> Head(events).kind = kind /\ Head(events).pos = q
    BY <2>3 DEF Event, Events
  <2>5. ASSUME NEW q \in Orders, Head(events).pos # q PROVE FillOf(q)'
    <3>1. tracked'[q] = tracked[q]
      BY <1>6, <1>t, <2>5 DEF HandleFill, HandleClose
    <3> QED
      BY <1>0, <1>a, <2>1, <2>2, <2>4, <2>5, <3>1, QueueShrinks
  <2>6. ASSUME NEW q \in Orders, Head(events).pos = q PROVE FillOf(q)'
    <3>1. CASE HandleFill
      <4>1. tracked'[q] # Untracked
        <5>1. OwnerOf[q] # Untracked /\ "strategy" # Untracked
          BY OrderConstants DEF Owners, Untracked
        <5> QED
          BY <1>t, <2>6, <3>1, <5>1 DEF HandleFill
      <4> QED
        BY <1>0, <1>a, <2>1, <2>2, <4>1, QueueShrinks
    <3>2. CASE HandleClose
      <4>1. Head(events) = Event("close", q)
        BY <2>4, <2>6, <3>2 DEF HandleClose, Handles
      <4>2. Queued("close", q)
        <5>1. events \in Seq(Events) /\ events # <<>>
          BY <3>2 DEF TypeOK, HandleClose, Handles
        <5>2. 1 \in DOMAIN events /\ Head(events) = events[1]
          BY <5>1
        <5> QED
          BY <4>1, <5>2 DEF Queued
      <4>3. broker[q] = "closed"
        BY <1>0, <2>1, <4>2 DEF FillOf
      <4> QED
        BY <1>0, <2>1, <4>3 DEF FillOf
    <3> QED
      BY <1>6, <3>1, <3>2
  <2> QED
    BY <2>1, <2>5, <2>6
<1>7. CASE WriteState \/ UNCHANGED vars
  <2>1. /\ calm /\ Undisturbed' /\ events' = events
        /\ call' = call /\ answer' = answer /\ broker' = broker
        /\ tracked' = tracked
    <3>1. CASE WriteState
      BY <1>0, <3>1 DEF WriteState, wire, tasks, guard, book, Undisturbed
    <3>2. CASE UNCHANGED vars
      BY <1>0, <3>2 DEF vars, wire, tasks, guard, book, Undisturbed
    <3> QED
      BY <1>7, <3>1, <3>2
  <2> QED
    BY <1>0, <1>a, <1>q, <2>1
<1>8. CASE Disconnect \/ Reconnect \/ Crash
  BY <1>8 DEF Disconnect, Reconnect, Crash
<1>9. CASE ReconcilePositions \/ ReconcileFails \/ Startup
  BY <1>0, <1>9
  DEF ReconcilePositions, ReconcileFails, Startup, Undisturbed
<1> QED
  BY <1>1, <1>2, <1>3, <1>4, <1>5, <1>6, <1>7, <1>8, <1>9 DEF Next

-----------------------------------------------------------------------------
(* The position book *)

Opened(o) == broker[o] \in {"open", "closed"}

(* A message, an answer or a snapshot names a position only once it was    *)
(* open; its close is announced only when it is closed; and the broker     *)
(* knows of no order before it is sent.                                    *)
TellsOf(o) ==
    /\ call[o] = "none" => broker[o] = "none"
    /\ Queued("fill", o) => Opened(o)
    /\ Queued("close", o) => broker[o] = "closed"
    /\ answer[o] = "filled" => Opened(o)
    /\ o \in snapshot => Opened(o)

TellsInv ==
    /\ watchdog = "reconciling" => ~calm
    /\ \A o \in Orders : TellsOf(o)

LEMMA InitTells == Init => TellsInv
  BY DEF Init, TellsInv, TellsOf, Queued

LEMMA NextTells == TypeOK /\ TellsInv /\ [Next]_vars => TellsInv'
<1> SUFFICES ASSUME TypeOK, TellsInv, [Next]_vars PROVE TellsInv'
  OBVIOUS
<1>0. /\ watchdog = "reconciling" => ~calm
      /\ \A q \in Orders : TellsOf(q)
  BY DEF TellsInv
<1>t. /\ broker \in [Orders -> {"none", "sent", "accepted", "open", "closed",
                                "rejected"}]
      /\ call \in [Orders -> {"none", "waiting", "returned"}]
      /\ answer \in [Orders -> {"none", "filled", "accepted", "rejected"}]
  BY DEF TypeOK
<1>q. events' = events => \A kind, o : Queued(kind, o)' <=> Queued(kind, o)
  BY DEF Queued, Event
<1>e. events' = <<>> => \A kind, o : ~Queued(kind, o)'
  BY DEF Queued
(* A step that tells nothing new, and opens or closes what it tells of.    *)
<1>a. ASSUME watchdog' = "reconciling" => ~calm',
             \A q \in Orders :
                /\ call'[q] = "none" => call[q] = "none" /\ broker'[q] = broker[q]
                /\ Opened(q) => Opened(q)'
                /\ broker[q] = "closed" => broker'[q] = "closed"
                /\ Queued("fill", q)' => Queued("fill", q) \/ Opened(q)'
                /\ Queued("close", q)' =>
                       Queued("close", q) \/ broker'[q] = "closed"
                /\ answer'[q] = "filled" => answer[q] = "filled" \/ Opened(q)'
                /\ q \in snapshot' => q \in snapshot \/ Opened(q)'
      PROVE  TellsInv'
  BY <1>0, <1>a DEF TellsInv, TellsOf
<1>1. ASSUME NEW o \in Orders, Send(o) PROVE TellsInv'
  <2>1. /\ watchdog' = watchdog /\ snapshot' = snapshot /\ calm' = calm
        /\ events' = events /\ answer' = answer
        /\ call[o] = "none" /\ broker[o] = "none"
    BY <1>0, <1>1 DEF Send, wire, guard, TellsOf
  <2>2. /\ \A q \in Orders : q # o => broker'[q] = broker[q] /\ call'[q] = call[q]
        /\ call'[o] = "waiting"
    BY <1>1, <1>t DEF Send
  <2> QED
    BY <1>0, <1>a, <1>q, <2>1, <2>2 DEF Opened
<1>2. ASSUME NEW o \in Orders, Timeout(o) \/ Resume(o) PROVE TellsInv'
  <2>1. /\ watchdog' = watchdog /\ snapshot' = snapshot /\ broker' = broker
        /\ events' = events
    BY <1>2 DEF Timeout, Resume, wire, guard
  <2>2. \A q \in Orders : /\ call'[q] = "none" => call[q] = "none"
                          /\ answer'[q] = "filled" => answer[q] = "filled"
    BY <1>2, <1>t DEF Timeout, Resume, wire
  <2>3. watchdog' = "reconciling" => ~calm'
    BY <1>0, <1>2, <2>1 DEF Timeout, Resume
  <2> QED
    BY <1>a, <1>q, <2>1, <2>2, <2>3 DEF Opened
<1>3. ASSUME NEW o \in Orders, NEW status \in {"filled", "accepted", "rejected"},
             BrokerAnswer(o, status)
      PROVE  TellsInv'
  <2>1. /\ watchdog' = watchdog /\ snapshot' = snapshot /\ calm' = calm
        /\ call' = call /\ broker[o] = "sent"
    BY <1>3 DEF BrokerAnswer, guard, tasks
  <2>2. /\ \A q \in Orders : q # o => broker'[q] = broker[q]
        /\ status = "filled" => broker'[o] = "open"
    BY <1>3, <1>t DEF BrokerAnswer
  <2>3. \A q \in Orders : answer'[q] = "filled" =>
           answer[q] = "filled" \/ (q = o /\ status = "filled")
    <3>1. answer' = answer \/ answer' = [answer EXCEPT ![o] = status]
      BY <1>3 DEF BrokerAnswer, Route
    <3> QED
      BY <1>t, <3>1
  <2>4. \/ events' = events
        \/ status = "filled" /\ events' = Append(events, Event("fill", o))
    BY <1>3 DEF BrokerAnswer, Route
  <2>5. \A q \in Orders : /\ Queued("close", q)' => Queued("close", q)
                          /\ Queued("fill", q)' => \/ Queued("fill", q)
                                                   \/ (q = o /\ status = "filled")
    <3>1. CASE events' = events
      BY <1>q, <3>1
    <3>2. CASE status = "filled" /\ events' = Append(events, Event("fill", o))
      <4>1. \A kind, q : Queued(kind, q)' <=> Queued(kind, q)
                                     \/ Event("fill", o) = Event(kind, q)
        BY <3>2, QueueGrows, EventIsEvent
      <4> QED
        BY <3>2, <4>1 DEF Event
    <3> QED
      BY <2>4, <3>1, <3>2
  <2>6. call[o] # "none"
    BY <1>0, <2>1 DEF TellsOf
  <2> QED
    BY <1>0, <1>a, <2>1, <2>2, <2>3, <2>5, <2>6 DEF Opened
<1>4. ASSUME NEW o \in Orders, BrokerFill(o) \/ BrokerClose(o) PROVE TellsInv'
  <2>1. /\ watchdog' = watchdog /\ snapshot' = snapshot /\ calm' = calm
        /\ call' = call /\ answer' = answer
    BY <1>4 DEF BrokerFill, BrokerClose, guard, tasks
  <2>2. PICK k \in {"fill", "close"} :
          /\ events' \in {events, Append(events, Event(k, o))}
          /\ k = "fill" => broker[o] = "accepted" /\ broker'[o] = "open"
          /\ k = "close" => broker[o] = "open" /\ broker'[o] = "closed"
          /\ \A q \in Orders : q # o => broker'[q] = broker[q]
    BY <1>4, <1>t DEF BrokerFill, BrokerClose
  <2>3. \A q \in Orders : /\ Queued("fill", q)' => \/ Queued("fill", q)
                                                   \/ q = o /\ k = "fill"
                          /\ Queued("close", q)' => \/ Queued("close", q)
                                                    \/ q = o /\ k = "close"
    <3>1. CASE events' = events
      BY <1>q, <3>1
    <3>2. CASE events' = Append(events, Event(k, o))
      <4>1. \A kind, q : Queued(kind, q)' <=> Queued(kind, q)
                                     \/ Event(k, o) = Event(kind, q)
        BY <3>2, QueueGrows, EventIsEvent
      <4> QED
        BY <4>1 DEF Event
    <3> QED
      BY <2>2, <3>1, <3>2
  <2>4. call[o] # "none"
    BY <1>0, <2>2 DEF TellsOf
  <2> QED
    BY <1>0, <1>a, <2>1, <2>2, <2>3, <2>4 DEF Opened
<1>5. CASE HandleFill \/ HandleClose
  <2>1. /\ watchdog' = watchdog /\ snapshot' = snapshot /\ calm' = calm
        /\ call' = call /\ answer' = answer /\ broker' = broker
    BY <1>5 DEF HandleFill, HandleClose, guard
  <2>2. \A kind, q : Queued(kind, q)' => Queued(kind, q)
    BY <1>5, QueueShrinks DEF HandleFill, HandleClose
  <2> QED
    BY <1>0, <1>a, <2>1, <2>2 DEF Opened
<1>6. CASE WriteState \/ UNCHANGED vars
  <2>1. /\ watchdog' = watchdog /\ snapshot' = snapshot /\ calm' = calm
        /\ call' = call /\ answer' = answer /\ broker' = broker
        /\ events' = events
    BY <1>6 DEF WriteState, vars, wire, tasks, guard
  <2> QED
    BY <1>0, <1>a, <1>q, <2>1 DEF Opened
<1>7. CASE Disconnect \/ Reconnect
  <2>1. /\ ~calm' /\ broker' = broker /\ answer' = answer /\ events' = <<>>
        /\ \A q \in Orders : call'[q] = "none" => call[q] = "none"
        /\ snapshot' = snapshot \/ snapshot' = OpenAtBroker
    BY <1>7 DEF Disconnect, Reconnect, CancelFutures, Waiting
  <2> QED
    BY <1>a, <1>e, <2>1 DEF Opened, OpenAtBroker
<1>8. CASE ReconcilePositions \/ ReconcileFails
  <2>1. /\ watchdog' = "idle" /\ snapshot' = {}
        /\ call' = call /\ answer' = answer /\ broker' = broker
        /\ events' = events
    BY <1>8 DEF ReconcilePositions, ReconcileFails, wire, tasks
  <2> QED
    BY <1>a, <1>q, <2>1 DEF Opened
<1>9. CASE Crash
  <2>1. /\ watchdog' = "idle" /\ snapshot' = {} /\ broker' = broker
        /\ events' = <<>>
        /\ \A q \in Orders : /\ answer'[q] = "none"
                             /\ call'[q] = "none" => call[q] = "none"
    BY <1>9 DEF Crash
  <2> QED
    BY <1>a, <1>e, <2>1 DEF Opened
<1>10. CASE Startup
  <2>1. /\ watchdog' = watchdog /\ snapshot' = snapshot /\ calm' = calm
        /\ call' = call /\ answer' = answer /\ broker' = broker
        /\ events' = events
    BY <1>10 DEF Startup, tasks, guard
  <2> QED
    BY <1>0, <1>a, <1>q, <2>1 DEF Opened
<1> QED
  BY <1>1, <1>2, <1>3, <1>4, <1>5, <1>6, <1>7, <1>8, <1>9, <1>10 DEF Next

-----------------------------------------------------------------------------
(* Theorems *)

(* OrderInv is an invariant, for any orders, crashes and reconnects.       *)
THEOREM OrderInvariant == Spec => []OrderInv
<1>1. OrderInv /\ [Next]_vars => OrderInv'
  BY NextTypes, NextOwners, NextFill DEF OrderInv
<1> QED
  BY <1>1, InitInv, PTL DEF Spec

(* Every variable of an order's life keeps its type.                       *)
THEOREM OrderTypes == Spec => []TypeOK
<1>1. OrderInv => TypeOK
  BY DEF OrderInv
<1> QED
  BY <1>1, OrderInvariant, PTL

(* However answers, events, reconciles and restarts interleave, the        *)
(* tracker shows a position under its own owner or under the default.      *)
THEOREM OwnersAreNeverInvented == Spec => []OwnerNeverInvented
<1>1. OrderInv => OwnerNeverInvented
  BY DEF OrderInv, OwnersInv, OwnerNeverInvented
<1> QED
  BY <1>1, OrderInvariant, PTL

(* In an uninterrupted session no fill is lost on its way to the tracker.  *)
THEOREM NoFillIsLost == Spec => []SteadyTracking
<1>1. OrderInv => SteadyTracking
  BY DEF OrderInv, FillInv, FillOf, Queued, SteadyTracking, OpenAtBroker,
         Tracked
<1> QED
  BY <1>1, OrderInvariant, PTL

(* The book keeps its promises: for any orders and owners, every step of   *)
(* the tracker is a step of PositionBook or changes nothing it can see.    *)
LEMMA BookStarts == Init => Book!BookInit
<1> SUFFICES ASSUME Init PROVE Book!BookInit
  OBVIOUS
<1>1. [o \in Orders |-> Life(o)] = [o \in Orders |-> "none"]
  BY DEF Init, Life
<1> QED
  BY <1>1 DEF Init, Book!BookInit, Book!Nobody, Untracked

LEMMA LifeStays ==
    ASSUME \A q \in Orders : Life(q)' = Life(q)
    PROVE  [o \in Orders |-> Life(o)]' = [o \in Orders |-> Life(o)]
  OBVIOUS

LEMMA LifeMoves ==
    ASSUME NEW o \in Orders, NEW to, Life(o)' = to,
           \A q \in Orders : q # o => broker'[q] = broker[q]
    PROVE  [q \in Orders |-> Life(q)]'
              = [[q \in Orders |-> Life(q)] EXCEPT ![o] = to]
  BY DEF Life

LEMMA BookSteps ==
    OrderInv /\ TellsInv /\ [Next]_vars => [Book!BookNext]_(Book!bookVars)
<1> SUFFICES ASSUME OrderInv, TellsInv, [Next]_vars
             PROVE  \/ Book!BookNext
                    \/ /\ [o \in Orders |-> Life(o)]' = [o \in Orders |-> Life(o)]
                       /\ UNCHANGED << tracked, up, calm >>
  BY DEF Book!bookVars
<1> DEFINE Stutters == /\ [o \in Orders |-> Life(o)]' = [o \in Orders |-> Life(o)]
                       /\ UNCHANGED << tracked, up, calm >>
           Goal == Book!BookNext \/ Stutters
<1>0. /\ watchdog = "reconciling" => ~calm
      /\ \A q \in Orders : TellsOf(q)
      /\ \A q \in Orders : tracked[q] \in {OwnerOf[q], "strategy", Untracked}
  BY DEF OrderInv, OwnersInv, TellsInv
<1>t. /\ broker \in [Orders -> {"none", "sent", "accepted", "open", "closed",
                                "rejected"}]
      /\ tracked \in [Orders -> TrackedAs]
  BY DEF OrderInv, TypeOK
<1>u. TypeOK /\ TypeOK'
  BY NextTypes DEF OrderInv
<1>s. broker' = broker => [o \in Orders |-> Life(o)]' = [o \in Orders |-> Life(o)]
  BY DEF Life
<1>1. ASSUME NEW o \in Orders, Send(o) PROVE Goal
  <2>1. broker[o] = "none" /\ UNCHANGED << tracked, up, calm >> /\ up
    BY <1>0, <1>1 DEF Send, book, TellsOf
  <2>2. /\ \A q \in Orders : q # o => broker'[q] = broker[q]
        /\ Life(o)' = "ordered" /\ Life(o) = "none"
    BY <1>1, <1>t, <2>1 DEF Send, Life
  <2>3. [q \in Orders |-> Life(q)]'
           = [[q \in Orders |-> Life(q)] EXCEPT ![o] = "ordered"]
    BY <2>2, LifeMoves
  <2> QED
    BY <2>1, <2>2, <2>3 DEF Book!BookNext, Book!Order, Book!Becomes
<1>2. ASSUME NEW o \in Orders, Timeout(o) PROVE Goal
  <2>1. /\ UNCHANGED << tracked, up >> /\ up /\ calm' = FALSE
        /\ broker' = broker
    BY <1>2 DEF Timeout, book
  <2>2. CASE calm
    BY <1>s, <2>1, <2>2 DEF Book!BookNext, Book!Disturb
  <2>3. CASE ~calm
    <3>1. calm' = calm
      BY <1>u, <2>1, <2>3, Zenon DEF TypeOK
    <3> QED
      BY <1>s, <2>1, <3>1
  <2> QED
    BY <2>2, <2>3
<1>3. ASSUME NEW o \in Orders, Resume(o) PROVE Goal
  <2>1. /\ UNCHANGED << up, calm >> /\ up /\ broker' = broker
        /\ \/ tracked' = tracked
           \/ answer[o] = "filled" /\ tracked' = [tracked EXCEPT ![o] = OwnerOf[o]]
    BY <1>3 DEF Resume
  <2>2. CASE tracked' = tracked
    BY <1>s, <2>1, <2>2
  <2>3. CASE answer[o] = "filled" /\ tracked' = [tracked EXCEPT ![o] = OwnerOf[o]]
    <3>1. Life(o) \in {"open", "closed"}
      BY <1>0, <2>3 DEF TellsOf, Opened, Life
    <3>2. Book!Track(o)
      BY <1>s, <2>1, <2>3, <3>1 DEF Book!Track, Book!WasOpened
    <3> QED
      BY <3>2 DEF Book!BookNext
  <2> QED
    BY <2>1, <2>2, <2>3
<1>4. ASSUME NEW o \in Orders, NEW status \in {"filled", "accepted", "rejected"},
             BrokerAnswer(o, status)
      PROVE  Goal
  <2>1. /\ UNCHANGED << tracked, up, calm >> /\ broker[o] = "sent"
        /\ \A q \in Orders : q # o => broker'[q] = broker[q]
    BY <1>4, <1>t DEF BrokerAnswer, book
  <2>2. Life(o) = "ordered"
    BY <2>1 DEF Life
  <2>3. CASE status = "filled"
    <3>1. Life(o)' = "open"
      BY <1>4, <1>t, <2>3 DEF BrokerAnswer, Life
    <3>2. [q \in Orders |-> Life(q)]'
             = [[q \in Orders |-> Life(q)] EXCEPT ![o] = "open"]
      BY <2>1, <3>1, LifeMoves
    <3> QED
      BY <2>1, <2>2, <3>2 DEF Book!BookNext, Book!Fill, Book!Becomes
  <2>4. CASE status = "accepted"
    <3>1. \A q \in Orders : Life(q)' = Life(q)
      BY <1>4, <1>t, <2>1, <2>2, <2>4 DEF BrokerAnswer, Life
    <3> QED
      BY <2>1, <3>1, LifeStays
  <2>5. CASE status = "rejected"
    <3>1. Life(o)' = "rejected"
      BY <1>4, <1>t, <2>5 DEF BrokerAnswer, Life
    <3>2. [q \in Orders |-> Life(q)]'
             = [[q \in Orders |-> Life(q)] EXCEPT ![o] = "rejected"]
      BY <2>1, <3>1, LifeMoves
    <3> QED
      BY <2>1, <2>2, <3>2 DEF Book!BookNext, Book!Reject, Book!Becomes
  <2> QED
    BY <2>3, <2>4, <2>5
<1>5. ASSUME NEW o \in Orders, BrokerFill(o) PROVE Goal
  <2>1. /\ UNCHANGED << tracked, up, calm >>
        /\ \A q \in Orders : q # o => broker'[q] = broker[q]
        /\ Life(o)' = "open" /\ Life(o) = "ordered"
    BY <1>5, <1>t DEF BrokerFill, book, Life
  <2>2. [q \in Orders |-> Life(q)]'
           = [[q \in Orders |-> Life(q)] EXCEPT ![o] = "open"]
    BY <2>1, LifeMoves
  <2> QED
    BY <2>1, <2>2 DEF Book!BookNext, Book!Fill, Book!Becomes
<1>6. ASSUME NEW o \in Orders, BrokerClose(o) PROVE Goal
  <2>1. /\ UNCHANGED << tracked, up, calm >>
        /\ \A q \in Orders : q # o => broker'[q] = broker[q]
        /\ Life(o)' = "closed" /\ Life(o) = "open"
    BY <1>6, <1>t DEF BrokerClose, book, Life
  <2>2. [q \in Orders |-> Life(q)]'
           = [[q \in Orders |-> Life(q)] EXCEPT ![o] = "closed"]
    BY <2>1, LifeMoves
  <2> QED
    BY <2>1, <2>2 DEF Book!BookNext, Book!Close, Book!Becomes
<1>7. CASE HandleFill
  <2> DEFINE o == Head(events).pos
  <2>1. /\ UNCHANGED << up, calm >> /\ up /\ broker' = broker
        /\ tracked' = [tracked EXCEPT ![o] =
                         IF o \in pending THEN OwnerOf[o]
                         ELSE IF @ = Untracked THEN "strategy" ELSE @]
    BY <1>7 DEF HandleFill, Handles
  <2>2. o \in Orders /\ Queued("fill", o)
    BY <1>7, <1>u, HeadIsQueued DEF HandleFill
  <2>3. Life(o) \in {"open", "closed"}
    BY <1>0, <2>2 DEF TellsOf, Opened, Life
  <2> HIDE DEF o
  <2>4. CASE o \in pending
    <3>1. Book!Track(o)
      BY <1>s, <2>1, <2>2, <2>3, <2>4 DEF Book!Track, Book!WasOpened
    <3> QED
      BY <2>2, <3>1 DEF Book!BookNext
  <2>5. CASE o \notin pending /\ tracked[o] = Untracked
    <3>1. Book!Track(o)
      BY <1>s, <2>1, <2>2, <2>3, <2>5
      DEF Book!Track, Book!WasOpened, Book!Nobody, Book!Default, Untracked
    <3> QED
      BY <2>2, <3>1 DEF Book!BookNext
  <2>6. CASE o \notin pending /\ tracked[o] # Untracked
    <3>1. tracked' = tracked
      BY <1>t, <2>1, <2>6
    <3> QED
      BY <1>s, <2>1, <3>1
  <2> QED
    BY <2>4, <2>5, <2>6
<1>8. CASE HandleClose
  <2> DEFINE o == Head(events).pos
  <2>1. /\ UNCHANGED << up, calm >> /\ up /\ broker' = broker
        /\ tracked' = [tracked EXCEPT ![o] = Untracked]
    BY <1>8 DEF HandleClose, Handles
  <2>2. o \in Orders /\ Queued("close", o)
    BY <1>8, <1>u, HeadIsQueued DEF HandleClose
  <2>3. Life(o) = "closed"
    BY <1>0, <2>2 DEF TellsOf, Life
  <2> HIDE DEF o
  <2>4. Book!Drop(o)
    BY <1>s, <2>1, <2>2, <2>3 DEF Book!Drop, Book!Nobody, Untracked
  <2> QED
    BY <2>2, <2>4 DEF Book!BookNext
<1>9. CASE WriteState \/ ReconcileFails \/ UNCHANGED vars
  BY <1>9, <1>s DEF WriteState, ReconcileFails, vars, book
<1>10. CASE Disconnect \/ Reconnect
  <2>1. /\ UNCHANGED << tracked, up >> /\ up /\ calm' = FALSE
        /\ broker' = broker
    BY <1>10 DEF Disconnect, Reconnect, book
  <2>2. CASE calm
    BY <1>s, <2>1, <2>2 DEF Book!BookNext, Book!Disturb
  <2>3. CASE ~calm
    <3>1. calm' = calm
      BY <1>u, <2>1, <2>3, Zenon DEF TypeOK
    <3> QED
      BY <1>s, <2>1, <3>1
  <2> QED
    BY <2>2, <2>3
<1>11. CASE ReconcilePositions
  <2>1. /\ UNCHANGED << up, calm >> /\ up /\ ~calm /\ broker' = broker
        /\ tracked' = [o \in Orders |-> Reconciled(o)]
    BY <1>0, <1>11 DEF ReconcilePositions
  <2>2. ASSUME NEW o \in Orders PROVE tracked'[o] \in Book!Kept(o)
    <3>1. o \in snapshot => Life(o) \in {"open", "closed"}
      BY <1>0 DEF TellsOf, Opened, Life
    <3> QED
      BY <2>1, <2>2, <3>1
      DEF Reconciled, Book!Kept, Book!WasOpened, Book!Nobody, Book!Default,
          Untracked
  <2>3. tracked' \in [Orders -> UNION {Book!Kept(o) : o \in Orders}]
    BY <2>1, <2>2
  <2> QED
    BY <1>s, <2>1, <2>2, <2>3 DEF Book!BookNext, Book!Reconcile
<1>12. CASE Crash
  BY <1>12, <1>s DEF Crash, Book!BookNext, Book!Forget, Book!Nobody, Untracked
<1>13. CASE Startup
  <2>1. /\ ~up /\ up' = TRUE /\ calm' = calm /\ broker' = broker
        /\ tracked' \in [Orders -> TrackedAs]
        /\ \A o \in Orders : IF o \in OpenAtBroker
                             THEN tracked'[o] \in RecoveredOwners(o)
                             ELSE tracked'[o] = Untracked
    BY <1>13 DEF Startup
  <2>2. ASSUME NEW o \in Orders PROVE tracked'[o] \in Book!Recovered(o)
    <3>1. CASE o \in OpenAtBroker
      <4>1. disk.tracked[o] \in {OwnerOf[o], "strategy", Untracked}
        BY DEF OrderInv, OwnersInv
      <4>2. RecoveredOwners(o) \subseteq {OwnerOf[o], "strategy"}
        <5>1. CASE disk.tracked[o] # Untracked
          BY <4>1, <5>1 DEF RecoveredOwners
        <5>2. CASE disk.tracked[o] = Untracked
          <6> DEFINE candidates == {p \in disk.pending : ShapeOf[p] = ShapeOf[o]}
          <6>1. RecoveredOwners(o) =
                  {"strategy"} \cup {OwnerOf[p] : p \in candidates}
            BY <5>2 DEF RecoveredOwners
          <6>2. \A p \in candidates : OwnerOf[p] = OwnerOf[o]
            BY <1>u, ShapesTellOwners DEF TypeOK
          <6> QED
            BY <6>1, <6>2
        <5> QED
          BY <5>1, <5>2
      <4>3. Life(o) = "open"
        BY <3>1 DEF OpenAtBroker, Life
      <4> QED
        BY <2>1, <3>1, <4>2, <4>3 DEF Book!Recovered, Book!Default
    <3>2. CASE o \notin OpenAtBroker
      <4>1. Life(o) # "open"
        BY <3>2 DEF OpenAtBroker, Life
      <4> QED
        BY <2>1, <3>2, <4>1 DEF Book!Recovered, Book!Nobody, Untracked
    <3> QED
      BY <3>1, <3>2
  <2>3. tracked' \in [Orders -> UNION {Book!Recovered(o) : o \in Orders}]
    BY <2>1, <2>2
  <2> QED
    BY <1>s, <2>1, <2>2, <2>3 DEF Book!BookNext, Book!Recover
<1> QED
  BY <1>1, <1>2, <1>3, <1>4, <1>5, <1>6, <1>7, <1>8, <1>9, <1>10, <1>11,
     <1>12, <1>13 DEF Next

(* OrderLifecycle implements PositionBook.                                 *)
THEOREM PositionBookRefinement == Spec => BookKept
<1>1. OrderInv /\ TellsInv /\ [Next]_vars => TellsInv'
  BY NextTells DEF OrderInv
<1>2. Spec => []TellsInv
  BY <1>1, InitTells, OrderInvariant, PTL DEF Spec
<1> QED
  BY <1>2, BookStarts, BookSteps, OrderInvariant, PTL
  DEF Spec, BookKept, Book!BookSpec

-----------------------------------------------------------------------------
(* Reports *)

Days == Nat \cup {None}
RecordSet == [id : Positions, owner : {"xauex", "manual", "unknown"}, day : Nat]
Memory == [open : SUBSET Positions, taken : Nat, day : Days, closed : SUBSET RecordSet]
LogEntries ==
    [type : {"opened", "closed"}, id : Positions, owner : {"xauex", "manual"},
     day : Nat, at : Nat]
    \cup [type : {"blocked"}, day : Nat, slot : Slots,
          evidence : {"pattern", "mismatch", "none"}, at : Nat]
Mail(places) ==
    [at : places, day : Nat, expected : Nat, events : SUBSET Positions,
     listed : SUBSET Positions]

BotTyped ==
    /\ day \in Nat
    /\ pos \in [Positions -> [owner : {"none", "xauex", "manual"}, opened : Days,
                              closed : Days, live : BOOLEAN]]
    /\ bot \in Memory /\ file \in Memory
    /\ eventLog \in Seq(LogEntries)
    /\ runs \in Seq([day : Nat, at : Nat, kind : RunKinds])

JobsTyped ==
    /\ journal \in Seq(RecordSet)
    /\ cursor \subseteq Positions
    /\ writer \in [at : {"idle"}]
                  \cup [at : {"asking", "appended"}, todo : SUBSET RecordSet,
                        done : SUBSET Positions]
    /\ summary \in [at : {"idle"}]
                   \cup [at : {"loaded"}, day : Nat, expected : Nat,
                         events : SUBSET Positions]
                   \cup Mail({"built", "sent"})
    /\ mails \subseteq Mail({"mail"})

(* The records of closed trades, wherever one is kept.                     *)
Awaiting == IF writer.at = "idle" THEN {} ELSE writer.todo
Entries == { journal[k] : k \in DOMAIN journal }
Records == bot.closed \cup file.closed \cup ClosedEvents \cup Awaiting \cup Entries

(* The position was opened, and will not be touched again.                 *)
Settled(p) == pos[p].opened # None /\ p \notin bot.open /\ ~pos[p].live

(* A record is of a settled position and says whose it was and when it     *)
(* closed, or does not know; all records of a position are the same.       *)
RecordsInv ==
    /\ \A p \in Positions : p \in bot.open => pos[p].live
    /\ \A p \in Positions :
         pos[p].live => pos[p].opened # None /\ pos[p].owner # "none"
    /\ \A r \in Records :
         /\ Settled(r.id)
         /\ r.owner # "unknown" =>
              r.owner = pos[r.id].owner /\ r.day = pos[r.id].closed
    /\ \A r, s \in Records : r.id = s.id => r = s

(* What the summary has read is in the event journal; what it lists is of  *)
(* its day, and as much as the state file counted.                         *)
EventsOf(d) == { r.id : r \in { c \in ClosedEvents : c.owner = "xauex" /\ c.day = d } }

ListRight(m) ==
    /\ m.events \subseteq m.listed
    /\ Cardinality(m.listed) >= m.expected
    /\ \A p \in m.listed : /\ Settled(p)
                           /\ pos[p].owner = "xauex" /\ pos[p].closed = m.day

SummaryInv ==
    /\ summary.at = "loaded" => summary.events \subseteq EventsOf(summary.day)
    /\ summary.at \in {"built", "sent"} => ListRight(summary)
    /\ \A m \in mails : ListRight(m)

ReportsInv == BotTyped /\ JobsTyped /\ RecordsInv /\ SummaryInv

(* What is settled stays as it is.                                         *)
Keeps ==
    \A p \in Positions : Settled(p) =>
        Settled(p)' /\ pos'[p].owner = pos[p].owner /\ pos'[p].closed = pos[p].closed

LEMMA ReportsStart == ReportsInit => ReportsInv
<1> SUFFICES ASSUME ReportsInit PROVE ReportsInv
  OBVIOUS
<1> USE ReportConfig DEF ReportsInit
<1>1. << >> \in Seq(LogEntries) /\ << >> \in Seq(RecordSet)
      /\ << >> \in Seq([day : Nat, at : Nat, kind : RunKinds])
  OBVIOUS
<1>2. day \in Nat
  OBVIOUS
<1>3. bot \in Memory /\ file \in Memory
  BY DEF Memory, Days
<1>4. pos \in [Positions -> [owner : {"none", "xauex", "manual"}, opened : Days,
                             closed : Days, live : BOOLEAN]]
  BY DEF Days
<1>5. BotTyped
  BY <1>1, <1>2, <1>3, <1>4 DEF BotTyped
<1>6. JobsTyped
  BY <1>1 DEF JobsTyped, Idle
<1>7. DOMAIN eventLog = {} /\ DOMAIN journal = {}
  OBVIOUS
<1>8. Records = {}
  BY <1>7 DEF Records, ClosedEvents, Awaiting, Entries, Idle
<1>9. RecordsInv
  BY <1>8 DEF RecordsInv
<1>10. SummaryInv
  BY DEF SummaryInv, Idle
<1> QED
  BY <1>5, <1>6, <1>9, <1>10 DEF ReportsInv

(* An event at the end of the journal is the only one that can be new.     *)
LEMMA LogGrows ==
    ASSUME eventLog \in Seq(LogEntries), NEW e \in LogEntries,
           eventLog' = Append(eventLog, e)
    PROVE  /\ eventLog' \in Seq(LogEntries)
           /\ ClosedEvents \subseteq ClosedEvents'
           /\ e.type # "closed" => ClosedEvents' = ClosedEvents
           /\ ClosedEvents' \subseteq
                ClosedEvents \cup {[id |-> e.id, owner |-> e.owner, day |-> e.day]}
<1>1. eventLog' \in Seq(LogEntries) /\ Len(eventLog') = Len(eventLog) + 1
  OBVIOUS
<1>2. DOMAIN eventLog = 1..Len(eventLog) /\ DOMAIN eventLog' = 1..Len(eventLog) + 1
      /\ Len(eventLog) \in Nat
  BY <1>1
<1>3. /\ \A k \in DOMAIN eventLog : k \in DOMAIN eventLog' /\ eventLog'[k] = eventLog[k]
      /\ \A k \in DOMAIN eventLog' : k \in DOMAIN eventLog \/ eventLog'[k] = e
  BY <1>2
<1> QED
  BY <1>1, <1>3 DEF ClosedEvents

LEMMA LogKept == ASSUME eventLog' = eventLog PROVE ClosedEvents' = ClosedEvents
  BY DEF ClosedEvents

(* An entry at the end of the trade journal is the only one that can be    *)
(* new.                                                                    *)
LEMMA JournalGrows ==
    ASSUME journal \in Seq(RecordSet), NEW r \in RecordSet,
           journal' = Append(journal, r)
    PROVE  /\ journal' \in Seq(RecordSet)
           /\ Entries' = Entries \cup {r}
<1>1. journal' \in Seq(RecordSet) /\ Len(journal') = Len(journal) + 1
  OBVIOUS
<1>2. DOMAIN journal = 1..Len(journal) /\ DOMAIN journal' = 1..Len(journal) + 1
      /\ Len(journal) \in Nat
  BY <1>1
<1>3. /\ \A k \in DOMAIN journal : k \in DOMAIN journal' /\ journal'[k] = journal[k]
      /\ \A k \in DOMAIN journal' : k \in DOMAIN journal \/ journal'[k] = r
      /\ Len(journal) + 1 \in DOMAIN journal' /\ journal'[Len(journal) + 1] = r
  BY <1>2
<1> QED
  BY <1>1, <1>3 DEF Entries

LEMMA RecordsTyped ==
    ASSUME BotTyped, JobsTyped
    PROVE  Records \subseteq RecordSet /\ ClosedEvents \subseteq RecordSet
<1>1. \A k \in DOMAIN eventLog : eventLog[k] \in LogEntries
  BY DEF BotTyped
<1>2. ClosedEvents \subseteq RecordSet
  BY <1>1 DEF ClosedEvents, LogEntries, RecordSet
<1>3. \A k \in DOMAIN journal : journal[k] \in RecordSet
  BY DEF JobsTyped
<1>4. Awaiting \subseteq RecordSet
  BY DEF JobsTyped, Awaiting
<1> QED
  BY <1>2, <1>3, <1>4 DEF Records, Entries, BotTyped, Memory

LEMMA StampIsNatural == ASSUME BotTyped PROVE Stamp \in Nat
  BY DEF BotTyped, Stamp

LEMMA AppendsTyped ==
    ASSUME eventLog \in Seq(LogEntries), NEW e \in LogEntries, Appends(e)
    PROVE  /\ eventLog' \in Seq(LogEntries)
           /\ eventLog' = eventLog \/ eventLog' = Append(eventLog, e)
  BY DEF Appends

LEMMA OpenTypes ==
    ASSUME BotTyped, JobsTyped, NEW p \in Positions, NEW owner \in OwnersOf[p],
           Open(p, owner)
    PROVE  BotTyped' /\ JobsTyped'
<1> USE DEF market, botSide, files, jobs, mailed
<1>1. owner \in {"xauex", "manual"}
  BY ReportConfig
<1>2. day \in Nat /\ Stamp \in Nat
  BY StampIsNatural DEF BotTyped
<1>3. eventLog' \in Seq(LogEntries)
  <2>1. [type |-> "opened", id |-> p, owner |-> owner, day |-> day, at |-> Stamp]
          \in LogEntries
    BY <1>1, <1>2 DEF LogEntries
  <2> QED
    BY <2>1, AppendsTyped DEF Open, BotTyped
<1>4. pos' \in [Positions -> [owner : {"none", "xauex", "manual"}, opened : Days,
                              closed : Days, live : BOOLEAN]]
  <2>1. [owner |-> owner, opened |-> day, closed |-> None, live |-> TRUE]
           \in [owner : {"none", "xauex", "manual"}, opened : Days,
                closed : Days, live : BOOLEAN]
    BY <1>1, <1>2 DEF Days
  <2> QED
    BY <2>1 DEF Open, BotTyped
<1>5. bot' \in Memory
  <2>1. bot \in Memory /\ bot.open \cup {p} \in SUBSET Positions /\ day \in Days
    BY <1>2 DEF BotTyped, Memory, Days
  <2> DEFINE joined == [bot EXCEPT !.open = @ \cup {p}]
             dated == [joined EXCEPT !.day = day]
  <2>2. joined \in Memory
    BY <2>1 DEF Memory
  <2> HIDE DEF joined
  <2>3. dated \in Memory
    BY <2>1, <2>2 DEF Memory
  <2> HIDE DEF dated
  <2>4. \A n \in Nat : [dated EXCEPT !.taken = n] \in Memory
    BY <2>3 DEF Memory
  <2>5. bot.taken + 1 \in Nat /\ bot.taken \in Nat /\ 1 \in Nat
    BY <2>1 DEF Memory
  <2>6. bot' = joined
        \/ \E n \in {bot.taken + 1, 1} : bot' = [dated EXCEPT !.taken = n]
    BY <2>1 DEF Open, joined, dated, Memory
  <2> QED
    BY <2>2, <2>4, <2>5, <2>6
<1>6. BotTyped'
  BY <1>2, <1>3, <1>4, <1>5 DEF Open, BotTyped
<1>7. JobsTyped'
  BY DEF Open, JobsTyped
<1> QED
  BY <1>6, <1>7

LEMMA WrittenTyped ==
    ASSUME file \in Memory, NEW memory \in Memory, WritesTrades(memory)
    PROVE  file' \in Memory
  BY DEF WritesTrades, Memory

LEMMA CloseTypes ==
    ASSUME ReportsInv, NEW p \in Positions, Close(p)
    PROVE  BotTyped' /\ JobsTyped'
<1> USE DEF market, botSide, files, jobs, mailed
<1>1. day \in Nat /\ Stamp \in Nat /\ BotTyped /\ JobsTyped
  BY StampIsNatural DEF BotTyped, ReportsInv
<1>2. pos[p].owner \in {"xauex", "manual"}
  BY <1>1 DEF BotTyped, ReportsInv, RecordsInv, Close
<1>3. eventLog' \in Seq(LogEntries)
  <2>1. [type |-> "closed", id |-> p, owner |-> pos[p].owner, day |-> day, at |-> Stamp]
          \in LogEntries
    BY <1>1, <1>2 DEF LogEntries
  <2> QED
    BY <1>1, <2>1, AppendsTyped DEF Close, BotTyped
<1>4. bot' \in Memory
  <2>1. [id |-> p, owner |-> pos[p].owner, day |-> day] \in RecordSet
    BY <1>1, <1>2 DEF RecordSet
  <2>2. bot.open \ {p} \in SUBSET Positions
    BY <1>1 DEF BotTyped, Memory
  <2>3. OfToday(bot.closed) \cup {[id |-> p, owner |-> pos[p].owner, day |-> day]}
          \in SUBSET RecordSet
    BY <1>1, <2>1 DEF BotTyped, Memory, OfToday
  <2> QED
    BY <1>1, <2>2, <2>3 DEF Close, BotTyped, Memory
<1>5. file' \in Memory
  BY <1>1, <1>4, WrittenTyped DEF Close, BotTyped
<1>6. pos' \in [Positions -> [owner : {"none", "xauex", "manual"}, opened : Days,
                              closed : Days, live : BOOLEAN]]
  BY <1>1 DEF Close, BotTyped, Days
<1>7. BotTyped'
  BY <1>1, <1>3, <1>4, <1>5, <1>6 DEF Close, BotTyped
<1>8. JobsTyped'
  BY <1>1 DEF Close, JobsTyped
<1> QED
  BY <1>7, <1>8

LEMMA DropTypes ==
    ASSUME BotTyped, JobsTyped, NEW p \in Positions, Drop(p)
    PROVE  BotTyped' /\ JobsTyped'
<1> USE DEF market, botSide, files, jobs, mailed
<1>1. bot' \in Memory
  BY DEF Drop, BotTyped, Memory
<1>2. pos' \in [Positions -> [owner : {"none", "xauex", "manual"}, opened : Days,
                              closed : Days, live : BOOLEAN]]
  BY DEF Drop, BotTyped, Days
<1>3. BotTyped'
  BY <1>1, <1>2 DEF Drop, BotTyped
<1>4. JobsTyped'
  BY DEF Drop, JobsTyped
<1> QED
  BY <1>3, <1>4

LEMMA CloseUntrackedTypes ==
    ASSUME BotTyped, JobsTyped, NEW p \in Positions, CloseUntracked(p)
    PROVE  BotTyped' /\ JobsTyped'
<1> USE DEF market, botSide, files, jobs, mailed
<1>1. bot' \in Memory
  <2>1. [id |-> p, owner |-> "unknown", day |-> day] \in RecordSet
    BY DEF RecordSet, BotTyped
  <2>2. OfToday(bot.closed) \cup {[id |-> p, owner |-> "unknown", day |-> day]}
          \in SUBSET RecordSet
    BY <2>1 DEF BotTyped, Memory, OfToday
  <2> QED
    BY <2>2 DEF CloseUntracked, BotTyped, Memory
<1>2. file' \in Memory
  BY <1>1, WrittenTyped DEF CloseUntracked, BotTyped
<1>3. pos' \in [Positions -> [owner : {"none", "xauex", "manual"}, opened : Days,
                              closed : Days, live : BOOLEAN]]
  BY DEF CloseUntracked, BotTyped
<1>4. BotTyped'
  BY <1>1, <1>2, <1>3 DEF CloseUntracked, BotTyped
<1>5. JobsTyped'
  BY DEF CloseUntracked, JobsTyped
<1> QED
  BY <1>4, <1>5

LEMMA RunTypes ==
    ASSUME BotTyped, NEW kind \in RunKinds, ArchiveRun(kind)
    PROVE  runs' \in Seq([day : Nat, at : Nat, kind : RunKinds])
<1>1. [day |-> day, at |-> Stamp, kind |-> kind] \in [day : Nat, at : Nat, kind : RunKinds]
  BY StampIsNatural DEF BotTyped
<1> QED
  BY <1>1 DEF ArchiveRun, BotTyped

LEMMA DecideTypes ==
    ASSUME BotTyped, NEW slot \in Slots,
           NEW evidence \in {"pattern", "mismatch", "none"}, Decide(slot, evidence)
    PROVE  /\ eventLog' \in Seq(LogEntries)
           /\ ClosedEvents' = ClosedEvents
<1> DEFINE e == [type |-> "blocked", day |-> day, slot |-> slot,
                 evidence |-> evidence, at |-> Stamp]
<1>1. e \in LogEntries /\ e.type # "closed"
  BY StampIsNatural DEF BotTyped, LogEntries
<1>2. eventLog' = Append(eventLog, e) /\ eventLog \in Seq(LogEntries)
  BY DEF Decide, BotTyped
<1> HIDE DEF e
<1> QED
  BY <1>1, <1>2, LogGrows

(* The steps of the jobs.                                                  *)
LEMMA JournalTypes ==
    ASSUME BotTyped, JobsTyped,
           JournalStart \/ JournalAppend \/ JournalSave \/ JournalFails
    PROVE  JobsTyped'
<1> USE DEF market, botSide, files, jobs, mailed
<1>1. CASE JournalStart
  <2>1. \A r \in ClosedEvents : r \in RecordSet
    BY RecordsTyped
  <2>2. PICK stale \in BOOLEAN :
          LET found == Merge(IF stale THEN {} ELSE file.closed, ClosedEvents)
              new == { r \in found : r.id \notin cursor }
          IN  writer' = IF new = {} THEN Idle
                        ELSE [at |-> "asking", todo |-> new, done |-> cursor]
    BY <1>1 DEF JournalStart
  <2> DEFINE found == Merge(IF stale THEN {} ELSE file.closed, ClosedEvents)
             new == { r \in found : r.id \notin cursor }
  <2>3. new \in SUBSET RecordSet
    BY <2>1 DEF Merge, BotTyped, Memory
  <2>4. writer' = Idle \/ writer' = [at |-> "asking", todo |-> new, done |-> cursor]
    BY <2>2
  <2> HIDE DEF new
  <2>5. writer' \in [at : {"idle"}]
                    \cup [at : {"asking", "appended"}, todo : SUBSET RecordSet,
                          done : SUBSET Positions]
    BY <2>3, <2>4 DEF Idle, JobsTyped
  <2> QED
    BY <1>1, <2>5 DEF JournalStart, JobsTyped
<1>2. CASE JournalAppend
  <2>1. writer \in [at : {"asking"}, todo : SUBSET RecordSet, done : SUBSET Positions]
    BY <1>2 DEF JournalAppend, JobsTyped
  <2>2. PICK r \in writer.todo :
          /\ journal' = Append(journal, r)
          /\ writer' = [at |-> "appended", todo |-> writer.todo \ {r},
                        done |-> writer.done \cup {r.id}]
    BY <1>2 DEF JournalAppend
  <2>3. r \in RecordSet /\ r.id \in Positions
    BY <2>1 DEF RecordSet
  <2>4. journal' \in Seq(RecordSet)
    BY <2>2, <2>3, JournalGrows DEF JobsTyped
  <2>5. writer' \in [at : {"appended"}, todo : SUBSET RecordSet, done : SUBSET Positions]
    BY <2>1, <2>2, <2>3
  <2> QED
    BY <1>2, <2>4, <2>5 DEF JournalAppend, JobsTyped
<1>3. CASE JournalSave
  <2>1. writer \in [at : {"appended"}, todo : SUBSET RecordSet, done : SUBSET Positions]
    BY <1>3 DEF JournalSave, JobsTyped
  <2>2. writer' \in [at : {"idle"}]
                    \cup [at : {"asking", "appended"}, todo : SUBSET RecordSet,
                          done : SUBSET Positions]
    BY <1>3, <2>1 DEF JournalSave, Idle
  <2>3. cursor' \subseteq Positions
    BY <1>3, <2>1 DEF JournalSave, Cursor
  <2> QED
    BY <1>3, <2>2, <2>3 DEF JournalSave, JobsTyped
<1>4. CASE JournalFails
  BY <1>4 DEF JournalFails, JobsTyped, Idle
<1> QED
  BY <1>1, <1>2, <1>3, <1>4

(* The events of a day are of positions, and what is listed as well.       *)
LEMMA EventsTyped ==
    ASSUME BotTyped, JobsTyped, NEW d \in Nat
    PROVE  EventsOf(d) \subseteq Positions /\ Expected(d) \in Nat
  BY RecordsTyped DEF EventsOf, RecordSet, Expected, BotTyped, Memory

LEMMA DedupeTyped ==
    ASSUME BotTyped, JobsTyped
    PROVE  Dedupe(journal) \subseteq Entries \cup ClosedEvents
  BY DEF Dedupe, Merge, Entries

LEMMA ListedTyped ==
    ASSUME BotTyped, JobsTyped, NEW d \in Nat
    PROVE  { r.id : r \in Listed(d) } \subseteq Positions
<1>1. Listed(d) \subseteq Records
  BY DedupeTyped DEF Listed, Records
<1> QED
  BY <1>1, RecordsTyped DEF RecordSet

LEMMA SummaryTypes ==
    ASSUME BotTyped, JobsTyped,
           SummaryStart \/ SummaryBuild \/ SummarySend \/ SummarySave \/ SummaryFails
    PROVE  JobsTyped'
<1> USE DEF market, botSide, files, jobs, mailed
<1> DEFINE Summaries == [at : {"idle"}]
                        \cup [at : {"loaded"}, day : Nat, expected : Nat,
                              events : SUBSET Positions]
                        \cup Mail({"built", "sent"})
<1>1. CASE SummaryStart
  <2>1. day \in Nat /\ EventsOf(day) \subseteq Positions /\ Expected(day) \in Nat
    BY EventsTyped DEF BotTyped
  <2>2. summary' = [at |-> "loaded", day |-> day, expected |-> Expected(day),
                    events |-> EventsOf(day)]
    BY <1>1 DEF SummaryStart, EventsOf
  <2>3. summary' \in Summaries
    BY <2>1, <2>2
  <2> QED
    BY <1>1, <2>3 DEF SummaryStart, JobsTyped
<1>2. CASE SummaryBuild
  <2>1. summary \in [at : {"loaded"}, day : Nat, expected : Nat, events : SUBSET Positions]
    BY <1>2 DEF SummaryBuild, JobsTyped, Mail
  <2>2. { r.id : r \in Listed(summary.day) } \in SUBSET Positions
    BY <2>1, ListedTyped
  <2>3. \/ summary' = Idle
        \/ summary' = [at |-> "built", day |-> summary.day,
                       expected |-> summary.expected, events |-> summary.events,
                       listed |-> { r.id : r \in Listed(summary.day) }]
    BY <1>2 DEF SummaryBuild
  <2>4. summary' \in Summaries
    BY <2>1, <2>2, <2>3 DEF Mail, Idle
  <2> QED
    BY <1>2, <2>4 DEF SummaryBuild, JobsTyped
<1>3. CASE SummarySend
  <2>1. summary \in Mail({"built"})
    BY <1>3 DEF SummarySend, JobsTyped, Mail
  <2>2. [summary EXCEPT !.at = "mail"] \in Mail({"mail"})
        /\ [summary EXCEPT !.at = "sent"] \in Mail({"sent"})
    BY <2>1 DEF Mail
  <2>3. summary' \in Summaries /\ mails' \subseteq Mail({"mail"})
    BY <1>3, <2>2 DEF SummarySend, JobsTyped, Mail
  <2> QED
    BY <1>3, <2>3 DEF SummarySend, JobsTyped
<1>4. CASE SummarySave
  BY <1>4 DEF SummarySave, JobsTyped, Idle
<1>5. CASE SummaryFails
  BY <1>5 DEF SummaryFails, JobsTyped, Idle
<1> QED
  BY <1>1, <1>2, <1>3, <1>4, <1>5

(* The steps of the stall monitor and of the clock touch none of it.       *)
Aside == << pos, bot, file, eventLog, runs, journal, cursor, writer, summary, mails >>

LEMMA AsideSteps ==
    ASSUME NewDay \/ GetsLate \/ WatchStart \/ WatchSend \/ WatchSave \/ WatchFails
           \/ UNCHANGED reportVars
    PROVE  UNCHANGED Aside /\ (day' = day \/ day' = day + 1)
  BY DEF Aside, NewDay, GetsLate, WatchStart, WatchSend, WatchSave, WatchFails,
         reportVars, market, botSide, files, jobs, mailed

LEMMA ReportsTypes ==
    ASSUME ReportsInv, [ReportsNext]_reportVars
    PROVE  BotTyped' /\ JobsTyped'
<1> USE DEF market, botSide, files, jobs, mailed
<1>0. BotTyped /\ JobsTyped
  BY DEF ReportsInv
<1>1. CASE NewDay \/ GetsLate \/ WatchStart \/ WatchSend \/ WatchSave \/ WatchFails
           \/ UNCHANGED reportVars
  BY <1>0, <1>1, AsideSteps DEF Aside, BotTyped, JobsTyped
<1>2. CASE \E p \in Positions : \E owner \in OwnersOf[p] : Open(p, owner)
  BY <1>0, <1>2, OpenTypes
<1>3. CASE \E p \in Positions : Close(p)
  BY <1>3, CloseTypes
<1>4. CASE \E p \in Positions : Drop(p)
  BY <1>0, <1>4, DropTypes
<1>5. CASE \E p \in Positions : CloseUntracked(p)
  BY <1>0, <1>5, CloseUntrackedTypes
<1>6. CASE FullWrite
  <2>1. bot' \in Memory
    BY <1>0, <1>6 DEF FullWrite, BotTyped, Memory, OfToday
  <2> QED
    BY <1>0, <1>6, <2>1 DEF FullWrite, BotTyped, JobsTyped
<1>7. CASE Restart
  <2>1. bot' \in Memory
    BY <1>0, <1>7 DEF Restart, BotTyped, Memory
  <2> QED
    BY <1>0, <1>7, <2>1 DEF Restart, BotTyped, JobsTyped
<1>8. CASE \E kind \in RunKinds : ArchiveRun(kind)
  BY <1>0, <1>8, RunTypes DEF ArchiveRun, BotTyped, JobsTyped
<1>9. CASE \E slot \in Slots, evidence \in {"pattern", "mismatch", "none"} :
             Decide(slot, evidence)
  BY <1>0, <1>9, DecideTypes DEF Decide, BotTyped, JobsTyped
<1>10. CASE JournalStart \/ JournalAppend \/ JournalSave \/ JournalFails
  <2>1. BotTyped'
    BY <1>0, <1>10 DEF JournalStart, JournalAppend, JournalSave, JournalFails, BotTyped
  <2> QED
    BY <1>0, <1>10, <2>1, JournalTypes
<1>11. CASE SummaryStart \/ SummaryBuild \/ SummarySend \/ SummarySave \/ SummaryFails
  <2>1. BotTyped'
    BY <1>0, <1>11 DEF SummaryStart, SummaryBuild, SummarySend, SummarySave,
                       SummaryFails, BotTyped
  <2> QED
    BY <1>0, <1>11, <2>1, SummaryTypes
<1> QED
  BY <1>1, <1>2, <1>3, <1>4, <1>5, <1>6, <1>7, <1>8, <1>9, <1>10, <1>11
     DEF ReportsNext, Bot

LiveRight ==
    /\ \A p \in Positions : p \in bot.open => pos[p].live
    /\ \A p \in Positions :
         pos[p].live => pos[p].opened # None /\ pos[p].owner # "none"

(* A step that keeps what is settled, and writes no record but copies and  *)
(* the first one of a position that it settles.                            *)
LEMMA RecordsFollow ==
    ASSUME RecordsInv, Keeps, LiveRight', Records \subseteq RecordSet,
           NEW fresh \in RecordSet, Records' \subseteq Records \cup {fresh},
           \/ Records' \subseteq Records
           \/ /\ \A r \in Records : r.id # fresh.id
              /\ Settled(fresh.id)'
              /\ fresh.owner # "unknown" => fresh.owner = pos'[fresh.id].owner
                                            /\ fresh.day = pos'[fresh.id].closed
    PROVE  RecordsInv'
<1>1. \A r \in Records :
         /\ Settled(r.id)'
         /\ r.owner # "unknown" =>
              r.owner = pos'[r.id].owner /\ r.day = pos'[r.id].closed
  BY DEF RecordsInv, Keeps, RecordSet
<1>2. \A r, s \in Records : r.id = s.id => r = s
  BY DEF RecordsInv
<1>3. \A r \in Records' :
         /\ Settled(r.id)'
         /\ r.owner # "unknown" =>
              r.owner = pos'[r.id].owner /\ r.day = pos'[r.id].closed
  BY <1>1
<1>4. \A r, s \in Records' : r.id = s.id => r = s
  BY <1>2
<1> QED
  BY <1>3, <1>4 DEF RecordsInv, LiveRight

LEMMA RecordsCopied ==
    ASSUME RecordsInv, Keeps, LiveRight', Records \subseteq RecordSet,
           Records' \subseteq Records
    PROVE  RecordsInv'
<1>1. CASE Records = {}
  BY <1>1 DEF RecordsInv, LiveRight
<1>2. CASE \E r : r \in Records
  BY <1>2, RecordsFollow
<1> QED
  BY <1>1, <1>2

(* The steps that leave positions and tracker alone.                       *)
LEMMA SameKeeps ==
    ASSUME RecordsInv, pos' = pos, bot'.open = bot.open
    PROVE  Keeps /\ LiveRight'
  BY DEF RecordsInv, Keeps, LiveRight, Settled

LEMMA OpenRecords ==
    ASSUME ReportsInv, NEW p \in Positions, NEW owner \in OwnersOf[p], Open(p, owner)
    PROVE  Keeps /\ RecordsInv' /\ ClosedEvents \subseteq ClosedEvents'
<1> USE DEF market, botSide, files, jobs, mailed
<1>1. BotTyped /\ JobsTyped /\ RecordsInv
  BY DEF ReportsInv
<1> DEFINE e == [type |-> "opened", id |-> p, owner |-> owner, day |-> day, at |-> Stamp]
<1>2. e \in LogEntries /\ e.type # "closed"
  <2>1. owner \in {"xauex", "manual"}
    BY ReportConfig
  <2> QED
    BY <1>1, <2>1, StampIsNatural DEF BotTyped, LogEntries
<1>3. ClosedEvents' = ClosedEvents
  <2>1. eventLog' = eventLog \/ eventLog' = Append(eventLog, e)
    BY DEF Open, Appends
  <2>2. eventLog \in Seq(LogEntries)
    BY <1>1 DEF BotTyped
  <2> HIDE DEF e
  <2> QED
    BY <1>2, <2>1, <2>2, LogGrows, LogKept
<1>4. bot'.open = bot.open \cup {p} /\ bot'.closed = bot.closed
  BY <1>1 DEF Open, BotTyped, Memory
<1>5. /\ pos[p].opened = None
      /\ pos'[p].live /\ pos'[p].opened = day /\ pos'[p].owner = owner
      /\ \A q \in Positions : q # p => pos'[q] = pos[q]
      /\ day # None /\ owner # "none"
  BY <1>1, ReportConfig DEF Open, BotTyped, None
<1>6. Keeps /\ LiveRight'
  BY <1>1, <1>4, <1>5 DEF Keeps, Settled, LiveRight, RecordsInv
<1>7. Records' = Records
  BY <1>3, <1>4 DEF Records, Awaiting, Entries, Open
<1> QED
  BY <1>1, <1>3, <1>6, <1>7, RecordsCopied, RecordsTyped

LEMMA CloseRecords ==
    ASSUME ReportsInv, NEW p \in Positions, Close(p)
    PROVE  Keeps /\ RecordsInv' /\ ClosedEvents \subseteq ClosedEvents'
<1> USE DEF market, botSide, files, jobs, mailed
<1>1. BotTyped /\ JobsTyped /\ RecordsInv /\ day \in Nat
  BY DEF ReportsInv, BotTyped
<1> DEFINE e == [type |-> "closed", id |-> p, owner |-> pos[p].owner, day |-> day,
                 at |-> Stamp]
           r == [id |-> p, owner |-> pos[p].owner, day |-> day]
<1>2. pos[p].owner \in {"xauex", "manual"} /\ pos[p].opened # None /\ p \in bot.open
  BY <1>1 DEF BotTyped, RecordsInv, Close
<1>3. e \in LogEntries /\ r \in RecordSet
  BY <1>1, <1>2, StampIsNatural DEF LogEntries, RecordSet
<1>4. ClosedEvents \subseteq ClosedEvents' /\ ClosedEvents' \subseteq ClosedEvents \cup {r}
  <2>1. eventLog' = eventLog \/ eventLog' = Append(eventLog, e)
    BY DEF Close, Appends
  <2>2. eventLog \in Seq(LogEntries)
    BY <1>1 DEF BotTyped
  <2>3. r = [id |-> e.id, owner |-> e.owner, day |-> e.day]
    OBVIOUS
  <2> HIDE DEF e, r
  <2> QED
    BY <1>3, <2>1, <2>2, <2>3, LogGrows, LogKept
<1>5. bot'.open = bot.open \ {p} /\ bot'.closed \subseteq bot.closed \cup {r}
  BY <1>1 DEF Close, BotTyped, Memory, OfToday
<1>6. file'.closed \subseteq file.closed \cup bot'.closed
  BY <1>1 DEF Close, WritesTrades, BotTyped, Memory
<1>7. /\ ~pos'[p].live /\ pos'[p].closed = day
      /\ pos'[p].opened = pos[p].opened /\ pos'[p].owner = pos[p].owner
      /\ \A q \in Positions : q # p => pos'[q] = pos[q]
  BY <1>1 DEF Close, BotTyped
<1>8. Keeps /\ LiveRight'
  BY <1>1, <1>2, <1>5, <1>7 DEF Keeps, Settled, LiveRight, RecordsInv
<1>9. Records' \subseteq Records \cup {r}
  <2>1. Awaiting' = Awaiting /\ Entries' = Entries
    BY DEF Close, Awaiting, Entries
  <2> HIDE DEF r
  <2> QED
    BY <1>4, <1>5, <1>6, <2>1 DEF Records
<1>10. \A s \in Records : s.id # r.id
  BY <1>1, <1>2 DEF RecordsInv, Settled
<1>11. Settled(p)' /\ r.owner = pos'[p].owner /\ r.day = pos'[p].closed /\ r.id = p
  BY <1>2, <1>5, <1>7 DEF Settled
<1>12. Records \subseteq RecordSet
  BY <1>1, RecordsTyped
<1> HIDE DEF r
<1>13. PICK fresh \in RecordSet : fresh = r
  BY <1>3
<1>14. RecordsInv'
  BY <1>1, <1>8, <1>9, <1>10, <1>11, <1>12, <1>13, RecordsFollow
<1> QED
  BY <1>4, <1>8, <1>14

LEMMA CloseUntrackedRecords ==
    ASSUME ReportsInv, NEW p \in Positions, CloseUntracked(p)
    PROVE  Keeps /\ RecordsInv' /\ ClosedEvents \subseteq ClosedEvents'
<1> USE DEF market, botSide, files, jobs, mailed
<1>1. BotTyped /\ JobsTyped /\ RecordsInv /\ day \in Nat
  BY DEF ReportsInv, BotTyped
<1> DEFINE r == [id |-> p, owner |-> "unknown", day |-> day]
<1>2. pos[p].live /\ pos[p].opened # None /\ p \notin bot.open
  BY <1>1 DEF BotTyped, RecordsInv, CloseUntracked
<1>3. r \in RecordSet
  BY <1>1 DEF RecordSet
<1>4. ClosedEvents' = ClosedEvents
  BY LogKept DEF CloseUntracked
<1>5. bot'.open = bot.open /\ bot'.closed \subseteq bot.closed \cup {r}
  BY <1>1 DEF CloseUntracked, BotTyped, Memory, OfToday
<1>6. file'.closed \subseteq file.closed \cup bot'.closed
  BY <1>1 DEF CloseUntracked, WritesTrades, BotTyped, Memory
<1>7. /\ ~pos'[p].live /\ pos'[p].closed = pos[p].closed
      /\ pos'[p].opened = pos[p].opened /\ pos'[p].owner = pos[p].owner
      /\ \A q \in Positions : q # p => pos'[q] = pos[q]
  BY <1>1 DEF CloseUntracked, BotTyped
<1>8. Keeps /\ LiveRight'
  BY <1>1, <1>2, <1>5, <1>7 DEF Keeps, Settled, LiveRight, RecordsInv
<1>9. Records' \subseteq Records \cup {r}
  <2>1. Awaiting' = Awaiting /\ Entries' = Entries
    BY DEF CloseUntracked, Awaiting, Entries
  <2> HIDE DEF r
  <2> QED
    BY <1>4, <1>5, <1>6, <2>1 DEF Records
<1>10. \A s \in Records : s.id # r.id
  BY <1>1, <1>2 DEF RecordsInv, Settled
<1>11. Settled(p)' /\ r.owner = "unknown" /\ r.id = p
  BY <1>2, <1>5, <1>7 DEF Settled
<1>12. Records \subseteq RecordSet
  BY <1>1, RecordsTyped
<1> HIDE DEF r
<1>13. PICK fresh \in RecordSet : fresh = r
  BY <1>3
<1>14. RecordsInv'
  BY <1>1, <1>8, <1>9, <1>10, <1>11, <1>12, <1>13, RecordsFollow
<1> QED
  BY <1>4, <1>8, <1>14

(* The other steps of the bot copy records or forget them.                 *)
LEMMA BotRecords ==
    ASSUME ReportsInv,
           \/ \E p \in Positions : Drop(p)
           \/ FullWrite
           \/ Restart
           \/ \E kind \in RunKinds : ArchiveRun(kind)
           \/ \E slot \in Slots, evidence \in {"pattern", "mismatch", "none"} :
                Decide(slot, evidence)
    PROVE  Keeps /\ RecordsInv' /\ ClosedEvents \subseteq ClosedEvents'
<1> USE DEF market, botSide, files, jobs, mailed
<1>1. BotTyped /\ JobsTyped /\ RecordsInv /\ Records \subseteq RecordSet
  BY RecordsTyped DEF ReportsInv
<1>2. Awaiting' = Awaiting /\ Entries' = Entries
  BY DEF Drop, FullWrite, Restart, ArchiveRun, Decide, Awaiting, Entries
<1>3. ClosedEvents' = ClosedEvents
  <2>1. CASE \E slot \in Slots, evidence \in {"pattern", "mismatch", "none"} :
               Decide(slot, evidence)
    BY <1>1, <2>1, DecideTypes
  <2>2. CASE eventLog' = eventLog
    BY <2>2, LogKept
  <2> QED
    BY <2>1, <2>2 DEF Drop, FullWrite, Restart, ArchiveRun
<1>4. bot'.closed \subseteq bot.closed
      /\ file'.closed \subseteq file.closed \cup bot.closed
  BY <1>1 DEF Drop, FullWrite, Restart, ArchiveRun, Decide, BotTyped, Memory, OfToday
<1>5. Records' \subseteq Records
  BY <1>2, <1>3, <1>4 DEF Records
<1>6. Keeps /\ LiveRight'
  <2>1. CASE \E p \in Positions : Drop(p)
    <3>1. PICK p \in Positions : Drop(p)
      BY <2>1
    <3>2. p \in bot.open /\ bot'.open = bot.open \ {p}
      BY <1>1, <3>1 DEF Drop, BotTyped, Memory
    <3>3. /\ pos'[p].live = pos[p].live /\ pos'[p].owner = pos[p].owner
          /\ pos'[p].opened = pos[p].opened
          /\ \A q \in Positions : q # p => pos'[q] = pos[q]
      BY <1>1, <3>1 DEF Drop, BotTyped
    <3> QED
      BY <1>1, <3>2, <3>3 DEF Keeps, Settled, LiveRight, RecordsInv
  <2>2. CASE pos' = pos /\ bot'.open = bot.open
    BY <1>1, <2>2, SameKeeps
  <2> QED
    BY <1>1, <2>1, <2>2 DEF FullWrite, Restart, ArchiveRun, Decide, BotTyped, Memory
<1> QED
  BY <1>1, <1>3, <1>5, <1>6, RecordsCopied

LEMMA JournalRecords ==
    ASSUME ReportsInv, JournalStart \/ JournalAppend \/ JournalSave \/ JournalFails
    PROVE  Keeps /\ RecordsInv' /\ ClosedEvents' = ClosedEvents
<1> USE DEF market, botSide, files, jobs, mailed
<1>1. BotTyped /\ JobsTyped /\ RecordsInv /\ Records \subseteq RecordSet
  BY RecordsTyped DEF ReportsInv
<1>2. UNCHANGED << pos, bot, file, eventLog >>
  BY DEF JournalStart, JournalAppend, JournalSave, JournalFails
<1>3. Keeps /\ LiveRight' /\ ClosedEvents' = ClosedEvents
  BY <1>1, <1>2, SameKeeps, LogKept
<1>4. Awaiting' \cup Entries' \subseteq Records
  <2>1. CASE JournalStart
    <3>1. writer'.at = "idle" \/ writer'.todo \subseteq file.closed \cup ClosedEvents
      BY <2>1 DEF JournalStart, Merge, Idle
    <3>2. Entries' = Entries
      BY <2>1 DEF JournalStart, Entries
    <3> QED
      BY <3>1, <3>2 DEF Records, Awaiting
  <2>2. CASE JournalAppend
    <3>1. PICK r \in writer.todo :
            /\ journal' = Append(journal, r)
            /\ writer' = [at |-> "appended", todo |-> writer.todo \ {r},
                          done |-> writer.done \cup {r.id}]
      BY <2>2 DEF JournalAppend
    <3>2. r \in Awaiting /\ Awaiting' \subseteq Awaiting
      BY <2>2, <3>1 DEF JournalAppend, Awaiting
    <3>3. r \in RecordSet
      BY <1>1, <3>2 DEF Records
    <3>4. Entries' = Entries \cup {r}
      BY <1>1, <3>1, <3>3, JournalGrows DEF JobsTyped
    <3> QED
      BY <3>2, <3>4 DEF Records
  <2>3. CASE JournalSave
    <3>1. writer \in [at : {"appended"}, todo : SUBSET RecordSet, done : SUBSET Positions]
      BY <1>1, <2>3 DEF JournalSave, JobsTyped
    <3>2. Awaiting' \subseteq Awaiting
      BY <2>3, <3>1 DEF JournalSave, Awaiting, Idle
    <3>3. Entries' = Entries
      BY <2>3 DEF JournalSave, Entries
    <3> QED
      BY <3>2, <3>3 DEF Records
  <2>4. CASE JournalFails
    BY <2>4 DEF JournalFails, Records, Awaiting, Entries, Idle
  <2> QED
    BY <2>1, <2>2, <2>3, <2>4
<1>5. Records' \subseteq Records
  BY <1>2, <1>3, <1>4 DEF Records
<1> QED
  BY <1>1, <1>3, <1>5, RecordsCopied

LEMMA AsideRecords ==
    ASSUME ReportsInv, UNCHANGED << pos, bot, file, eventLog, journal, writer >>
    PROVE  Keeps /\ RecordsInv' /\ ClosedEvents' = ClosedEvents
<1>1. RecordsInv /\ Records \subseteq RecordSet
  BY RecordsTyped DEF ReportsInv
<1>2. ClosedEvents' = ClosedEvents
  BY LogKept
<1>3. Records' = Records
  BY <1>2 DEF Records, Awaiting, Entries
<1> QED
  BY <1>1, <1>2, <1>3, SameKeeps, RecordsCopied

(* The records a summary counts are as many as the positions it lists.     *)
LEMMA CountedOnce ==
    ASSUME BotTyped, JobsTyped, NEW d \in Nat
    PROVE  Cardinality(Listed(d)) <= Cardinality({ r.id : r \in Listed(d) })
           /\ Cardinality(Listed(d)) \in Nat
           /\ Cardinality({ r.id : r \in Listed(d) }) \in Nat
<1> DEFINE S == Listed(d)
           T == { r.id : r \in S }
           f == [r \in S |-> r.id]
<1>1. IsFiniteSet(T)
  BY ListedTyped, ReportConfig, FS_Subset
<1>2. S \subseteq RecordSet /\ \A r \in S : r.owner = "xauex" /\ r.day = d
  <2>1. S \subseteq Records
    BY DedupeTyped DEF Listed, Records
  <2> QED
    BY <2>1, RecordsTyped DEF Listed
<1>3. \A r, s \in S : r.id = s.id => r = s
  BY <1>2 DEF RecordSet
<1>4. f \in Injection(S, T)
  <2> HIDE DEF S
  <2> QED
    BY <1>3 DEF Injection, IsInjective
<1>5. IsFiniteSet(S) /\ Cardinality(S) <= Cardinality(T)
  <2> HIDE DEF S, T, f
  <2> QED
    BY <1>1, <1>4, FS_Injection
<1> QED
  BY <1>1, <1>5, FS_CardinalityType

(* What is listed is of the day, and what has its event is listed.         *)
LEMMA ListedRight ==
    ASSUME BotTyped, JobsTyped, RecordsInv, NEW d \in Nat
    PROVE  /\ EventsOf(d) \subseteq { r.id : r \in Listed(d) }
           /\ \A r \in Listed(d) : /\ Settled(r.id)
                                   /\ pos[r.id].owner = "xauex" /\ pos[r.id].closed = d
<1>1. Dedupe(journal) \subseteq Records
  BY DedupeTyped DEF Records
<1>2. \A r \in Listed(d) : /\ Settled(r.id)
                           /\ pos[r.id].owner = "xauex" /\ pos[r.id].closed = d
  BY <1>1 DEF Listed, RecordsInv
<1>3. ASSUME NEW c \in ClosedEvents, c.owner = "xauex", c.day = d
      PROVE  c \in Listed(d)
  <2> DEFINE first == { journal[k] : k \in { k \in DOMAIN journal :
                          \A n \in 1..k - 1 : journal[n].id # journal[k].id } }
  <2>1. Dedupe(journal) = Merge(first, ClosedEvents)
    BY DEF Dedupe
  <2>2. c \in Dedupe(journal) \/ \E f \in first : f.id = c.id
    <3> HIDE DEF first
    <3> QED
      BY <1>3, <2>1 DEF Merge
  <2>3. first \subseteq Dedupe(journal)
    <3> HIDE DEF first
    <3> QED
      BY <2>1 DEF Merge
  <2>4. c \in Records
    BY DEF Records
  <2>5. c \in Dedupe(journal)
    <3> HIDE DEF first
    <3> QED
      BY <1>1, <2>2, <2>3, <2>4 DEF RecordsInv
  <2> QED
    BY <1>3, <2>5 DEF Listed
<1> QED
  BY <1>2, <1>3 DEF EventsOf

LEMMA ListStays ==
    ASSUME Keeps
    PROVE  \A m \in Mail({"built", "sent", "mail"}) :
             ListRight(m) =>
               /\ m.events \subseteq m.listed
               /\ Cardinality(m.listed) >= m.expected
               /\ \A p \in m.listed : /\ Settled(p)'
                                      /\ pos'[p].owner = "xauex" /\ pos'[p].closed = m.day
  BY DEF Keeps, ListRight, Mail

LEMMA SummaryKept ==
    ASSUME ReportsInv, Keeps, ClosedEvents \subseteq ClosedEvents',
           UNCHANGED << summary, mails >>
    PROVE  SummaryInv'
<1>1. \A m \in mails : ListRight(m)'
  BY ListStays DEF ReportsInv, SummaryInv, JobsTyped, Mail, ListRight
<1>2. summary'.at \in {"built", "sent"} => ListRight(summary)'
  <2>1. CASE summary.at \in {"built", "sent"}
    <3>1. summary \in Mail({"built", "sent", "mail"})
      BY <2>1 DEF ReportsInv, JobsTyped, Mail
    <3>2. ListRight(summary)
      BY <2>1 DEF ReportsInv, SummaryInv
    <3> QED
      BY <3>1, <3>2, ListStays DEF ListRight
  <2> QED
    BY <2>1
<1>3. \A d : EventsOf(d) \subseteq EventsOf(d)'
  BY DEF EventsOf
<1>4. summary'.at = "loaded" => summary'.events \subseteq EventsOf(summary.day)'
  BY <1>3 DEF ReportsInv, SummaryInv
<1> QED
  BY <1>1, <1>2, <1>4 DEF SummaryInv, EventsOf

LEMMA SummaryStep ==
    ASSUME ReportsInv, Keeps, ClosedEvents' = ClosedEvents,
           SummaryStart \/ SummaryBuild \/ SummarySend \/ SummarySave \/ SummaryFails
    PROVE  SummaryInv'
<1> USE DEF market, botSide, files, jobs, mailed
<1>1. BotTyped /\ JobsTyped /\ RecordsInv /\ SummaryInv
  BY DEF ReportsInv
<1>2. \A d : EventsOf(d)' = EventsOf(d)
  BY DEF EventsOf
<1>3. \A m \in mails : ListRight(m)'
  BY <1>1, ListStays DEF SummaryInv, JobsTyped, Mail, ListRight
<1>4. CASE SummaryStart
  <2>1. summary'.at = "loaded" /\ summary'.events = EventsOf(summary'.day)
    BY <1>4 DEF SummaryStart, EventsOf
  <2>2. mails' = mails
    BY <1>4 DEF SummaryStart
  <2> QED
    BY <1>2, <1>3, <2>1, <2>2 DEF SummaryInv, EventsOf
<1>5. CASE SummaryBuild
  <2>1. /\ summary \in [at : {"loaded"}, day : Nat, expected : Nat,
                        events : SUBSET Positions]
        /\ mails' = mails /\ pos' = pos /\ bot' = bot
    BY <1>1, <1>5 DEF SummaryBuild, JobsTyped, Mail
  <2> DEFINE S == Listed(summary.day)
             T == { r.id : r \in S }
  <2>2. \/ summary' = Idle
        \/ /\ Cardinality(S) >= summary.expected
           /\ summary' = [at |-> "built", day |-> summary.day,
                          expected |-> summary.expected, events |-> summary.events,
                          listed |-> T]
    BY <1>5 DEF SummaryBuild, Enough
  <2>3. /\ summary.events \subseteq T
        /\ \A p \in T : Settled(p) /\ pos[p].owner = "xauex" /\ pos[p].closed = summary.day
    <3>1. summary.events \subseteq EventsOf(summary.day)
      BY <1>1, <2>1 DEF SummaryInv
    <3> QED
      BY <1>1, <2>1, <3>1, ListedRight
  <2>4. Cardinality(S) <= Cardinality(T)
        /\ Cardinality(S) \in Nat /\ Cardinality(T) \in Nat /\ summary.expected \in Nat
    BY <1>1, <2>1, CountedOnce
  <2>5. CASE summary' = Idle
    BY <1>3, <2>1, <2>5 DEF SummaryInv, Idle
  <2>6. CASE summary' # Idle
    <3> HIDE DEF S, T
    <3>1. /\ summary'.at = "built" /\ summary'.events = summary.events
          /\ summary'.listed = T /\ summary'.expected = summary.expected
          /\ summary'.day = summary.day /\ Cardinality(S) >= summary.expected
      BY <2>2, <2>6
    <3>2. Cardinality(T) >= summary.expected
      BY <2>4, <3>1
    <3>3. \A p : Settled(p)' = Settled(p)
      BY <2>1 DEF Settled
    <3>4. ListRight(summary)'
      BY <2>1, <2>3, <3>1, <3>2, <3>3 DEF ListRight
    <3> QED
      BY <1>3, <2>1, <3>1, <3>4 DEF SummaryInv
  <2> QED
    BY <2>5, <2>6
<1>6. CASE SummarySend
  <2>1. /\ summary \in Mail({"built"}) /\ ListRight(summary)
        /\ mails' = mails \cup {[summary EXCEPT !.at = "mail"]}
        /\ summary' = [summary EXCEPT !.at = "sent"]
    BY <1>1, <1>6 DEF SummarySend, JobsTyped, Mail, SummaryInv
  <2>2. PICK mail \in Mail({"mail"}) : mail = [summary EXCEPT !.at = "mail"]
    BY <2>1 DEF Mail
  <2>3. /\ mail.events = summary.events /\ mail.listed = summary.listed
        /\ mail.expected = summary.expected /\ mail.day = summary.day
    BY <2>1, <2>2 DEF Mail
  <2>4. ListRight(mail)
    BY <2>1, <2>3 DEF ListRight
  <2>5. ListRight(mail)'
    BY <2>4, ListStays DEF ListRight, Mail
  <2>6. /\ summary'.events = mail.events /\ summary'.listed = mail.listed
        /\ summary'.expected = mail.expected /\ summary'.day = mail.day
        /\ summary'.at = "sent"
    BY <2>1, <2>3 DEF Mail
  <2>7. ListRight(summary)'
    BY <2>5, <2>6 DEF ListRight
  <2>8. \A m \in mails' : ListRight(m)'
    BY <1>3, <2>1, <2>2, <2>5
  <2> QED
    BY <2>6, <2>7, <2>8 DEF SummaryInv
<1>7. CASE SummarySave \/ SummaryFails
  BY <1>3, <1>7 DEF SummarySave, SummaryFails, SummaryInv, Idle
<1> QED
  BY <1>4, <1>5, <1>6, <1>7

LEMMA ReportsStep == ReportsInv /\ [ReportsNext]_reportVars => ReportsInv'
<1> SUFFICES ASSUME ReportsInv, [ReportsNext]_reportVars PROVE ReportsInv'
  OBVIOUS
<1> USE DEF market, botSide, files, jobs, mailed
<1>1. BotTyped' /\ JobsTyped'
  BY ReportsTypes
<1>2. CASE NewDay \/ GetsLate \/ WatchStart \/ WatchSend \/ WatchSave \/ WatchFails
           \/ UNCHANGED reportVars
  <2>1. UNCHANGED Aside
    BY <1>2, AsideSteps
  <2> QED
    BY <1>1, <2>1, AsideRecords, SummaryKept DEF Aside, ReportsInv
<1>3. CASE Bot
  <2>1. Keeps /\ RecordsInv' /\ ClosedEvents \subseteq ClosedEvents'
    BY <1>3, OpenRecords, CloseRecords, CloseUntrackedRecords, BotRecords DEF Bot
  <2>2. UNCHANGED << summary, mails >>
    BY <1>3 DEF Bot, Open, Close, Drop, CloseUntracked, FullWrite, Restart,
                ArchiveRun, Decide
  <2> QED
    BY <1>1, <2>1, <2>2, SummaryKept DEF ReportsInv
<1>4. CASE JournalStart \/ JournalAppend \/ JournalSave \/ JournalFails
  <2>1. UNCHANGED << summary, mails >>
    BY <1>4 DEF JournalStart, JournalAppend, JournalSave, JournalFails
  <2> QED
    BY <1>1, <1>4, <2>1, JournalRecords, SummaryKept DEF ReportsInv
<1>5. CASE SummaryStart \/ SummaryBuild \/ SummarySend \/ SummarySave \/ SummaryFails
  <2>1. UNCHANGED << pos, bot, file, eventLog, journal, writer >>
    BY <1>5 DEF SummaryStart, SummaryBuild, SummarySend, SummarySave, SummaryFails
  <2> QED
    BY <1>1, <1>5, <2>1, AsideRecords, SummaryStep DEF ReportsInv
<1> QED
  BY <1>2, <1>3, <1>4, <1>5 DEF ReportsNext

(* The inductive invariant holds in every reachable state, for any         *)
(* positions and owners, runs, limits and number of faults.                *)
THEOREM ReportsInvariant == ReportsSpec => []ReportsInv
  BY ReportsStart, ReportsStep, PTL DEF ReportsSpec

LEMMA ListIsComplete == ReportsInv => SummaryIsComplete
<1> SUFFICES ASSUME ReportsInv, NEW m \in mails
             PROVE  /\ m.events \subseteq m.listed
                    /\ (/\ m.expected = Cardinality(Taken(m.day))
                        /\ \A p \in Positions :
                             pos[p].owner = "xauex" /\ pos[p].closed = m.day
                             => pos[p].opened = m.day)
                       => Taken(m.day) \subseteq m.listed
  BY DEF SummaryIsComplete
<1>1. ListRight(m) /\ m \in Mail({"mail"})
  BY DEF ReportsInv, SummaryInv, JobsTyped
<1>2. ASSUME m.expected = Cardinality(Taken(m.day)),
             \A p \in Positions :
               pos[p].owner = "xauex" /\ pos[p].closed = m.day => pos[p].opened = m.day
      PROVE  Taken(m.day) \subseteq m.listed
  <2>1. m.listed \in SUBSET Taken(m.day)
    BY <1>1, <1>2 DEF ListRight, Mail, Taken
  <2>2. IsFiniteSet(Taken(m.day))
    BY ReportConfig, FS_Subset DEF Taken
  <2>3. /\ Cardinality(m.listed) <= Cardinality(Taken(m.day))
        /\ Cardinality(Taken(m.day)) = Cardinality(m.listed) => Taken(m.day) = m.listed
        /\ IsFiniteSet(m.listed)
    BY <2>1, <2>2, FS_Subset
  <2>4. Cardinality(Taken(m.day)) \in Nat /\ Cardinality(m.listed) \in Nat
    BY <2>2, <2>3, FS_CardinalityType
  <2>5. Cardinality(m.listed) >= Cardinality(Taken(m.day))
    BY <1>1, <1>2 DEF ListRight
  <2> QED
    BY <2>3, <2>4, <2>5
<1> QED
  BY <1>1, <1>2 DEF ListRight

(* A summary that was mailed is complete, for any number of positions,     *)
(* owners and faults: it lists every close whose event was there, and      *)
(* every trade taken where the file counted them all.                      *)
THEOREM SummariesAreComplete == ReportsSpec => []SummaryIsComplete
  BY ReportsInvariant, ListIsComplete, PTL

-----------------------------------------------------------------------------
(* Reports: marks and repeats *)

(* What the cursor has, or will have after this entry.                     *)
Marked == IF writer.at = "idle" THEN cursor ELSE writer.done
Written == { journal[k].id : k \in DOMAIN journal }

(* The writer is at most one entry ahead of its cursor, and the entries    *)
(* exceed the marks by no more than the faults.                            *)
EntriesInv ==
    /\ faults \in Nat
    /\ cursor \subseteq Written /\ Marked \subseteq Written
    /\ writer.at # "idle" => \A r \in writer.todo : r.id \notin writer.done
    /\ writer.at = "asking" => writer.done = cursor
    /\ writer.at = "appended" =>
          \E p \in Positions : writer.done = cursor \cup {p}
    /\ Len(journal) <= Cardinality(Marked) + faults

LEMMA EntriesStart == ReportsInit => EntriesInv
<1> SUFFICES ASSUME ReportsInit PROVE EntriesInv
  OBVIOUS
<1>1. /\ faults = 0 /\ cursor = {} /\ writer.at = "idle" /\ Len(journal) = 0
  BY DEF ReportsInit, Idle
<1>2. Cardinality({}) = 0
  BY FS_EmptySet
<1> QED
  BY <1>1, <1>2 DEF EntriesInv, Marked

LEMMA MarkedTyped ==
    ASSUME JobsTyped
    PROVE  /\ cursor \subseteq Positions /\ Marked \subseteq Positions
           /\ IsFiniteSet(Marked) /\ Cardinality(Marked) \in Nat
           /\ writer.at \in {"idle", "asking", "appended"}
           /\ writer.at # "idle" =>
                 /\ writer = [at |-> writer.at, todo |-> writer.todo,
                              done |-> writer.done]
                 /\ writer.todo \subseteq RecordSet
                 /\ writer.done \subseteq Positions
<1>1. /\ writer.at \in {"idle", "asking", "appended"}
      /\ writer.at # "idle" =>
            /\ writer = [at |-> writer.at, todo |-> writer.todo,
                         done |-> writer.done]
            /\ writer.todo \subseteq RecordSet
            /\ writer.done \subseteq Positions
  BY DEF JobsTyped
<1>2. cursor \subseteq Positions /\ Marked \subseteq Positions
  BY <1>1 DEF JobsTyped, Marked
<1>3. IsFiniteSet(Marked) /\ Cardinality(Marked) \in Nat
  BY <1>2, ReportConfig, FS_Subset, FS_CardinalityType
<1> QED
  BY <1>1, <1>2, <1>3

(* Only a fault is counted, and only the writer touches what it keeps.     *)
LEMMA OthersKeepEntries ==
    ASSUME EntriesInv, JobsTyped, [ReportsNext]_reportVars,
           ~(JournalStart \/ JournalAppend \/ JournalSave \/ JournalFails)
    PROVE  EntriesInv'
<1> USE DEF market, botSide, files, jobs, mailed
<1>1. UNCHANGED << journal, cursor, writer >>
      /\ (faults' = faults \/ faults' = faults + 1)
  <2>1. CASE Bot
    BY <2>1 DEF Bot, Open, Close, Drop, CloseUntracked, FullWrite, Restart,
                ArchiveRun, Decide, Appends
  <2>2. CASE ~Bot
    BY <2>2 DEF ReportsNext, NewDay, GetsLate, SummaryStart, SummaryBuild,
                SummarySend, SummarySave, SummaryFails, WatchStart, WatchSend,
                WatchSave, WatchFails, reportVars
  <2> QED
    BY <2>1, <2>2
<1>2. Marked' = Marked /\ Written' = Written
  BY <1>1 DEF Marked, Written
<1>3. Cardinality(Marked) \in Nat /\ faults \in Nat /\ Len(journal) \in Nat
  BY MarkedTyped DEF EntriesInv, JobsTyped
<1>4. Len(journal)' <= Cardinality(Marked)' + faults' /\ faults' \in Nat
  BY <1>1, <1>2, <1>3 DEF EntriesInv
<1> QED
  BY <1>1, <1>2, <1>4 DEF EntriesInv

LEMMA EntriesStep ==
    ReportsInv /\ EntriesInv /\ [ReportsNext]_reportVars => EntriesInv'
<1> SUFFICES ASSUME ReportsInv, EntriesInv, [ReportsNext]_reportVars
             PROVE  EntriesInv'
  OBVIOUS
<1> USE DEF market, botSide, files, jobs, mailed
<1>0. JobsTyped /\ RecordsInv /\ JobsTyped'
  BY ReportsTypes DEF ReportsInv
<1>1. /\ cursor \subseteq Positions /\ Marked \subseteq Positions
      /\ IsFiniteSet(Marked) /\ Cardinality(Marked) \in Nat
      /\ faults \in Nat /\ Len(journal) \in Nat
      /\ Len(journal) <= Cardinality(Marked) + faults
  BY <1>0, MarkedTyped DEF EntriesInv, JobsTyped
<1>2. CASE JournalStart
  <2>1. writer.at = "idle" /\ UNCHANGED << journal, cursor, faults >>
    BY <1>2 DEF JournalStart
  <2>2. \/ writer' = Idle
        \/ \E new : /\ writer' = [at |-> "asking", todo |-> new, done |-> cursor]
                    /\ \A r \in new : r.id \notin cursor
    BY <1>2 DEF JournalStart
  <2>3. Marked' = Marked /\ Written' = Written
    BY <2>1, <2>2 DEF Marked, Written, Idle
  <2>4. /\ writer'.at \in {"idle", "asking"}
        /\ writer'.at # "idle" => /\ writer'.done = cursor
                                  /\ \A r \in writer'.todo : r.id \notin cursor
    BY <2>2 DEF Idle
  <2> QED
    BY <1>1, <2>1, <2>3, <2>4 DEF EntriesInv
<1>3. CASE JournalAppend
  <2>1. PICK r \in writer.todo :
          /\ journal' = Append(journal, r)
          /\ writer' = [at |-> "appended", todo |-> writer.todo \ {r},
                        done |-> writer.done \cup {r.id}]
    BY <1>3 DEF JournalAppend
  <2>2. /\ writer.at = "asking" /\ writer.done = cursor /\ Marked = cursor
        /\ UNCHANGED << cursor, faults >>
    BY <1>3 DEF JournalAppend, EntriesInv, Marked
  <2>3. r \in RecordSet /\ r.id \in Positions /\ r.id \notin cursor
    BY <1>0, <2>1, <2>2, MarkedTyped DEF EntriesInv, RecordSet
  <2>4. Marked' = Marked \cup {r.id}
    BY <2>1, <2>2 DEF Marked
  <2>5. Written' = Written \cup {r.id} /\ Len(journal') = Len(journal) + 1
    <3>1. Entries' = Entries \cup {r}
      BY <1>0, <2>1, <2>3, JournalGrows DEF JobsTyped
    <3>2. Written = { e.id : e \in Entries } /\ Written' = { e.id : e \in Entries' }
      BY DEF Written, Entries
    <3>3. Len(journal') = Len(journal) + 1
      BY <1>0, <2>1, <2>3 DEF JobsTyped
    <3> QED
      BY <3>1, <3>2, <3>3
  <2>6. Cardinality(Marked') = Cardinality(Marked) + 1
    BY <1>1, <2>2, <2>3, <2>4, FS_AddElement
  <2>7. Len(journal') <= Cardinality(Marked') + faults'
    BY <1>1, <2>2, <2>5, <2>6
  <2>8. \A q \in writer'.todo : q.id \notin writer'.done
    <3>1. \A q \in writer.todo : q.id = r.id => q = r
      BY <1>0, <2>1, <2>2 DEF RecordsInv, Records, Awaiting
    <3> QED
      BY <2>1, <2>2, <3>1 DEF EntriesInv
  <2> QED
    BY <1>1, <2>1, <2>2, <2>3, <2>4, <2>5, <2>7, <2>8 DEF EntriesInv
<1>4. CASE JournalSave
  <2>1. /\ writer.at = "appended" /\ cursor' = writer.done /\ Marked = writer.done
        /\ UNCHANGED << journal, faults >>
        /\ \/ writer' = Idle
           \/ writer' = [writer EXCEPT !.at = "asking"]
    BY <1>4 DEF JournalSave, Cursor, Marked
  <2>2. writer = [at |-> writer.at, todo |-> writer.todo, done |-> writer.done]
    BY <1>0, <2>1, MarkedTyped
  <2>3. /\ writer'.at \in {"idle", "asking"}
        /\ writer'.at # "idle" => /\ writer'.done = writer.done
                                  /\ writer'.todo = writer.todo
    <3>1. CASE writer' = Idle
      BY <3>1 DEF Idle
    <3>2. CASE writer' = [writer EXCEPT !.at = "asking"]
      BY <2>2, <3>2
    <3> QED
      BY <2>1, <3>1, <3>2
  <2>4. Marked' = Marked /\ Written' = Written
    BY <2>1, <2>3 DEF Marked, Written
  <2> QED
    BY <1>1, <2>1, <2>3, <2>4 DEF EntriesInv
<1>5. CASE JournalFails
  <2>1. /\ writer.at # "idle" /\ writer' = Idle /\ faults' = faults + 1
        /\ UNCHANGED << journal, cursor >>
    BY <1>5 DEF JournalFails
  <2>2. Marked' = cursor /\ Written' = Written /\ writer'.at = "idle"
    BY <2>1 DEF Marked, Written, Idle
  <2>3. IsFiniteSet(cursor) /\ Cardinality(cursor) \in Nat
    BY <1>1, ReportConfig, FS_Subset, FS_CardinalityType
  <2>4. Cardinality(Marked) <= Cardinality(cursor) + 1
    <3>1. CASE writer.at = "asking"
      BY <2>3, <3>1 DEF EntriesInv, Marked
    <3>2. CASE writer.at = "appended"
      <4>1. PICK p \in Positions : Marked = cursor \cup {p}
        BY <3>2 DEF EntriesInv, Marked
      <4> QED
        BY <2>3, <4>1, FS_AddElement
    <3> QED
      BY <1>0, <2>1, <3>1, <3>2, MarkedTyped
  <2>5. Len(journal') <= Cardinality(Marked') + faults'
    BY <1>1, <2>1, <2>2, <2>3, <2>4
  <2> QED
    BY <1>1, <2>1, <2>2, <2>5 DEF EntriesInv
<1> QED
  BY <1>0, <1>2, <1>3, <1>4, <1>5, OthersKeepEntries

(* Nothing is journalled twice unless a fault came between an entry and    *)
(* its mark: for any number of trades, runs and faults.                    *)
THEOREM RepeatsAreFaults == ReportsSpec => []RepeatsNeedFaults
<1>1. ReportsSpec => []EntriesInv
  BY EntriesStart, EntriesStep, ReportsInvariant, PTL DEF ReportsSpec
<1>2. ReportsInv /\ EntriesInv => RepeatsNeedFaults
  <2> SUFFICES ASSUME ReportsInv, EntriesInv PROVE RepeatsNeedFaults
    OBVIOUS
  <2>1. JobsTyped
    BY DEF ReportsInv
  <2>2. Written \subseteq Positions
    <3>1. \A k \in DOMAIN journal : journal[k] \in RecordSet
      BY <2>1 DEF JobsTyped
    <3> QED
      BY <3>1 DEF Written, RecordSet
  <2>3. IsFiniteSet(Written)
    BY <2>2, ReportConfig, FS_Subset
  <2>4. Marked \in SUBSET Written
    BY DEF EntriesInv
  <2>5. /\ Cardinality(Marked) <= Cardinality(Written)
        /\ Cardinality(Marked) \in Nat /\ Cardinality(Written) \in Nat
    BY <2>1, <2>3, <2>4, FS_Subset, FS_CardinalityType, MarkedTyped
  <2>6. Len(journal) \in Nat /\ faults \in Nat
        /\ Len(journal) <= Cardinality(Marked) + faults
    BY <2>1 DEF JobsTyped, EntriesInv
  <2>7. Len(journal) <= Cardinality(Written) + faults
    BY <2>5, <2>6
  <2> QED
    BY <2>7 DEF RepeatsNeedFaults, Written
<1> QED
  BY <1>1, <1>2, ReportsInvariant, PTL

(* Marks of mails *)

Mailed(d) == \E m \in mails : m.day = d

MailsInv ==
    /\ \A d \in sentDates : Mailed(d)
    /\ summary.at = "sent" => Mailed(summary.day)

LEMMA MailsStep ==
    ReportsInv /\ MailsInv /\ [ReportsNext]_reportVars => MailsInv'
<1> SUFFICES ASSUME ReportsInv, MailsInv, [ReportsNext]_reportVars
             PROVE  MailsInv'
  OBVIOUS
<1> USE DEF market, botSide, files, jobs, mailed
<1>1. CASE UNCHANGED << sentDates, summary, mails >>
  BY <1>1 DEF MailsInv, Mailed
<1>2. CASE SummaryStart \/ SummaryBuild \/ SummaryFails
  <2>1. UNCHANGED << sentDates, mails >> /\ summary'.at # "sent"
    BY <1>2 DEF SummaryStart, SummaryBuild, SummaryFails, Idle
  <2> QED
    BY <2>1 DEF MailsInv, Mailed
<1>3. CASE SummarySend
  <2>1. summary \in Mail({"built"})
    BY <1>3 DEF SummarySend, ReportsInv, JobsTyped, Mail
  <2>2. /\ mails' = mails \cup {[summary EXCEPT !.at = "mail"]}
        /\ summary' = [summary EXCEPT !.at = "sent"]
        /\ sentDates' = sentDates
    BY <1>3 DEF SummarySend
  <2>3. summary'.day = summary.day /\ [summary EXCEPT !.at = "mail"].day = summary.day
    BY <2>1, <2>2 DEF Mail
  <2>4. Mailed(summary.day)' /\ \A d : Mailed(d) => Mailed(d)'
    BY <2>2, <2>3 DEF Mailed
  <2> QED
    BY <2>2, <2>3, <2>4 DEF MailsInv, Mailed
<1>4. CASE SummarySave
  <2>1. /\ sentDates' = sentDates \cup {summary.day} /\ mails' = mails
        /\ summary.at = "sent" /\ summary'.at # "sent"
    BY <1>4 DEF SummarySave, Idle
  <2> QED
    BY <2>1 DEF MailsInv, Mailed
<1>5. ASSUME ~(SummaryStart \/ SummaryBuild \/ SummarySend \/ SummarySave
               \/ SummaryFails)
      PROVE  UNCHANGED << sentDates, summary, mails >>
  <2>1. CASE Bot
    BY <2>1 DEF Bot, Open, Close, Drop, CloseUntracked, FullWrite, Restart,
                ArchiveRun, Decide
  <2>2. CASE ~Bot
    BY <1>5, <2>2 DEF ReportsNext, NewDay, GetsLate, JournalStart, JournalAppend,
                JournalSave, JournalFails, WatchStart, WatchSend, WatchSave,
                WatchFails, reportVars
  <2> QED
    BY <2>1, <2>2
<1> QED
  BY <1>1, <1>2, <1>3, <1>4, <1>5

(* Marks of alerts *)

(* Every entry of the event journal was made before now.                   *)
StampsInv == \A k \in DOMAIN eventLog : eventLog[k].at <= Stamp

(* The greatest of some bounded numbers.                                   *)
LEMMA GreatestNatural ==
    ASSUME NEW S \in SUBSET Nat, S # {}, NEW b \in Nat, \A n \in S : n <= b
    PROVE  \E n \in S : \A m \in S : m <= n
<1> DEFINE R == { ss \in Nat \X Nat : ss[1] < ss[2] }
           T == { n \in Nat : \A m \in S : m <= n }
<1>1. IsWellFoundedOn(R, Nat)
  BY NatLessThanWellFounded DEF OpToRel
<1>2. \A x, y \in Nat : x < y => <<x, y>> \in R
  OBVIOUS
<1>3. T \subseteq Nat /\ T # {}
  OBVIOUS
<1> HIDE DEF R
<1>4. PICK n \in T : \A m \in T : ~ (<<m, n>> \in R)
  BY <1>1, <1>3, WFMin
<1>5. \A m \in T : ~ (m < n)
  BY <1>2, <1>3, <1>4
<1>6. n \in S
  <2>1. SUFFICES ASSUME n \notin S PROVE FALSE
    OBVIOUS
  <2>2. \A m \in S : m <= n /\ m # n /\ m \in Nat /\ n \in Nat
    BY <1>3, <1>4, <2>1
  <2>3. PICK m \in S : TRUE
    OBVIOUS
  <2>4. n - 1 \in Nat /\ \A k \in S : k <= n - 1
    BY <2>2, <2>3
  <2>5. n - 1 \in T
    BY <2>4
  <2> QED
    BY <1>5, <2>2, <2>4, <2>5
<1> QED
  BY <1>4, <1>6

(* An alert tells what its key stands for.                                 *)
TellsItsKey(a) == a.key \in a.tells

LEMMA InvariantAlertTells ==
    ASSUME BotTyped, StampsInv, NEW keys, InvariantAlert(keys) # << >>
    PROVE  \E a : InvariantAlert(keys) = << a >> /\ TellsItsKey(a)
<1> DEFINE odd == { e \in Blocked : e.evidence # "pattern" /\ day - e.day <= 4 }
           last == CHOOSE e \in odd : \A f \in odd : f.at <= e.at
           key == <<"invariant", Signal(last)>>
           a == [key |-> key, tells |-> { <<"invariant", Signal(e)>> : e \in odd }]
<1>1. odd # {} /\ InvariantAlert(keys) = << a >>
  BY DEF InvariantAlert
<1>2. Stamp \in Nat /\ \A e \in odd : e.at \in Nat /\ e.at <= Stamp
  BY StampIsNatural DEF Blocked, StampsInv, BotTyped, LogEntries
<1>3. PICK n \in { e.at : e \in odd } : \A m \in { e.at : e \in odd } : m <= n
  <2>1. { e.at : e \in odd } \in SUBSET Nat /\ { e.at : e \in odd } # {}
    BY <1>1, <1>2
  <2>2. \A n \in { e.at : e \in odd } : n <= Stamp
    BY <1>2
  <2> HIDE DEF odd
  <2> QED
    BY <1>2, <2>1, <2>2, GreatestNatural
<1>4. \E e \in odd : \A f \in odd : f.at <= e.at
  BY <1>3
<1> HIDE DEF odd
<1>5. last \in odd
  BY <1>4, Zenon
<1> HIDE DEF last
<1>6. a.key = key /\ a.tells = { <<"invariant", Signal(e)>> : e \in odd }
  OBVIOUS
<1>7. TellsItsKey(a)
  BY <1>5, <1>6 DEF TellsItsKey
<1> QED
  BY <1>1, <1>7

LEMMA AlertsTell ==
    ASSUME BotTyped, StampsInv, NEW keys
    PROVE  \E S : Alerts(keys) \in Seq(S) /\ \A a \in S : TellsItsKey(a)
<1> DEFINE One(q) == q = << >> \/ \E a : q = << a >> /\ TellsItsKey(a)
<1>1. One(InvariantAlert(keys))
  BY InvariantAlertTells
<1>2. One(PatternAlert(keys))
  <2>1. \/ PatternAlert(keys) = << >>
        \/ \E k : PatternAlert(keys) = << [key |-> k, tells |-> {k}] >>
    BY Zenon DEF PatternAlert
  <2>2. \A k : TellsItsKey([key |-> k, tells |-> {k}])
    BY DEF TellsItsKey
  <2> QED
    BY <2>1, <2>2
<1>3. \A k : One(Unless(keys, k))
  <2>1. \A k : TellsItsKey([key |-> k, tells |-> {k}])
    BY DEF TellsItsKey
  <2> QED
    BY <2>1 DEF Unless
<1>4. \E p, q : /\ One(p) /\ One(q)
                /\ \/ Alerts(keys) = InvariantAlert(keys) \o PatternAlert(keys)
                   \/ Alerts(keys) = (InvariantAlert(keys) \o PatternAlert(keys)) \o p
                   \/ Alerts(keys)
                        = (InvariantAlert(keys) \o PatternAlert(keys)) \o (p \o q)
                   \/ Alerts(keys)
                        = ((InvariantAlert(keys) \o PatternAlert(keys)) \o p) \o q
  <2> DEFINE stalls == Unless(keys, AlertKey("stall", Recent))
             degrades == Unless(keys, AlertKey("degraded", Recent))
             none == Unless(keys, <<"no_trades", day>>)
  <2>1. One(<< >>) /\ One(stalls) /\ One(degrades) /\ One(none)
    BY <1>3
  <2>2. \E p, q \in {<< >>, stalls, degrades, none} :
           \/ Alerts(keys) = InvariantAlert(keys) \o PatternAlert(keys)
           \/ Alerts(keys) = (InvariantAlert(keys) \o PatternAlert(keys)) \o p
           \/ Alerts(keys)
                = (InvariantAlert(keys) \o PatternAlert(keys)) \o (p \o q)
           \/ Alerts(keys)
                = ((InvariantAlert(keys) \o PatternAlert(keys)) \o p) \o q
    BY Zenon DEF Alerts
  <2> HIDE DEF stalls, degrades, none, One
  <2> QED
    BY <2>1, <2>2
<1> DEFINE first == InvariantAlert(keys)
           second == PatternAlert(keys)
<1>5. PICK p, q : /\ One(p) /\ One(q)
                  /\ \/ Alerts(keys) = first \o second
                     \/ Alerts(keys) = (first \o second) \o p
                     \/ Alerts(keys) = (first \o second) \o (p \o q)
                     \/ Alerts(keys) = ((first \o second) \o p) \o q
  BY <1>4
<1>6. \A r : One(r) => \E b : r \in Seq({a \in {b} : TellsItsKey(a)})
  <2>1. \A r, b : r = << b >> /\ TellsItsKey(b)
                    => r \in Seq({a \in {b} : TellsItsKey(a)})
    OBVIOUS
  <2>2. \A b : << >> \in Seq({a \in {b} : TellsItsKey(a)})
    OBVIOUS
  <2> QED
    BY <2>1, <2>2
<1> HIDE DEF first, second, One
<1>7. PICK b1 : first \in Seq({a \in {b1} : TellsItsKey(a)})
  BY <1>1, <1>6 DEF first
<1>8. PICK b2 : second \in Seq({a \in {b2} : TellsItsKey(a)})
  BY <1>2, <1>6 DEF second
<1>9. PICK b3 : p \in Seq({a \in {b3} : TellsItsKey(a)})
  BY <1>5, <1>6
<1>10. PICK b4 : q \in Seq({a \in {b4} : TellsItsKey(a)})
  BY <1>5, <1>6
<1> DEFINE S == { a \in {b1, b2, b3, b4} : TellsItsKey(a) }
<1>11. first \in Seq(S) /\ second \in Seq(S) /\ p \in Seq(S) /\ q \in Seq(S)
  BY <1>7, <1>8, <1>9, <1>10
<1>12. \A a \in S : TellsItsKey(a)
  OBVIOUS
<1> HIDE DEF S
<1>13. Alerts(keys) \in Seq(S)
  <2>1. first \o second \in Seq(S) /\ p \o q \in Seq(S)
    BY <1>11
  <2>2. (first \o second) \o p \in Seq(S) /\ (first \o second) \o (p \o q) \in Seq(S)
    BY <1>11, <2>1
  <2>3. ((first \o second) \o p) \o q \in Seq(S)
    BY <1>11, <2>2
  <2> QED
    BY <1>5, <2>1, <2>2, <2>3
<1> QED
  BY <1>12, <1>13

LEMMA StampGrows ==
    ASSUME BotTyped, StampsInv, runs' = runs, NEW e, e.at = Stamp,
           eventLog' = Append(eventLog, e)
    PROVE  StampsInv'
<1> DEFINE S == LogEntries \cup {e}
<1>1. eventLog \in Seq(S) /\ e \in S
  BY DEF BotTyped
<1> HIDE DEF S
<1>2. /\ Len(eventLog) \in Nat /\ DOMAIN eventLog = 1..Len(eventLog)
      /\ Len(eventLog') = Len(eventLog) + 1
      /\ DOMAIN eventLog' = 1..Len(eventLog) + 1
      /\ \A k \in 1..Len(eventLog) : eventLog'[k] = eventLog[k]
      /\ eventLog'[Len(eventLog) + 1] = e
  BY <1>1
<1>3. Stamp \in Nat /\ Len(runs) \in Nat
  BY StampIsNatural DEF BotTyped
<1>4. Stamp' = Stamp + 1
  BY <1>2, <1>3 DEF Stamp
<1>5. \A k \in DOMAIN eventLog : eventLog[k].at \in Nat /\ eventLog[k].at <= Stamp
  BY DEF StampsInv, BotTyped, LogEntries
<1>6. ASSUME NEW k \in DOMAIN eventLog' PROVE eventLog'[k].at <= Stamp + 1
  <2>1. CASE k \in DOMAIN eventLog
    BY <1>2, <1>3, <1>5, <2>1
  <2>2. CASE k \notin DOMAIN eventLog
    <3>1. eventLog'[k] = e
      BY <1>2, <1>6, <2>2
    <3> QED
      BY <1>3, <3>1
  <2> QED
    BY <2>1, <2>2
<1> QED
  BY <1>4, <1>6 DEF StampsInv

LEMMA StampsStep ==
    ReportsInv /\ StampsInv /\ [ReportsNext]_reportVars => StampsInv'
<1> SUFFICES ASSUME ReportsInv, StampsInv, [ReportsNext]_reportVars
             PROVE  StampsInv'
  OBVIOUS
<1> USE DEF market, botSide, files, jobs, mailed
<1>0. BotTyped
  BY DEF ReportsInv
<1>1. CASE UNCHANGED << eventLog, runs >>
  BY <1>1 DEF StampsInv, Stamp
<1>2. ASSUME NEW p \in Positions, NEW owner \in OwnersOf[p], Open(p, owner)
      PROVE  StampsInv'
  <2> DEFINE e == [type |-> "opened", id |-> p, owner |-> owner, day |-> day,
                   at |-> Stamp]
  <2>1. runs' = runs /\ (eventLog' = eventLog \/ eventLog' = Append(eventLog, e))
    BY <1>2 DEF Open, Appends
  <2>2. e.at = Stamp
    OBVIOUS
  <2> HIDE DEF e
  <2> QED
    BY <1>0, <1>1, <2>1, <2>2, StampGrows
<1>3. ASSUME NEW p \in Positions, Close(p) PROVE StampsInv'
  <2> DEFINE e == [type |-> "closed", id |-> p, owner |-> pos[p].owner,
                   day |-> day, at |-> Stamp]
  <2>1. runs' = runs /\ (eventLog' = eventLog \/ eventLog' = Append(eventLog, e))
    BY <1>3 DEF Close, Appends
  <2>2. e.at = Stamp
    OBVIOUS
  <2> HIDE DEF e
  <2> QED
    BY <1>0, <1>1, <2>1, <2>2, StampGrows
<1>4. ASSUME NEW slot \in Slots, NEW evidence \in {"pattern", "mismatch", "none"},
             Decide(slot, evidence)
      PROVE  StampsInv'
  <2> DEFINE e == [type |-> "blocked", day |-> day, slot |-> slot,
                   evidence |-> evidence, at |-> Stamp]
  <2>1. runs' = runs /\ eventLog' = Append(eventLog, e)
    BY <1>4 DEF Decide
  <2>2. e.at = Stamp
    OBVIOUS
  <2> HIDE DEF e
  <2> QED
    BY <1>0, <2>1, <2>2, StampGrows
<1>5. ASSUME NEW kind \in RunKinds, ArchiveRun(kind) PROVE StampsInv'
  <2> DEFINE r == [day |-> day, at |-> Stamp, kind |-> kind]
  <2>1. eventLog' = eventLog /\ runs' = Append(runs, r)
    BY <1>5 DEF ArchiveRun
  <2>2. /\ Len(runs') = Len(runs) + 1 /\ Len(runs) \in Nat
        /\ Len(eventLog) \in Nat /\ Stamp \in Nat
    BY <1>0, <2>1, StampIsNatural DEF BotTyped
  <2>3. Stamp' = Stamp + 1
    BY <2>1, <2>2 DEF Stamp
  <2>4. \A k \in DOMAIN eventLog : eventLog[k].at \in Nat /\ eventLog[k].at <= Stamp
    BY <1>0 DEF StampsInv, BotTyped, LogEntries
  <2>5. \A k \in DOMAIN eventLog : eventLog[k].at <= Stamp + 1
    BY <2>2, <2>4
  <2> QED
    BY <2>1, <2>3, <2>5 DEF StampsInv
<1>6. CASE Bot
  <2>1. ASSUME NEW p \in Positions, Drop(p) \/ CloseUntracked(p) PROVE StampsInv'
    BY <1>1, <2>1 DEF Drop, CloseUntracked
  <2>2. CASE FullWrite \/ Restart
    BY <1>1, <2>2 DEF FullWrite, Restart
  <2> QED
    BY <1>2, <1>3, <1>4, <1>5, <1>6, <2>1, <2>2 DEF Bot
<1>7. CASE ~Bot
  BY <1>1, <1>7 DEF ReportsNext, NewDay, GetsLate, JournalStart, JournalAppend,
        JournalSave, JournalFails, SummaryStart, SummaryBuild, SummarySend,
        SummarySave, SummaryFails, WatchStart, WatchSend, WatchSave, WatchFails,
        reportVars
<1> QED
  BY <1>6, <1>7

(* A sequence of alerts that tell their keys.                              *)
Queue(q) == /\ q \in Seq({ q[k] : k \in DOMAIN q })
            /\ \A k \in DOMAIN q : TellsItsKey(q[k])

LEMMA QueueFrom ==
    ASSUME NEW S, NEW q \in Seq(S), \A a \in S : TellsItsKey(a)
    PROVE  Queue(q)
<1>1. /\ Len(q) \in Nat /\ DOMAIN q = 1..Len(q)
      /\ \A k \in DOMAIN q : q[k] \in S
  OBVIOUS
<1>2. q = [k \in 1..Len(q) |-> q[k]]
  BY <1>1
<1>3. q \in [1..Len(q) -> { q[k] : k \in DOMAIN q }]
  BY <1>1, <1>2
<1>4. q \in Seq({ q[k] : k \in DOMAIN q })
  BY <1>1, <1>3, SeqDef
<1> QED
  BY <1>1, <1>4 DEF Queue

LEMMA QueueTail ==
    ASSUME NEW q, Queue(q), q # << >>
    PROVE  Queue(Tail(q)) /\ TellsItsKey(Head(q))
<1> DEFINE S == { q[k] : k \in DOMAIN q }
<1>1. q \in Seq(S) /\ \A a \in S : TellsItsKey(a)
  BY DEF Queue
<1> HIDE DEF S
<1>2. Tail(q) \in Seq(S) /\ Head(q) \in S
  BY <1>1
<1> QED
  BY <1>1, <1>2, QueueFrom

(* The monitor holds the keys that were told, and saves one once it is.    *)
ToldInv ==
    /\ sentKeys \in Seq(told)
    /\ watch.at \in {"idle", "sending", "sent"}
    /\ watch.at # "idle" =>
          /\ watch = [at |-> watch.at, queue |-> watch.queue, keys |-> watch.keys]
          /\ watch.keys \in Seq(told)
          /\ watch.queue # << >> /\ Queue(watch.queue)
    /\ watch.at = "sent" => Head(watch.queue).tells \subseteq told

LEMMA ToldStep ==
    ReportsInv /\ StampsInv /\ ToldInv /\ [ReportsNext]_reportVars => ToldInv'
<1> SUFFICES ASSUME ReportsInv, StampsInv, ToldInv, [ReportsNext]_reportVars
             PROVE  ToldInv'
  OBVIOUS
<1> USE DEF market, botSide, files, jobs, mailed
<1>1. CASE UNCHANGED << sentKeys, watch, told >>
  BY <1>1 DEF ToldInv
<1>2. CASE WatchStart
  <2> DEFINE queue == Alerts(ToSet(sentKeys))
  <2>1. /\ UNCHANGED << sentKeys, told >>
        /\ \/ watch' = Idle
           \/ /\ queue # << >>
              /\ watch' = [at |-> "sending", queue |-> queue, keys |-> sentKeys]
    BY <1>2 DEF WatchStart
  <2>2. Queue(queue)
    <3>1. BotTyped
      BY DEF ReportsInv
    <3>2. PICK S : queue \in Seq(S) /\ \A a \in S : TellsItsKey(a)
      BY <3>1, AlertsTell
    <3> HIDE DEF queue
    <3> QED
      BY <3>2, QueueFrom
  <2> HIDE DEF queue
  <2> QED
    BY <2>1, <2>2 DEF ToldInv, Idle
<1>3. CASE WatchSend
  <2>1. /\ watch.at = "sending" /\ sentKeys' = sentKeys
        /\ told' = told \cup Head(watch.queue).tells
        /\ watch' = [watch EXCEPT !.at = "sent"]
    BY <1>3 DEF WatchSend
  <2>2. watch' = [at |-> "sent", queue |-> watch.queue, keys |-> watch.keys]
    BY <2>1 DEF ToldInv
  <2>3. told \subseteq told' /\ Head(watch.queue).tells \subseteq told'
    BY <2>1
  <2>4. sentKeys' \in Seq(told') /\ watch.keys \in Seq(told')
    BY <2>1, <2>3 DEF ToldInv
  <2> QED
    BY <2>1, <2>2, <2>3, <2>4 DEF ToldInv
<1>4. CASE WatchSave
  <2>1. /\ watch.at = "sent" /\ told' = told
        /\ sentKeys' = Append(watch.keys, Head(watch.queue).key)
        /\ watch' = IF Tail(watch.queue) = << >> THEN Idle
                    ELSE [at |-> "sending", queue |-> Tail(watch.queue),
                          keys |-> sentKeys']
    BY <1>4 DEF WatchSave
  <2>2. /\ Queue(Tail(watch.queue)) /\ Head(watch.queue).key \in told
        /\ watch.keys \in Seq(told)
    BY <2>1, QueueTail DEF ToldInv, TellsItsKey
  <2>3. sentKeys' \in Seq(told)
    BY <2>1, <2>2
  <2> QED
    BY <2>1, <2>2, <2>3 DEF ToldInv, Idle
<1>5. CASE WatchFails
  BY <1>5 DEF WatchFails, ToldInv, Idle
<1>6. CASE Bot
  BY <1>1, <1>6 DEF Bot, Open, Close, Drop, CloseUntracked, FullWrite, Restart,
                    ArchiveRun, Decide
<1>7. CASE \/ NewDay \/ GetsLate \/ UNCHANGED reportVars
           \/ JournalStart \/ JournalAppend \/ JournalSave \/ JournalFails
           \/ SummaryStart \/ SummaryBuild \/ SummarySend \/ SummarySave
           \/ SummaryFails
  BY <1>1, <1>7 DEF NewDay, GetsLate, JournalStart, JournalAppend, JournalSave,
        JournalFails, SummaryStart, SummaryBuild, SummarySend, SummarySave,
        SummaryFails, reportVars
<1> QED
  BY <1>2, <1>3, <1>4, <1>5, <1>6, <1>7 DEF ReportsNext

LEMMA MarksStart == ReportsInit => MailsInv /\ StampsInv /\ ToldInv
  BY DEF ReportsInit, Idle, MailsInv, StampsInv, ToldInv

(* No mark is set before what it stands for is done: no crash, full disk   *)
(* or refused mail makes a job skip a trade, a day or an alert.            *)
THEOREM MarksAreEarned == ReportsSpec => []MarkedIsDone
<1>1. ReportsSpec => []EntriesInv
  BY EntriesStart, EntriesStep, ReportsInvariant, PTL DEF ReportsSpec
<1>2. ReportsSpec => []MailsInv
  BY MarksStart, MailsStep, ReportsInvariant, PTL DEF ReportsSpec
<1>3. ReportsSpec => []StampsInv
  BY MarksStart, StampsStep, ReportsInvariant, PTL DEF ReportsSpec
<1>4. ReportsSpec => []ToldInv
  BY <1>3, MarksStart, ToldStep, ReportsInvariant, PTL DEF ReportsSpec
<1>5. EntriesInv /\ MailsInv /\ ToldInv => MarkedIsDone
  <2> SUFFICES ASSUME EntriesInv, MailsInv, ToldInv PROVE MarkedIsDone
    OBVIOUS
  <2>1. \A p \in cursor : Journalled(p)
    BY DEF EntriesInv, Written, Journalled
  <2>2. writer.at # "idle" => \A p \in writer.done : Journalled(p)
    BY DEF EntriesInv, Written, Marked, Journalled
  <2>3. \A d \in sentDates : \E m \in mails : m.day = d
    BY DEF MailsInv, Mailed
  <2>4. ToSet(sentKeys) \subseteq told
    BY DEF ToldInv, ToSet
  <2> QED
    BY <2>1, <2>2, <2>3, <2>4 DEF MarkedIsDone
<1> QED
  BY <1>1, <1>2, <1>4, <1>5, PTL

=============================================================================
