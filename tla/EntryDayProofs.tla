--------------------------- MODULE EntryDayProofs ---------------------------
(***************************************************************************)
(* Proofs about EntryDay for any signals, markets, balance and limits.     *)
(***************************************************************************)
EXTENDS EntryDay, FiniteSetTheorems, TLAPS

-----------------------------------------------------------------------------
(* The rules return what their names promise. *)

(* The distance of a stop is at least ten dollars.                         *)
LEMMA DistanceType ==
    ASSUME NEW s \in Signal, NEW m \in Market
    PROVE  StopDistance(s, m) \in Nat /\ StopDistance(s, m) >= StopMin
  <1> USE DEF StopMin, StopMax, Greater, Lesser
  <1>1. s.stop \in Nat /\ m.reach \in Nat /\ m.spread \in Int
    BY DEF Signal, Market
  <1>2. MaxStop(s) \in Nat
    BY <1>1 DEF MaxStop
  <1>3. InitialStop(s, m) \in Nat /\ InitialStop(s, m) >= StopMin
    BY <1>1, <1>2 DEF InitialStop
  <1>4. /\ Widened(InitialStop(s, m), MaxStop(s)) \in Nat
        /\ Widened(InitialStop(s, m), MaxStop(s)) >= StopMin
    BY <1>2, <1>3 DEF Widened
  <1> QED
    BY <1>3, <1>4 DEF StopDistance

LEMMA BudgetType ==
    ASSUME NEW result \in Int
    PROVE  CashRiskBudget(result) \in Int
  BY EntryConfig DEF CashRiskBudget, Lesser

(* A signal with its confirmation is a signal.                             *)
LEMMA ConfirmedType ==
    ASSUME NEW s \in Signal,
           NEW c \in {"PENDING", "CONFIRMED", "SOFT", "CONFLICT", "SKIP"}
    PROVE  [s EXCEPT !.confirm = c] \in Signal
  BY DEF Signal

(* The inverse of a directional signal is a confirmed signal.              *)
LEMMA CounterType ==
    ASSUME NEW s \in Signal, Directional(s)
    PROVE  /\ CounterOf(s) \in Signal
           /\ CounterOf(s).confirm = "CONFIRMED"
  <1> DEFINE r1 == [s EXCEPT !.action = Opposite(s.action)]
             r2 == [r1 EXCEPT !.confidence = CounterConfidence]
             r3 == [r2 EXCEPT !.consensus = "aligned", !.validator = "reviewed"]
             r4 == [r3 EXCEPT !.summary = "none", !.mentions = FALSE]
             r5 == [r4 EXCEPT !.locked = FALSE]
             r6 == [r5 EXCEPT !.confirm = "CONFIRMED"]
             r7 == [r6 EXCEPT !.counter = TRUE]
  <1>1. CounterOf(s) = r7
    BY Zenon DEF CounterOf
  <1>2. Opposite(s.action) \in Actions
    BY DEF Opposite, Actions
  <1>3. r1 \in Signal
    BY <1>2 DEF Signal
  <1> HIDE DEF r1
  <1>4. r2 \in Signal
    BY <1>3 DEF Signal, CounterConfidence
  <1> HIDE DEF r2
  <1>5. r3 \in Signal
    BY <1>4 DEF Signal
  <1> HIDE DEF r3
  <1>6. r4 \in Signal
    BY <1>5 DEF Signal
  <1> HIDE DEF r4
  <1>7. r5 \in Signal
    BY <1>6 DEF Signal
  <1> HIDE DEF r5
  <1>8. r6 \in Signal
    BY <1>7 DEF Signal
  <1> HIDE DEF r6
  <1>9. r7 \in Signal
    BY <1>8 DEF Signal
  <1>10. CounterOf(s).confirm = "CONFIRMED"
    BY DEF CounterOf, Signal
  <1> QED
    BY <1>1, <1>9, <1>10

(* A candidate that the market confirms is a signal.                       *)
LEMMA CandidateType ==
    ASSUME NEW s \in Signal, NEW m \in Market,
           Candidate(s, m).confirm \in {"CONFIRMED", "SOFT"}
    PROVE  Candidate(s, m) \in Signal
  <1>1. CASE CounterAllowed(s, m, Confirmed(s, m))
    BY <1>1, CounterType DEF Candidate, CounterAllowed
  <1>2. CASE ~CounterAllowed(s, m, Confirmed(s, m))
    <2>1. Candidate(s, m) = [s EXCEPT !.confirm = Confirmed(s, m)]
      BY <1>2 DEF Candidate
    <2>2. Candidate(s, m).confirm = Confirmed(s, m)
      BY <2>1 DEF Signal
    <2> QED
      BY <2>1, <2>2, ConfirmedType
  <1> QED
    BY <1>1, <1>2

LEMMA EnteringType ==
    ASSUME NEW m \in Market, signal \in Signal, NEW c \in Entering(m)
    PROVE  c \in Signal /\ c.confirm \in {"CONFIRMED", "SOFT"}
  BY CandidateType DEF Entering

(* A signal whose bucket is not blocked has a direction.                   *)
LEMMA GradedIsDirectional ==
    ASSUME NEW s, Bucket(s) # "blocked"
    PROVE  s.action \in Actions
  BY DEF Bucket, Graded, AssuranceBlocks, Directional

LEMMA AssuranceRiskType ==
    ASSUME NEW s, NEW bucket
    PROVE  AssuranceRisk(bucket, s) \in {0, 25, 50, 100, 150}
  <1>1. CASE bucket \in {"high", "medium", "low"}
    BY <1>1 DEF AssuranceRisk, LowRisk
  <1>2. CASE bucket \notin {"high", "medium", "low"}
    BY <1>2 DEF AssuranceRisk
  <1> QED
    BY <1>1, <1>2

LEMMA QualityRiskType ==
    ASSUME NEW score
    PROVE  QualityRisk(score) \in {25, 50, 100}
  <1>1. CASE score \in {0, 1}
    BY <1>1 DEF QualityRisk
  <1>2. CASE score \notin {0, 1}
    BY <1>2 DEF QualityRisk
  <1> QED
    BY <1>1, <1>2

(* The risk asked for is a number of pence.                                *)
LEMMA RequestedRiskType ==
    ASSUME NEW budget \in Int, NEW s, NEW bucket, NEW losses \in Nat,
           NEW at, NEW score, NEW addon
    PROVE  RequestedRisk(budget, s, bucket, losses, at, score, addon) \in Int
  <1> DEFINE a == Scale(budget * 100, AssuranceRisk(bucket, s))
             b == Scale(a, Cooldown(losses))
             c == Scale(b, SlotRisk(at))
             d == Scale(c, IF s.counter THEN CounterRisk ELSE 100)
             e == Scale(d, IF s.confirm = "SOFT" THEN SoftRisk ELSE 100)
             f == Scale(e, QualityRisk(score))
             g == Scale(f, IF addon THEN AddonRisk ELSE 100)
  <1>1. RequestedRisk(budget, s, bucket, losses, at, score, addon)
          = (g + 50) \div 100
    BY DEF RequestedRisk
  <1>2. a \in Int
    BY AssuranceRiskType DEF Scale
  <1> HIDE DEF a
  <1>3. b \in Int
    BY <1>2 DEF Scale, Cooldown
  <1> HIDE DEF b
  <1>4. c \in Int
    BY <1>3 DEF Scale, SlotRisk, UsOpenRisk
  <1> HIDE DEF c
  <1>5. d \in Int
    BY <1>4 DEF Scale, CounterRisk
  <1> HIDE DEF d
  <1>6. e \in Int
    BY <1>5 DEF Scale, SoftRisk
  <1> HIDE DEF e
  <1>7. f \in Int
    BY <1>6, QualityRiskType DEF Scale
  <1> HIDE DEF f
  <1>8. g \in Int
    BY <1>7 DEF Scale, AddonRisk
  <1> HIDE DEF g
  <1> QED
    BY <1>1, <1>8

LEMMA MinimumRiskType ==
    ASSUME NEW distance \in Nat, distance > 0
    PROVE  MinimumRisk(distance) \in Nat
  BY EntryConfig DEF MinimumRisk

LEMMA LotStepsType ==
    ASSUME NEW cash \in Int, NEW distance \in Nat, distance > 0
    PROVE  LotSteps(cash, distance) \in Nat
  <1>1. distance * StepOunces \in Nat /\ distance * StepOunces > 0
    BY EntryConfig
  <1>2. cash \div (distance * StepOunces) \in Int
    BY <1>1
  <1>3. Lesser(cash \div (distance * StepOunces), MaxSteps) \in Int
    BY <1>2, EntryConfig DEF Lesser
  <1> QED
    BY <1>3, EntryConfig DEF LotSteps

(* The lot of an order risks a number of pence.                            *)
LEMMA SizingType ==
    ASSUME NEW c \in Signal, NEW m \in Market, NEW losers,
           NEW losses \in Nat, pnl \in Int
    PROVE  /\ Sizing(c, m, losers, losses).risk \in Int
           /\ Sizing(c, m, losers, losses).canary \in BOOLEAN
           /\ Sizing(c, m, losers, losses).lifted \in BOOLEAN
  <1> DEFINE bucket == Bucket(c)
             distance == StopDistance(c, m)
             budget == CashRiskBudget(pnl)
             minimum == MinimumRisk(distance)
             canary == Canary(c, bucket, budget, minimum, CanariesUsed)
             requested == RequestedRisk(budget, c, bucket, losses, slot,
                              QualityScore(c, m, losers, orders), Held # {})
             cash == CashRisk(requested, budget, minimum,
                         c.counter /\ CounterOnly,
                         LiftAllowed(c, bucket, canary))
  <1>1. Sizing(c, m, losers, losses)
          = Granted(c, bucket, distance, requested, canary, cash)
    BY DEF Sizing, Weighed, Requested
  <1>2. distance \in Nat /\ distance > 0
    BY DistanceType DEF StopMin
  <1>3. budget \in Int
    BY BudgetType
  <1>4. requested \in Int
    BY <1>3, RequestedRiskType
  <1>5. minimum \in Int
    BY <1>2, MinimumRiskType
  <1>6. cash \in Int
    BY <1>4, <1>5 DEF CashRisk
  <1> HIDE DEF cash, requested, minimum, budget, distance, canary, bucket
  <1>7. LotSteps(cash, distance) * StepOunces * distance \in Int
    BY <1>2, <1>6, LotStepsType, EntryConfig
  <1>8. Granted(c, bucket, distance, requested, canary, cash).risk \in Int
    BY <1>7 DEF Granted
  <1>9. Granted(c, bucket, distance, requested, canary, cash).canary \in BOOLEAN
    BY DEF Granted
  <1>10. Granted(c, bucket, distance, requested, canary, cash).lifted \in BOOLEAN
    BY DEF Granted
  <1> QED
    BY <1>1, <1>8, <1>9, <1>10

-----------------------------------------------------------------------------
(* The inductive invariant *)

(* The place of a position tells whether it is an add-on.                  *)
SidesMatch ==
    /\ open["addon"] # NoPosition => open["addon"].addon
    /\ open["main"] # NoPosition => ~open["main"].addon

(* What lifts a reduced risk of the signal's own is a canary.              *)
LiftsAreCanaries == \A o \in orders : o.lifted /\ ~o.counter => o.canary

(* The day without the orders, and the orders.                             *)
DayInv == TypeOK /\ SidesMatch /\ AddonRidesProtected /\ WorstCaseWithinLimit

OrdersInv == IsFiniteSet(orders) /\ LiftsAreCanaries /\ CanariesCapped

IInv == DayInv /\ OrdersInv

(* The place of a new position is free, and beside an add-on to be stands  *)
(* a protected position in its direction.                                  *)
LEMMA FreePlace ==
    ASSUME TypeOK, SidesMatch, NEW c, Held # {} => AddonAllowed(c, slot, Held)
    PROVE  /\ NewPlace \in Places
           /\ open[NewPlace] = NoPosition
           /\ NewPlace = "addon" <=> Held # {}
           /\ Held # {} => /\ open["main"] # NoPosition
                           /\ open["main"].action = c.action
                           /\ open["main"].phase # "OBSERVE"
  <1>1. CASE Held = {}
    BY <1>1 DEF NewPlace, Places, Held
  <1>2. CASE Held # {}
    <2>1. /\ \A p \in Held : ~p.addon /\ p.action = c.action
          /\ \E p \in Held : p.phase \in {"PROTECT", "TRAIL"}
      BY <1>2 DEF AddonAllowed
    <2>2. open["addon"] = NoPosition
      BY <2>1 DEF Held, Places, SidesMatch
    <2>3. Held \subseteq {open["main"]} \ {NoPosition}
      BY <2>2 DEF Held, Places
    <2>4. PICK p \in Held : p.phase \in {"PROTECT", "TRAIL"}
      BY <2>1
    <2>5. open["main"] # NoPosition /\ open["main"] = p
      BY <2>3, <2>4
    <2>6. NewPlace = "addon"
      BY <1>2 DEF NewPlace
    <2> QED
      BY <1>2, <2>1, <2>2, <2>4, <2>5, <2>6 DEF Places
  <1> QED
    BY <1>1, <1>2

(* What a placed order is: its candidate c and its sizes.                  *)
LEMMA Placed ==
    ASSUME TypeOK, NEW m \in Market, Place(m)
    PROVE  \E c \in Signal, risk \in Nat, canary \in BOOLEAN, lifted \in BOOLEAN :
              /\ c.action \in Actions
              /\ Held # {} => AddonAllowed(c, slot, Held)
              /\ Affordable(risk)
              /\ canary = Sizing(c, m, lost, streak).canary
              /\ lifted = Sizing(c, m, lost, streak).lifted
              /\ open' = [open EXCEPT ![NewPlace] =
                     [ action |-> c.action, risk |-> risk,
                       addon |-> Held # {}, counter |-> c.counter,
                       phase |-> "OBSERVE" ]]
              /\ orders' = orders \cup {
                     [ slot |-> slot, action |-> c.action,
                       counter |-> c.counter, canary |-> canary,
                       lifted |-> lifted ]}
  <1>1. signal \in Signal /\ pnl \in Int /\ streak \in Nat
    BY DEF TypeOK, Place, Passing
  <1>2. PICK c \in Entering(m) :
           /\ Admitted(c, m, lost)
           /\ Affordable(Sizing(c, m, lost, streak).risk)
           /\ open' = [open EXCEPT ![NewPlace] =
                  [ action |-> c.action, risk |-> Sizing(c, m, lost, streak).risk,
                    addon |-> Held # {}, counter |-> c.counter,
                    phase |-> "OBSERVE" ]]
           /\ orders' = orders \cup {
                  [ slot |-> slot, action |-> c.action, counter |-> c.counter,
                    canary |-> Sizing(c, m, lost, streak).canary,
                    lifted |-> Sizing(c, m, lost, streak).lifted ]}
    BY DEF Place
  <1>3. c \in Signal
    BY <1>1, EnteringType
  <1>4. c.action \in Actions /\ (Held # {} => AddonAllowed(c, slot, Held))
    BY <1>2, GradedIsDirectional DEF Admitted
  <1>5. /\ Sizing(c, m, lost, streak).risk \in Int
        /\ Sizing(c, m, lost, streak).canary \in BOOLEAN
        /\ Sizing(c, m, lost, streak).lifted \in BOOLEAN
    BY <1>1, <1>3, SizingType
  <1>6. Sizing(c, m, lost, streak).risk \in Nat
    BY <1>2, <1>5 DEF Affordable
  <1> QED
    BY <1>2, <1>3, <1>4, <1>5, <1>6

LEMMA TypeStep ==
    ASSUME IInv, [Next]_vars
    PROVE  TypeOK'
  <1> USE DEF IInv, DayInv
  <1>1. CASE UNCHANGED vars
    BY <1>1 DEF vars, TypeOK
  <1>2. ASSUME NEW s \in Signals, NewSignal(s)
        PROVE  TypeOK'
    BY <1>2, DayConstants DEF NewSignal, TypeOK
  <1>3. CASE ConfirmAges
    <2>1. signal \in Signal
      BY <1>3 DEF ConfirmAges, TypeOK
    <2>2. signal' \in Signal
      BY <1>3, <2>1, ConfirmedType DEF ConfirmAges
    <2> QED
      BY <1>3, <2>2 DEF ConfirmAges, TypeOK
  <1>4. ASSUME NEW m \in Markets, Defer(m)
        PROVE  TypeOK'
    <2>1. signal \in Signal
      BY <1>4 DEF Defer, Passing, TypeOK
    <2>2. signal' \in Signal
      BY <1>4, <2>1 DEF Defer, Signal
    <2> QED
      BY <1>4, <2>2 DEF Defer, TypeOK
  <1>5. ASSUME NEW m \in Markets, Refuse(m)
        PROVE  TypeOK'
    BY <1>5 DEF Refuse, UseSlot, TypeOK
  <1>6. ASSUME NEW m \in Markets, Wait(m)
        PROVE  TypeOK'
    <2>1. signal \in Signal /\ m \in Market
      BY <1>6, DayConstants DEF Wait, Passing, TypeOK
    <2>2. Confirmed(signal, m)
            \in {"PENDING", "CONFIRMED", "SOFT", "CONFLICT", "SKIP", "DEFER"}
      BY <2>1 DEF Confirmed, ConfirmDecision, Signal
    <2>3. PICK c \in Entering(m) : TRUE
      BY <1>6 DEF Wait
    <2>4. Confirmed(signal, m) # "DEFER"
      BY <2>1, <2>3 DEF Entering, Candidate, CounterAllowed, Signal
    <2>5. signal' \in Signal
      BY <1>6, <2>1, <2>2, <2>4, ConfirmedType DEF Wait
    <2> QED
      BY <1>6, <2>5 DEF Wait, TypeOK
  <1>7. ASSUME NEW m \in Markets, Place(m)
        PROVE  TypeOK'
    <2>1. PICK c \in Signal, risk \in Nat, canary \in BOOLEAN,
               lifted \in BOOLEAN :
             /\ c.action \in Actions
             /\ open' = [open EXCEPT ![NewPlace] =
                    [ action |-> c.action, risk |-> risk,
                      addon |-> Held # {}, counter |-> c.counter,
                      phase |-> "OBSERVE" ]]
             /\ orders' = orders \cup {
                    [ slot |-> slot, action |-> c.action,
                      counter |-> c.counter, canary |-> canary,
                      lifted |-> lifted ]}
      BY <1>7, Placed, DayConstants
    <2>2. c.counter \in BOOLEAN /\ slot \in Slots
      BY DEF Signal, TypeOK
    <2>3. [ action |-> c.action, risk |-> risk, addon |-> Held # {},
            counter |-> c.counter, phase |-> "OBSERVE" ] \in Position
      BY <2>1, <2>2 DEF Position
    <2>4. [ slot |-> slot, action |-> c.action, counter |-> c.counter,
            canary |-> canary, lifted |-> lifted ] \in Order
      BY <2>1, <2>2 DEF Order
    <2>5. open' \in [Places -> Position \cup {NoPosition}]
      BY <2>1, <2>3 DEF TypeOK
    <2>6. orders' \in SUBSET Order
      BY <2>1, <2>4 DEF TypeOK
    <2> QED
      BY <1>7, <2>5, <2>6 DEF Place, UseSlot, TypeOK
  <1>8. CASE NextSlot
    <2>1. slot' \in Slots
      BY <1>8 DEF NextSlot, TypeOK, Slots, SlotNames
    <2> QED
      BY <1>8, <2>1 DEF NextSlot, TypeOK
  <1>9. ASSUME NEW k \in Places, Advance(k)
        PROVE  TypeOK'
    <2>1. open[k] \in Position
      BY <1>9 DEF Advance, TypeOK
    <2>2. [open[k] EXCEPT !.phase = "PROTECT"] \in Position
      BY <2>1 DEF Position
    <2>3. [open[k] EXCEPT !.phase = "TRAIL"] \in Position
      BY <2>1 DEF Position
    <2>4. open' \in [Places -> Position \cup {NoPosition}]
      BY <1>9, <2>2, <2>3 DEF Advance, TypeOK
    <2> QED
      BY <1>9, <2>4 DEF Advance, TypeOK
  <1>10. ASSUME NEW k \in Places, Close(k)
         PROVE  TypeOK'
    <2>1. open[k] \in Position
      BY <1>10 DEF Close, TypeOK
    <2>2. open[k].action \in Actions /\ open[k].risk \in Nat
      BY <2>1 DEF Position
    <2>3. open' \in [Places -> Position \cup {NoPosition}]
      BY <1>10 DEF Close, TypeOK
    <2>4. pnl' \in Int /\ streak' \in Nat /\ lost' \in SUBSET Actions
      BY <1>10, <2>2 DEF Close, Results, TypeOK
    <2> QED
      BY <1>10, <2>3, <2>4 DEF Close, TypeOK
  <1> QED
    BY <1>1, <1>2, <1>3, <1>4, <1>5, <1>6, <1>7, <1>8, <1>9, <1>10 DEF Next

(* The steps that leave the positions and the day's result alone.          *)
LEMMA QuietSteps ==
    ASSUME [Next]_vars, ~ \E m \in Markets : Place(m),
           ~ \E k \in Places : Advance(k) \/ Close(k)
    PROVE  UNCHANGED << open, orders, pnl >>
  BY DEF Next, vars, NewSignal, ConfirmAges, Defer, Refuse, Wait, NextSlot

LEMMA PositionsStep ==
    ASSUME IInv, [Next]_vars
    PROVE  SidesMatch' /\ AddonRidesProtected' /\ WorstCaseWithinLimit'
  <1> USE DEF IInv, DayInv
  <1>1. CASE UNCHANGED << open, orders, pnl >>
    BY <1>1 DEF SidesMatch, AddonRidesProtected, WorstCaseWithinLimit,
                Reserved, RiskOf
  <1>2. ASSUME NEW m \in Markets, Place(m)
        PROVE  SidesMatch' /\ AddonRidesProtected' /\ WorstCaseWithinLimit'
    <2>1. PICK c \in Signal, risk \in Nat :
             /\ Held # {} => AddonAllowed(c, slot, Held)
             /\ Affordable(risk)
             /\ open' = [open EXCEPT ![NewPlace] =
                    [ action |-> c.action, risk |-> risk,
                      addon |-> Held # {}, counter |-> c.counter,
                      phase |-> "OBSERVE" ]]
      BY <1>2, Placed, DayConstants
    <2> DEFINE new == [ action |-> c.action, risk |-> risk,
                        addon |-> Held # {}, counter |-> c.counter,
                        phase |-> "OBSERVE" ]
    <2>2. /\ NewPlace \in Places
          /\ open[NewPlace] = NoPosition
          /\ NewPlace = "addon" <=> Held # {}
          /\ Held # {} => /\ open["main"] # NoPosition
                          /\ open["main"].action = c.action
                          /\ open["main"].phase # "OBSERVE"
      BY <2>1, FreePlace
    <2>3. /\ open'[NewPlace] = new
          /\ \A k \in Places : k # NewPlace => open'[k] = open[k]
          /\ new.addon <=> Held # {}
          /\ new.risk = risk /\ new.action = c.action
      BY <2>1, <2>2 DEF TypeOK
    <2> HIDE DEF new
    <2>4. SidesMatch'
      BY <2>2, <2>3 DEF SidesMatch, Places
    <2>5. Held = {} => open["addon"] = NoPosition
      BY DEF Held, Places
    <2>6. AddonRidesProtected'
      BY <2>2, <2>3, <2>4, <2>5 DEF AddonRidesProtected, SidesMatch, Places
    <2>7. RiskOf(open["main"]) \in Nat /\ RiskOf(open["addon"]) \in Nat
      BY DEF TypeOK, RiskOf, Position, Places
    <2>8. /\ RiskOf(open'[NewPlace]) <= RiskOf(open[NewPlace]) + risk
          /\ RiskOf(open'[NewPlace]) \in Nat
      BY <2>2, <2>3 DEF RiskOf
    <2>9. /\ Reserved \in Nat /\ Reserved' \in Nat
          /\ Reserved' <= Reserved + risk
      BY <2>2, <2>3, <2>7, <2>8 DEF Reserved, Places, RiskOf
    <2>10. pnl' = pnl /\ pnl \in Int
      BY <1>2 DEF Place, TypeOK
    <2>11. pnl - Reserved - risk >= -DailyLimit
      BY <2>1, <2>9, <2>10, EntryConfig
         DEF Affordable, Remaining, Greater
    <2>12. WorstCaseWithinLimit'
      BY <2>1, <2>9, <2>10, <2>11, EntryConfig DEF WorstCaseWithinLimit, Reserved
    <2> QED
      BY <2>4, <2>6, <2>12
  <1>3. ASSUME NEW k \in Places, Advance(k)
        PROVE  SidesMatch' /\ AddonRidesProtected' /\ WorstCaseWithinLimit'
    <2>1. open[k] \in Position /\ open[k] # NoPosition
      BY <1>3 DEF Advance, TypeOK
    <2>2. PICK phase \in {"PROTECT", "TRAIL"} :
             open' = [open EXCEPT ![k].phase = phase]
      BY <1>3 DEF Advance
    <2>3. /\ \A j \in Places : j # k => open'[j] = open[j]
          /\ open'[k] = [open[k] EXCEPT !.phase = phase]
      BY <2>2 DEF TypeOK
    <2>4. /\ open'[k] \in Position
          /\ open'[k].addon = open[k].addon
          /\ open'[k].action = open[k].action
          /\ open'[k].risk = open[k].risk
          /\ open'[k].phase # "OBSERVE"
      BY <2>1, <2>3 DEF Position
    <2>5. \A p \in Position : RiskOf(p) = p.risk \/ p = NoPosition
      BY DEF RiskOf
    <2>6. SidesMatch'
      BY <2>1, <2>3, <2>4 DEF SidesMatch, Places
    <2>7. AddonRidesProtected'
      BY <2>1, <2>3, <2>4 DEF AddonRidesProtected, Places
    <2>8. WorstCaseWithinLimit'
      <3>1. \A p \in Position : p # NoPosition
        BY DEF Position, NoPosition
      <3>2. RiskOf(open'[k]) = RiskOf(open[k])
        BY <2>1, <2>4, <3>1 DEF RiskOf
      <3>3. Reserved' = Reserved
        BY <2>3, <3>2 DEF Reserved, RiskOf, Places
      <3> QED
        BY <1>3, <3>3 DEF WorstCaseWithinLimit, Advance
    <2> QED
      BY <2>6, <2>7, <2>8
  <1>4. ASSUME NEW k \in Places, Close(k)
        PROVE  SidesMatch' /\ AddonRidesProtected' /\ WorstCaseWithinLimit'
    <2>1. open[k] \in Position /\ open[k] # NoPosition
      BY <1>4 DEF Close, TypeOK
    <2>2. /\ \A j \in Places : j # k => open'[j] = open[j]
          /\ open'[k] = NoPosition
      BY <1>4 DEF Close, TypeOK
    <2>3. SidesMatch' /\ AddonRidesProtected'
      BY <2>2 DEF SidesMatch, AddonRidesProtected, Places
    <2>4. /\ RiskOf(open["main"]) \in Nat /\ RiskOf(open["addon"]) \in Nat
          /\ RiskOf(open[k]) = open[k].risk /\ open[k].risk \in Nat
      BY <2>1 DEF TypeOK, RiskOf, Position, Places
    <2>5. /\ Reserved \in Int /\ Reserved' = Reserved - open[k].risk
      <3>1. RiskOf(open'[k]) = 0
        BY <2>2 DEF RiskOf
      <3>2. \A j \in Places : j # k => RiskOf(open'[j]) = RiskOf(open[j])
        BY <2>2
      <3>3. Reserved' = RiskOf(open'["main"]) + RiskOf(open'["addon"])
        BY DEF Reserved, RiskOf
      <3>4. CASE k = "main"
        BY <2>4, <3>1, <3>2, <3>3, <3>4 DEF Reserved, Places
      <3>5. CASE k = "addon"
        BY <2>4, <3>1, <3>2, <3>3, <3>5 DEF Reserved, Places
      <3> QED
        BY <3>4, <3>5 DEF Places
    <2>6. pnl \in Int /\ pnl' \in Int /\ pnl' >= pnl - open[k].risk
      BY <1>4, <2>4 DEF Close, Results, TypeOK
    <2>7. WorstCaseWithinLimit'
      BY <2>4, <2>5, <2>6, EntryConfig DEF WorstCaseWithinLimit, Reserved
    <2> QED
      BY <2>3, <2>7
  <1> QED
    BY <1>1, <1>2, <1>3, <1>4, QuietSteps

(* A reduced risk of the signal's own is lifted by a canary only, and a    *)
(* canary only while the day has one left.                                 *)
LEMMA LiftNeedsCanary ==
    ASSUME NEW c \in Signal, NEW m \in Market, NEW losers,
           NEW losses \in Nat, pnl \in Int,
           ~c.counter, Sizing(c, m, losers, losses).lifted
    PROVE  Sizing(c, m, losers, losses).canary /\ CanariesUsed < CanaryLimit
  <1> DEFINE bucket == Bucket(c)
             distance == StopDistance(c, m)
             budget == CashRiskBudget(pnl)
             minimum == MinimumRisk(distance)
             canary == Canary(c, bucket, budget, minimum, CanariesUsed)
             requested == RequestedRisk(budget, c, bucket, losses, slot,
                              QualityScore(c, m, losers, orders), Held # {})
             cash == CashRisk(requested, budget, minimum,
                         c.counter /\ CounterOnly,
                         LiftAllowed(c, bucket, canary))
  <1>1. Sizing(c, m, losers, losses)
          = Granted(c, bucket, distance, requested, canary, cash)
    BY DEF Sizing, Weighed, Requested
  <1>2. requested \in Int
    BY BudgetType, RequestedRiskType
  <1>3. canary => CanariesUsed < CanaryLimit
    BY DEF Canary
  <1>4. cash = CashRisk(requested, budget, minimum, FALSE,
                        LiftAllowed(c, bucket, canary))
    BY DEF CashRisk
  <1> HIDE DEF cash, requested, minimum, budget, distance, canary, bucket
  <1>5. cash > requested /\ AssuranceRisk(bucket, c) < 100
    <2>1. Granted(c, bucket, distance, requested, canary, cash).lifted
            <=> cash > requested /\ AssuranceRisk(bucket, c) < 100
      BY DEF Granted
    <2> QED
      BY <1>1, <2>1
  <1>6. /\ LiftAllowed(c, bucket, canary)
        /\ 0 < requested /\ requested < minimum /\ cash = minimum
    BY <1>2, <1>4, <1>5 DEF CashRisk
  <1>7. canary
    BY <1>5, <1>6, AssuranceRiskType DEF LiftAllowed
  <1>8. Granted(c, bucket, distance, requested, canary, cash).canary
    <2>1. minimum = MinimumRisk(distance) /\ distance \in Nat /\ distance > 0
      BY DistanceType DEF minimum, distance, StopMin
    <2>2. MinimumRisk(distance) \in Nat
      BY <2>1, MinimumRiskType
    <2> QED
      BY <1>2, <1>6, <1>7, <2>1, <2>2 DEF Granted
  <1> QED
    BY <1>1, <1>3, <1>7, <1>8

LEMMA OrdersStep ==
    ASSUME IInv, [Next]_vars
    PROVE  OrdersInv'
  <1> USE DEF IInv, DayInv, OrdersInv
  <1>1. CASE UNCHANGED orders
    BY <1>1 DEF LiftsAreCanaries, CanariesCapped
  <1>2. ASSUME NEW m \in Markets, Place(m)
        PROVE  OrdersInv'
    <2>1. PICK c \in Signal, canary \in BOOLEAN, lifted \in BOOLEAN :
             /\ canary = Sizing(c, m, lost, streak).canary
             /\ lifted = Sizing(c, m, lost, streak).lifted
             /\ orders' = orders \cup {
                    [ slot |-> slot, action |-> c.action,
                      counter |-> c.counter, canary |-> canary,
                      lifted |-> lifted ]}
      BY <1>2, Placed, DayConstants
    <2> DEFINE new == [ slot |-> slot, action |-> c.action,
                        counter |-> c.counter, canary |-> canary,
                        lifted |-> lifted ]
               own == {o \in orders : o.lifted /\ ~o.counter}
               canaries == {o \in orders : o.canary}
    <2>2. /\ orders' = orders \cup {new}
          /\ new.lifted = lifted /\ new.canary = canary
          /\ new.counter = c.counter
      BY <2>1
    <2>3. lifted /\ ~c.counter => canary /\ CanariesUsed < CanaryLimit
      BY <2>1, LiftNeedsCanary, DayConstants DEF TypeOK
    <2> HIDE DEF new
    <2>4. IsFiniteSet(orders')
      BY <2>2, FS_AddElement
    <2>5. LiftsAreCanaries'
      BY <2>2, <2>3 DEF LiftsAreCanaries
    <2>6. CASE lifted /\ ~c.counter
      <3>1. IsFiniteSet(canaries) /\ own \subseteq canaries
        BY FS_Subset DEF LiftsAreCanaries
      <3>2. IsFiniteSet(own) /\ Cardinality(own) <= Cardinality(canaries)
        BY <3>1, FS_Subset
      <3>3. Cardinality(canaries) < CanaryLimit
        BY <2>3, <2>6 DEF CanariesUsed
      <3>4. {o \in orders' : o.lifted /\ ~o.counter} = own \cup {new}
        BY <2>2, <2>6
      <3> HIDE DEF own, canaries
      <3>5. /\ Cardinality(own) \in Nat /\ Cardinality(canaries) \in Nat
            /\ Cardinality(own \cup {new}) \in Nat
        BY <3>1, <3>2, FS_AddElement, FS_CardinalityType
      <3>6. Cardinality(own \cup {new}) <= Cardinality(own) + 1
        <4>1. \/ Cardinality(own \cup {new}) = Cardinality(own)
              \/ Cardinality(own \cup {new}) = Cardinality(own) + 1
          BY <3>2, FS_AddElement
        <4> QED
          BY <3>5, <4>1
      <3>7. Cardinality(own \cup {new}) <= CanaryLimit
        BY <3>2, <3>3, <3>5, <3>6, EntryConfig
      <3>8. CanariesCapped'
        BY <3>4, <3>7 DEF CanariesCapped
      <3> QED
        BY <2>4, <2>5, <3>8
    <2>7. CASE ~(lifted /\ ~c.counter)
      <3>1. {o \in orders' : o.lifted /\ ~o.counter} = own
        BY <2>2, <2>7
      <3> QED
        BY <2>4, <2>5, <3>1 DEF CanariesCapped
    <2> QED
      BY <2>6, <2>7
  <1>3. CASE \E k \in Places : Advance(k) \/ Close(k)
    BY <1>1, <1>3 DEF Advance, Close
  <1> QED
    BY <1>1, <1>2, <1>3, QuietSteps

-----------------------------------------------------------------------------
(* Caution never risks more *)

LEMMA ProductGrows ==
    ASSUME NEW a \in Nat, NEW b \in Nat, NEW p \in Nat, NEW q \in Nat,
           a <= b, p <= q
    PROVE  a * p <= b * q
  OBVIOUS

LEMMA QuotientGrows ==
    ASSUME NEW a \in Int, NEW b \in Int, NEW k \in Nat, k > 0, a <= b
    PROVE  a \div k <= b \div k
  OBVIOUS

LEMMA ScaleGrows ==
    ASSUME NEW a \in Nat, NEW b \in Nat, NEW p \in Nat, NEW q \in Nat,
           a <= b, p <= q
    PROVE  /\ Scale(a, p) \in Nat /\ Scale(b, q) \in Nat
           /\ Scale(a, p) <= Scale(b, q)
  <1>1. a * p \in Nat /\ b * q \in Nat /\ a * p <= b * q
    BY ProductGrows
  <1> QED
    BY <1>1, QuotientGrows DEF Scale

(* d is the signal c with inputs at least as fresh.                        *)
Fresher(d, c) ==
    /\ d.action = c.action /\ d.confidence = c.confidence
    /\ d.consensus = c.consensus /\ d.validator = c.validator
    /\ d.summary = c.summary /\ d.vetoed = c.vetoed /\ d.hard = c.hard
    /\ d.locked = c.locked /\ d.warnings = c.warnings /\ d.lower = c.lower
    /\ d.stop = c.stop /\ d.deferred = c.deferred /\ d.counter = c.counter
    /\ d.confirm = c.confirm
    /\ d.snapshot = "blocked" => c.snapshot = "blocked"
    /\ FreshnessReducesRisk(d) => FreshnessReducesRisk(c)
    /\ StaleContext(d) => StaleContext(c)

LEMMA FreshenedIsFresher ==
    ASSUME NEW s \in Signal
    PROVE  Freshened(s) \in Signal /\ Fresher(Freshened(s), s)
  <1> DEFINE r1 == [s EXCEPT !.gaps = FALSE]
             r2 == [r1 EXCEPT !.snapshot = "fresh"]
             r3 == [r2 EXCEPT !.mentions = FALSE]
  <1>1. Freshened(s) = r3
    BY Zenon DEF Freshened
  <1>2. r1 \in Signal
    BY DEF Signal
  <1> HIDE DEF r1
  <1>3. r2 \in Signal
    BY <1>2 DEF Signal
  <1> HIDE DEF r2
  <1>4. r3 \in Signal
    BY <1>3 DEF Signal
  <1>5. Fresher(Freshened(s), s)
    BY DEF Freshened, Fresher, FreshnessReducesRisk, StaleContext, Signal
  <1> QED
    BY <1>1, <1>4, <1>5

(* The market confirms or turns around a fresher signal the same way.      *)
LEMMA FresherCandidate ==
    ASSUME NEW s \in Signal, NEW t \in Signal, NEW m \in Market, Fresher(t, s)
    PROVE  Fresher(Candidate(t, m), Candidate(s, m))
  <1>1. Strong(t) <=> Strong(s)
    BY DEF Strong, Fresher, Directional, Aligned
  <1>2. ConfirmDecision(t, m) = ConfirmDecision(s, m)
    BY <1>1 DEF ConfirmDecision, Fresher, Directional
  <1>3. Confirmed(t, m) = Confirmed(s, m)
    BY <1>2 DEF Confirmed, Fresher
  <1>4. Fresher(CounterOf(t), CounterOf(s))
    BY DEF CounterOf, Fresher, FreshnessReducesRisk, StaleContext, Signal
  <1>5. ConfirmDecision(CounterOf(t), m) = ConfirmDecision(CounterOf(s), m)
    <2>1. Strong(CounterOf(t)) <=> Strong(CounterOf(s))
      BY <1>4 DEF Strong, Fresher, Directional, Aligned
    <2> QED
      BY <1>4, <2>1 DEF ConfirmDecision, Fresher, Directional
  <1>6. CounterAllowed(t, m, Confirmed(t, m))
          <=> CounterAllowed(s, m, Confirmed(s, m))
    BY <1>1, <1>3, <1>5 DEF CounterAllowed, Fresher, Directional
  <1>7. \A x : Fresher([t EXCEPT !.confirm = x], [s EXCEPT !.confirm = x])
    BY DEF Fresher, FreshnessReducesRisk, StaleContext, Signal
  <1> QED
    BY <1>3, <1>4, <1>6, <1>7 DEF Candidate

(* Fresher inputs never cost a signal its bucket or a multiplier.          *)
LEMMA FresherBucket ==
    ASSUME NEW c \in Signal, NEW d \in Signal, Fresher(d, c)
    PROVE  /\ Bucket(c) # "blocked"
                 => Bucket(d) \in {Bucket(c), "medium", "high"}
           /\ AssuranceRisk(Bucket(c), c) <= AssuranceRisk(Bucket(d), d)
           /\ (StaleContext(d) <=> StaleContext(c)) => Bucket(d) = Bucket(c)
  <1> DEFINE base == c.confidence
      + (CASE Aligned(c) -> 8
           [] c.consensus = "disagreed" -> -16
           [] c.consensus = "blocked" -> -35
           [] OTHER -> 0)
      + (CASE c.validator = "rejected" -> -25
           [] c.validator = "unavailable" -> -5
           [] OTHER -> 0)
      + (CASE c.summary \in {"weak", "contradicts"} -> -10
           [] c.summary = "supported" -> 5
           [] OTHER -> 0)
  <1>1. Score(c) = Clamped(base + (IF StaleContext(c) THEN -5 ELSE 0))
    BY Zenon DEF Score
  <1>2. Score(d) = Clamped(base + (IF StaleContext(d) THEN -5 ELSE 0))
    BY DEF Score, Fresher, Aligned
  <1>3. base \in Int
    BY DEF Aligned, Signal
  <1> HIDE DEF base
  <1>4. /\ Score(c) \in Int /\ Score(d) \in Int /\ Score(c) <= Score(d)
        /\ (StaleContext(d) <=> StaleContext(c)) => Score(d) = Score(c)
    BY <1>1, <1>2, <1>3 DEF Clamped, Greater, Lesser, Fresher
  <1>5. AssuranceBlocks(d) <=> AssuranceBlocks(c)
    BY DEF AssuranceBlocks, Fresher, Directional, Disputed
  <1>6. StaleContext(d) => StaleContext(c)
    BY DEF Fresher
  <1>7. d.confidence = c.confidence /\ d.consensus = c.consensus
        /\ d.validator = c.validator /\ c.confidence \in Int
    BY DEF Fresher, Signal
  <1>8. /\ Bucket(c) = "blocked" \/ Bucket(d) = "high" \/ Bucket(c) = Bucket(d)
           \/ (Bucket(c) = "low" /\ Bucket(d) = "medium")
        /\ Bucket(c) = "high" => ~StaleContext(c)
        /\ (StaleContext(d) <=> StaleContext(c)) => Bucket(d) = Bucket(c)
        /\ Bucket(c) \in {"high", "medium", "low", "blocked"}
        /\ Bucket(d) \in {"high", "medium", "low", "blocked"}
    BY <1>4, <1>5, <1>6, <1>7 DEF Bucket, Graded
  <1> QED
    BY <1>6, <1>8 DEF AssuranceRisk, LowRisk

(* What the lift to the minimum lot is allowed for, it is also allowed for *)
(* with fresher inputs.                                                    *)
LEMMA FresherLift ==
    ASSUME NEW c \in Signal, NEW d \in Signal, Fresher(d, c),
           ~(c.counter /\ CounterOnly), Bucket(c) # "blocked",
           NEW budget, NEW minimum, NEW spent,
           LiftAllowed(c, Bucket(c), Canary(c, Bucket(c), budget, minimum, spent))
    PROVE  LiftAllowed(d, Bucket(d), Canary(d, Bucket(d), budget, minimum, spent))
  <1>1. d.counter = c.counter /\ (StaleContext(d) => StaleContext(c))
    BY DEF Fresher
  <1>2. /\ AssuranceRisk(Bucket(c), c) \in Int
        /\ AssuranceRisk(Bucket(d), d) \in Int
        /\ AssuranceRisk(Bucket(c), c) <= AssuranceRisk(Bucket(d), d)
    BY FresherBucket, AssuranceRiskType
  <1>3. CASE AssuranceRisk(Bucket(c), c) >= 100 /\ ~StaleContext(c)
    BY <1>1, <1>2, <1>3 DEF LiftAllowed
  <1>4. CASE Canary(c, Bucket(c), budget, minimum, spent)
    <2>1. CASE Bucket(d) = Bucket(c) /\ (StaleContext(d) <=> StaleContext(c))
      <3>1. Canary(d, Bucket(d), budget, minimum, spent)
        BY <1>4, <2>1 DEF Canary, Fresher, Directional, Aligned
      <3> QED
        BY <3>1 DEF LiftAllowed
    <2>2. CASE ~StaleContext(d) /\ Bucket(d) \in {"medium", "high"}
      <3>1. AssuranceRisk(Bucket(d), d) >= 100
        BY <2>2 DEF AssuranceRisk
      <3> QED
        BY <1>1, <2>2, <3>1 DEF LiftAllowed
    <2>3. CASE ~StaleContext(d) /\ Bucket(d) = "low"
      <3>1. Bucket(c) = "low"
        BY <2>3, FresherBucket
      <3>2. Canary(d, Bucket(d), budget, minimum, spent)
        BY <1>4, <2>3, <3>1 DEF Canary, Fresher, Directional, Aligned
      <3> QED
        BY <3>2 DEF LiftAllowed
    <2>4. Bucket(c) \in {"medium", "low"}
      BY <1>4 DEF Canary
    <2>5. Bucket(d) \in {"low", "medium", "high"}
      BY <2>4, FresherBucket
    <2>6. (StaleContext(d) <=> StaleContext(c)) => Bucket(d) = Bucket(c)
      BY FresherBucket
    <2> QED
      BY <1>1, <2>1, <2>2, <2>3, <2>5, <2>6
  <1> QED
    BY <1>3, <1>4 DEF LiftAllowed

LEMMA FactorsFinite ==
    ASSUME NEW c \in Signal, NEW m, NEW losers
    PROVE  IsFiniteSet(QualityFactors(c, m, losers, orders))
  <1> DEFINE two(x, y) == {x} \cup {y}
             warned == two("PRICE_CONFLICT", "FLIP_BLOCKED_LOW_CONFIDENCE")
                         \cup {"FLIP_BLOCKED_MACRO_UNCHANGED"}
             some == two(m.pattern, "STALE_CONTEXT_LOW_CONFIDENCE")
                       \cup two("COUNTER_SIGNAL_DAILY_LIMIT",
                                "COUNTER_SIGNAL_AFTER_LOSS")
             more == two("COUNTER_SIGNAL_STALE_CONTEXT",
                         "SAME_DIRECTION_LOSS_COOLDOWN")
                       \cup {"LOWER_THIRD_NO_CHASE"}
  <1>1. QualityFactors(c, m, losers, orders)
          \subseteq (warned \cup some) \cup more
    BY DEF QualityFactors, Signal, Warnings
  <1>2. \A x, y : IsFiniteSet(two(x, y))
    BY FS_Singleton, FS_Union
  <1> HIDE DEF two
  <1>3. IsFiniteSet(warned) /\ IsFiniteSet(some) /\ IsFiniteSet(more)
    BY <1>2, FS_Singleton, FS_Union
  <1> HIDE DEF warned, some, more
  <1>4. IsFiniteSet((warned \cup some) \cup more)
    BY <1>3, FS_Union
  <1> QED
    BY <1>1, <1>4, FS_Subset

(* Fewer factors weigh less.                                               *)
LEMMA WeightGrows ==
    ASSUME NEW F, NEW G, IsFiniteSet(G), F \subseteq G
    PROVE  /\ TotalWeight(F) \in Nat /\ TotalWeight(G) \in Nat
           /\ TotalWeight(F) <= TotalWeight(G)
  <1> DEFINE heavy(H) == {f \in H : Weight(f) >= 2}
             heaviest(H) == {f \in H : Weight(f) >= 3}
  <1>1. /\ IsFiniteSet(F) /\ Cardinality(F) <= Cardinality(G)
    BY FS_Subset
  <1>2. /\ heavy(F) \subseteq heavy(G) /\ heavy(G) \subseteq G
        /\ heaviest(F) \subseteq heaviest(G) /\ heaviest(G) \subseteq G
    OBVIOUS
  <1>3. /\ TotalWeight(F) = Cardinality(F) + Cardinality(heavy(F))
                              + Cardinality(heaviest(F))
        /\ TotalWeight(G) = Cardinality(G) + Cardinality(heavy(G))
                              + Cardinality(heaviest(G))
    BY DEF TotalWeight
  <1> HIDE DEF heavy, heaviest
  <1>4. IsFiniteSet(heavy(G)) /\ IsFiniteSet(heaviest(G))
    BY <1>2, FS_Subset
  <1>5. /\ IsFiniteSet(heavy(F)) /\ Cardinality(heavy(F)) <= Cardinality(heavy(G))
        /\ IsFiniteSet(heaviest(F))
        /\ Cardinality(heaviest(F)) <= Cardinality(heaviest(G))
    BY <1>2, <1>4, FS_Subset
  <1>6. /\ Cardinality(F) \in Nat /\ Cardinality(G) \in Nat
        /\ Cardinality(heavy(F)) \in Nat /\ Cardinality(heavy(G)) \in Nat
        /\ Cardinality(heaviest(F)) \in Nat /\ Cardinality(heaviest(G)) \in Nat
    BY <1>1, <1>4, <1>5, FS_CardinalityType
  <1> QED
    BY <1>1, <1>3, <1>5, <1>6

(* Fresher inputs and fewer losses never lower the quality of an entry.    *)
LEMMA FresherQuality ==
    ASSUME NEW c \in Signal, NEW d \in Signal, Fresher(d, c), NEW m,
           NEW losers, NEW fewer, fewer \subseteq losers
    PROVE  /\ QualityScore(d, m, fewer, orders) \in Nat
           /\ QualityScore(c, m, losers, orders) \in Nat
           /\ QualityScore(d, m, fewer, orders)
                <= QualityScore(c, m, losers, orders)
           /\ QualityRisk(QualityScore(c, m, losers, orders))
                <= QualityRisk(QualityScore(d, m, fewer, orders))
  <1>1. QualityFactors(d, m, fewer, orders)
          \subseteq QualityFactors(c, m, losers, orders)
    BY DEF QualityFactors, Fresher, SameDayLoss
  <1>2. /\ QualityScore(d, m, fewer, orders) \in Nat
        /\ QualityScore(c, m, losers, orders) \in Nat
        /\ QualityScore(d, m, fewer, orders)
             <= QualityScore(c, m, losers, orders)
    BY <1>1, FactorsFinite, WeightGrows DEF QualityScore
  <1>3. \A a, b \in Nat : a <= b => QualityRisk(b) <= QualityRisk(a)
    BY DEF QualityRisk
  <1> QED
    BY <1>2, <1>3

(* More certain multipliers ask for more.                                  *)
LEMMA RequestGrows ==
    ASSUME NEW budget \in Nat, NEW c, NEW d, d.counter = c.counter,
           d.confirm = c.confirm, NEW bucketC, NEW bucketD,
           AssuranceRisk(bucketC, c) <= AssuranceRisk(bucketD, d),
           NEW losses \in Nat, NEW fewer \in Nat, fewer <= losses,
           NEW at, NEW scoreC, NEW scoreD,
           QualityRisk(scoreC) <= QualityRisk(scoreD), NEW addon
    PROVE  RequestedRisk(budget, c, bucketC, losses, at, scoreC, addon)
             <= RequestedRisk(budget, d, bucketD, fewer, at, scoreD, addon)
  <1> DEFINE once == IF c.counter THEN CounterRisk ELSE 100
             soft == IF c.confirm = "SOFT" THEN SoftRisk ELSE 100
             beside == IF addon THEN AddonRisk ELSE 100
             a1 == Scale(budget * 100, AssuranceRisk(bucketC, c))
             b1 == Scale(budget * 100, AssuranceRisk(bucketD, d))
             a2 == Scale(a1, Cooldown(losses))
             b2 == Scale(b1, Cooldown(fewer))
             a3 == Scale(a2, SlotRisk(at))
             b3 == Scale(b2, SlotRisk(at))
             a4 == Scale(a3, once)
             b4 == Scale(b3, once)
             a5 == Scale(a4, soft)
             b5 == Scale(b4, soft)
             a6 == Scale(a5, QualityRisk(scoreC))
             b6 == Scale(b5, QualityRisk(scoreD))
             a7 == Scale(a6, beside)
             b7 == Scale(b6, beside)
             Grows(x, y) == x \in Nat /\ y \in Nat /\ x <= y
  <1>1. /\ RequestedRisk(budget, c, bucketC, losses, at, scoreC, addon)
             = (a7 + 50) \div 100
        /\ RequestedRisk(budget, d, bucketD, fewer, at, scoreD, addon)
             = (b7 + 50) \div 100
    BY DEF RequestedRisk
  <1>2. \A x, y, p, q : Grows(x, y) /\ Grows(p, q) => Grows(Scale(x, p), Scale(y, q))
    BY ScaleGrows
  <1>3. Grows(budget * 100, budget * 100)
    OBVIOUS
  <1>4. Grows(AssuranceRisk(bucketC, c), AssuranceRisk(bucketD, d))
    BY AssuranceRiskType
  <1>5. Grows(Cooldown(losses), Cooldown(fewer))
    BY DEF Cooldown
  <1>6. Grows(SlotRisk(at), SlotRisk(at))
    BY DEF SlotRisk, UsOpenRisk
  <1>7. Grows(once, once) /\ Grows(soft, soft) /\ Grows(beside, beside)
    BY DEF CounterRisk, SoftRisk, AddonRisk
  <1>8. Grows(QualityRisk(scoreC), QualityRisk(scoreD))
    BY QualityRiskType
  <1> HIDE DEF Grows, once, soft, beside
  <1>9. Grows(a1, b1)
    BY <1>2, <1>3, <1>4, Zenon
  <1> HIDE DEF a1, b1
  <1>10. Grows(a2, b2)
    BY <1>2, <1>5, <1>9, Zenon
  <1> HIDE DEF a2, b2
  <1>11. Grows(a3, b3)
    BY <1>2, <1>6, <1>10, Zenon
  <1> HIDE DEF a3, b3
  <1>12. Grows(a4, b4)
    BY <1>2, <1>7, <1>11, Zenon
  <1> HIDE DEF a4, b4
  <1>13. Grows(a5, b5)
    BY <1>2, <1>7, <1>12, Zenon
  <1> HIDE DEF a5, b5
  <1>14. Grows(a6, b6)
    BY <1>2, <1>8, <1>13, Zenon
  <1> HIDE DEF a6, b6
  <1>15. Grows(a7, b7)
    BY <1>2, <1>7, <1>14, Zenon
  <1> HIDE DEF a7, b7
  <1> QED
    BY <1>1, <1>15 DEF Grows

(* More cash, a larger lot, more at risk.                                  *)
LEMMA LotRiskGrows ==
    ASSUME NEW less \in Int, NEW cash \in Int, less <= cash,
           NEW distance \in Nat, distance > 0
    PROVE  LotSteps(less, distance) * StepOunces * distance
             <= LotSteps(cash, distance) * StepOunces * distance
  <1>1. distance * StepOunces \in Nat /\ distance * StepOunces > 0
    BY EntryConfig
  <1>2. /\ less \div (distance * StepOunces) \in Int
        /\ cash \div (distance * StepOunces) \in Int
        /\ less \div (distance * StepOunces) <= cash \div (distance * StepOunces)
    BY <1>1, QuotientGrows
  <1>3. LotSteps(less, distance) <= LotSteps(cash, distance)
    BY <1>2, EntryConfig DEF LotSteps, Lesser
  <1>4. LotSteps(less, distance) \in Nat /\ LotSteps(cash, distance) \in Nat
    BY LotStepsType
  <1> HIDE DEF LotSteps
  <1>5. LotSteps(less, distance) * StepOunces
          <= LotSteps(cash, distance) * StepOunces
    BY <1>3, <1>4, EntryConfig, ProductGrows
  <1>6. /\ LotSteps(less, distance) * StepOunces \in Nat
        /\ LotSteps(cash, distance) * StepOunces \in Nat
    BY <1>4, EntryConfig
  <1> QED
    BY <1>5, <1>6, ProductGrows

LEMMA SizingGrows ==
    ASSUME NEW c \in Signal, NEW d \in Signal, Fresher(d, c), NEW m \in Market,
           NEW losers, NEW fewer, fewer \subseteq losers,
           NEW losses \in Nat, NEW rarer \in Nat, rarer <= losses,
           pnl \in Int, CashRiskBudget(pnl) > 0, Bucket(c) # "blocked"
    PROVE  Sizing(c, m, losers, losses).risk <= Sizing(d, m, fewer, rarer).risk
  <1> DEFINE distance == StopDistance(c, m)
             budget == CashRiskBudget(pnl)
             minimum == MinimumRisk(distance)
             forced == c.counter /\ CounterOnly
             canaryC == Canary(c, Bucket(c), budget, minimum, CanariesUsed)
             canaryD == Canary(d, Bucket(d), budget, minimum, CanariesUsed)
             liftC == LiftAllowed(c, Bucket(c), canaryC)
             liftD == LiftAllowed(d, Bucket(d), canaryD)
             wantC == RequestedRisk(budget, c, Bucket(c), losses, slot,
                          QualityScore(c, m, losers, orders), Held # {})
             wantD == RequestedRisk(budget, d, Bucket(d), rarer, slot,
                          QualityScore(d, m, fewer, orders), Held # {})
             cashC == CashRisk(wantC, budget, minimum, forced, liftC)
             cashD == CashRisk(wantD, budget, minimum, forced, liftD)
  <1>1. StopDistance(d, m) = distance /\ d.counter = c.counter /\ d.confirm = c.confirm
    BY DEF StopDistance, InitialStop, MaxStop, Fresher
  <1>2. Sizing(c, m, losers, losses)
          = Granted(c, Bucket(c), distance, wantC, canaryC, cashC)
    BY DEF Sizing, Weighed, Requested
  <1>3. Sizing(d, m, fewer, rarer)
          = Granted(d, Bucket(d), distance, wantD, canaryD, cashD)
    BY <1>1 DEF Sizing, Weighed, Requested
  <1>4. distance \in Nat /\ distance > 0
    BY DistanceType DEF StopMin
  <1>5. budget \in Int /\ budget \in Nat
    BY BudgetType
  <1>6. minimum \in Int
    BY <1>4, MinimumRiskType
  <1>7. wantC \in Int /\ wantD \in Int
    BY <1>5, RequestedRiskType
  <1>8. AssuranceRisk(Bucket(c), c) <= AssuranceRisk(Bucket(d), d)
    BY FresherBucket
  <1>9. QualityRisk(QualityScore(c, m, losers, orders))
          <= QualityRisk(QualityScore(d, m, fewer, orders))
    BY FresherQuality
  <1>10. wantC <= wantD
    BY <1>1, <1>5, <1>8, <1>9, RequestGrows
  <1>11. ~forced /\ liftC => liftD
    BY FresherLift
  <1> HIDE DEF wantC, wantD, minimum, distance, canaryC, canaryD, liftC, liftD
  <1>12. cashC \in Int /\ cashD \in Int /\ cashC <= cashD
    BY <1>5, <1>6, <1>7, <1>10, <1>11 DEF CashRisk
  <1> HIDE DEF cashC, cashD, budget
  <1>13. LotSteps(cashC, distance) * StepOunces * distance
           <= LotSteps(cashD, distance) * StepOunces * distance
    BY <1>4, <1>12, LotRiskGrows
  <1> QED
    BY <1>2, <1>3, <1>13 DEF Granted

(* A pass over a fresher signal, or on a day with fewer losses, asks for   *)
(* as much at least: it is let through, and not sized down.                *)
LEMMA CandidateRiskGrows ==
    ASSUME NEW c \in Signal, NEW d \in Signal, Fresher(d, c), NEW m \in Market,
           NEW losers, NEW fewer, fewer \subseteq losers,
           NEW losses \in Nat, NEW rarer \in Nat, rarer <= losses,
           pnl \in Int, CandidateRisk(c, m, losers, losses) > 0
    PROVE  CandidateRisk(c, m, losers, losses)
             <= CandidateRisk(d, m, fewer, rarer)
  <1>1. /\ c.confirm \in {"CONFIRMED", "SOFT"} /\ Executable(c, m)
        /\ Admitted(c, m, losers)
        /\ CandidateRisk(c, m, losers, losses) = Sizing(c, m, losers, losses).risk
    BY DEF CandidateRisk
  <1>2. d.confirm \in {"CONFIRMED", "SOFT"}
    BY <1>1 DEF Fresher
  <1>3. Executable(d, m)
    <2>1. StopDistance(d, m) = StopDistance(c, m)
      BY DEF StopDistance, InitialStop, MaxStop, Fresher
    <2> QED
      BY <1>1, <2>1 DEF Executable
  <1>4. Admitted(d, m, fewer)
    <2>1. Bucket(d) # "blocked"
      BY <1>1, FresherBucket DEF Admitted
    <2>2. QualityScore(d, m, fewer, orders) < HardBlockScore
      BY <1>1, FresherQuality DEF Admitted, HardBlockScore
    <2>3. AddonAllowed(d, slot, Held) <=> AddonAllowed(c, slot, Held)
      BY DEF AddonAllowed, Fresher, Directional, Aligned
    <2> QED
      BY <1>1, <2>1, <2>2, <2>3 DEF Admitted
  <1>5. Sizing(c, m, losers, losses).risk <= Sizing(d, m, fewer, rarer).risk
    BY <1>1, SizingGrows DEF Executable, Admitted
  <1> QED
    BY <1>1, <1>2, <1>3, <1>4, <1>5 DEF CandidateRisk

LEMMA Caution ==
    ASSUME TypeOK
    PROVE  CautionNeverRisksMore
  <1> SUFFICES ASSUME signal # NoSignal, NEW m \in Markets,
                      PassRisk(signal, m, lost, streak) > 0
               PROVE  /\ PassRisk(signal, m, lost, streak)
                            <= PassRisk(Freshened(signal), m, lost, streak)
                      /\ PassRisk(signal, m, lost, streak)
                            <= PassRisk(signal, m, {}, 0)
    BY DEF CautionNeverRisksMore, Passing
  <1> DEFINE c == Candidate(signal, m)
             d == Candidate(Freshened(signal), m)
  <1>1. m \in Market /\ signal \in Signal /\ pnl \in Int /\ streak \in Nat
    BY DayConstants DEF TypeOK
  <1>2. CandidateRisk(c, m, lost, streak) > 0
    BY DEF PassRisk
  <1>3. c.confirm \in {"CONFIRMED", "SOFT"}
    BY <1>2 DEF CandidateRisk
  <1>4. c \in Signal
    BY <1>1, <1>3, CandidateType
  <1>5. Freshened(signal) \in Signal /\ Fresher(Freshened(signal), signal)
    BY <1>1, FreshenedIsFresher
  <1>6. Fresher(d, c)
    BY <1>1, <1>5, FresherCandidate
  <1>7. d \in Signal
    <2>1. d.confirm = c.confirm
      BY <1>6 DEF Fresher
    <2> QED
      BY <1>1, <1>3, <1>5, <2>1, CandidateType
  <1>8. Fresher(c, c)
    BY DEF Fresher
  <1> HIDE DEF c, d
  <1>9. CandidateRisk(c, m, lost, streak) <= CandidateRisk(d, m, lost, streak)
    BY <1>1, <1>2, <1>4, <1>6, <1>7, CandidateRiskGrows
  <1>10. CandidateRisk(c, m, lost, streak) <= CandidateRisk(c, m, {}, 0)
    BY <1>1, <1>2, <1>4, <1>8, CandidateRiskGrows
  <1> QED
    BY <1>9, <1>10 DEF PassRisk, c, d

-----------------------------------------------------------------------------
(* The theorems *)

LEMMA Invariant == Spec => []IInv
  <1>1. Init => IInv
    <2> SUFFICES ASSUME Init PROVE IInv
      OBVIOUS
    <2>1. TypeOK
      <3>1. 1 \in Slots
        BY DEF Slots, SlotNames
      <3>2. /\ open \in [Places -> Position \cup {NoPosition}]
            /\ orders \in SUBSET Order /\ lost \in SUBSET Actions
        BY DEF Init
      <3>3. streak \in Nat /\ pnl \in Int
        BY DEF Init
      <3>4. used \in BOOLEAN
        BY DEF Init
      <3>5. slot \in Slots /\ signal \in Signal \cup {NoSignal}
        BY <3>1 DEF Init
      <3> QED
        BY <3>2, <3>3, <3>4, <3>5 DEF TypeOK
    <2>2. SidesMatch /\ AddonRidesProtected
      BY DEF Init, SidesMatch, AddonRidesProtected, Places
    <2>3. WorstCaseWithinLimit
      <3>1. Reserved = 0
        BY DEF Init, Reserved, RiskOf, Places
      <3> QED
        BY <3>1, EntryConfig DEF Init, WorstCaseWithinLimit
    <2>4. IsFiniteSet(orders) /\ LiftsAreCanaries
      BY FS_EmptySet DEF Init, LiftsAreCanaries
    <2>5. CanariesCapped
      <3>1. {o \in orders : o.lifted /\ ~o.counter} = {}
        BY DEF Init
      <3> QED
        BY <3>1, FS_EmptySet, EntryConfig DEF CanariesCapped
    <2> QED
      BY <2>1, <2>2, <2>3, <2>4, <2>5 DEF IInv, DayInv, OrdersInv
  <1>2. IInv /\ [Next]_vars => IInv'
    BY TypeStep, PositionsStep, OrdersStep DEF IInv, DayInv
  <1> QED
    BY <1>1, <1>2, PTL DEF Spec

(* Every variable of the day keeps its type.                               *)
THEOREM DayTypes == Spec => []TypeOK
  BY Invariant, PTL DEF IInv, DayInv

(* calculate_xauex_remaining_daily_loss_budget: gains, losses, add-ons and *)
(* minimum lots in any order, the day ends within daily_stop_pct even if   *)
(* every open position is stopped out, whatever the limits are.            *)
THEOREM WorstCaseIsBounded == Spec => []WorstCaseWithinLimit
  BY Invariant, PTL DEF IInv, DayInv

(* build_xauex_continuation_addon_decision: an add-on beside its parent is *)
(* in its direction and was only opened once that was protected.           *)
THEOREM AddonsRideProtected == Spec => []AddonRidesProtected
  BY Invariant, PTL DEF IInv, DayInv

(* xauex_min_lot_canary_max_per_day: the smallest lot is lifted to at most *)
(* so often a day, however the slots' signals are graded.                  *)
THEOREM CanariesAreCapped == Spec => []CanariesCapped
  BY Invariant, PTL DEF IInv, OrdersInv

(* No pass asks for more with stale inputs than with fresh ones, or after  *)
(* losses than without: the multipliers, the lift to the minimum lot, the  *)
(* canary and the counter-signal together never work the other way.        *)
THEOREM CautionIsNeverDearer == Spec => []CautionNeverRisksMore
  <1>1. Spec => []TypeOK
    BY DayTypes
  <1>2. TypeOK => CautionNeverRisksMore
    BY Caution
  <1> QED
    BY <1>1, <1>2, PTL
=============================================================================
