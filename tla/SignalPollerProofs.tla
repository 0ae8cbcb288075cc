------------------------- MODULE SignalPollerProofs -------------------------
(* Theorems about SignalPoller, for any number of slots, days, signals and *)
(* trades.                                                                 *)
EXTENDS SignalPoller, TLAPS

(* Only a running process is in a pass.                                    *)
UpInv == ~up => pc = "sleep" /\ copy = NoFile

(* No book, saved or not, is of a later day or over the cap.               *)
Sound(b) == b.date <= day /\ b.taken <= MaxTrades

BookInv ==
    /\ Sound(book)
    /\ disk # NoFile => Sound(disk)
    /\ copy # NoFile => Sound(copy)

(* From its first await to the mark, a pass holds a slot of today that is  *)
(* not used, and until the order is placed a trade is left.                *)
PassInv ==
    /\ pc \in {"evidence", "gate", "placing", "placed"}
       => book.date = day /\ cur \notin book.used
    /\ pc \in {"evidence", "gate", "placing"} => book.taken < MaxTrades

(* Where an order that no exception accounts for has left its trace.       *)
Held(s) ==
    \/ pc = "dead"
    \/ pc \in {"placing", "placed"} /\ cur = s
    \/ book.date = day /\ s \in book.used

OrderInv ==
    /\ SlotTradedOnce
    /\ up => \A s \in Slots : orders[s] > raised[s] => Held(s)

FilledInv ==
    /\ DailyCapHolds
    /\ up /\ filled > 0 => book.date = day /\ filled <= book.taken

(* What a file or a copy of today shows as used is used in memory.         *)
Behind(f) ==
    f # NoFile /\ f.date = day
    => book.date = day /\ f.used \subseteq book.used

FileInv == up => Behind(disk) /\ Behind(copy)

(* "shown" means what it says, and a slot that was written over is still   *)
(* used in the memory of the process.                                      *)
SavedInv ==
    \A s \in Slots :
        /\ saved[s] = "shown" <=> s \in ShownIn(disk)
        /\ up /\ saved[s] = "overtaken" => book.date = day /\ s \in book.used

CoreInv ==
    /\ UpInv
    /\ BookInv
    /\ PassInv
    /\ OrderInv
    /\ FilledInv
    /\ FileInv
    /\ SavedInv

PollerInv == TypeOK /\ CoreInv

(* Rolling the day and marking a slot give a book.                         *)
LEMMA RollType ==
    ASSUME TypeOK, NEW b \in Book
    PROVE  /\ Rolled(b) \in Book
           /\ Rolled(b).date = day
           /\ RolledLast \in [Slots -> Ids \cup {NoId}]
           /\ RolledCooling \in [Slots -> BOOLEAN]
BY DEF TypeOK, Book, Rolled, NewBook, RolledLast, RolledCooling, Never

LEMMA MarkType ==
    ASSUME NEW b \in Book, NEW s \in Slots, NEW terminal \in BOOLEAN
    PROVE  /\ Mark(b, s, terminal) \in Book
           /\ Mark(b, s, terminal).date = b.date
           /\ Mark(b, s, terminal).taken = b.taken
           /\ b.used \subseteq Mark(b, s, terminal).used
           /\ terminal => s \in Mark(b, s, terminal).used
BY DEF Book, Mark

(* A run that is not terminal leaves the book as it is.                    *)
LEMMA UnmarkedBook ==
    ASSUME NEW b \in Book, NEW s \in Slots, NEW terminal
    PROVE  Mark(b, s, terminal) \in {b, Mark(b, s, TRUE)}
BY DEF Book, Mark

(* A roll that changes the book empties it; any other changes nothing.     *)
LEMMA RollKeeps ==
    ASSUME NEW b \in Book
    PROVE  /\ b.date = day => Rolled(b) = b
           /\ b.date # day => Rolled(b).taken = 0 /\ Rolled(b).used = {}
BY DEF Book, Rolled, NewBook, Never

(* The poller starts in the invariant.                                     *)
LEMMA PollerInit == Init => PollerInv
<1> SUFFICES ASSUME Init PROVE PollerInv
    OBVIOUS
<1> USE PollerConstants DEF Init
<1>1. TypeOK
  <2>1. /\ day \in Days /\ slot \in Slots /\ stage \in Stages
        /\ cur \in Slots /\ written \in 0..MaxSignals
    BY DEF Days, Slots, Stages
  <2>2. book \in Book
    BY DEF Book, NewBook, Never
  <2>3. /\ last \in [Slots -> Ids \cup {NoId}]
        /\ orders \in [Slots -> Nat] /\ raised \in [Slots -> Nat]
        /\ filled \in Nat /\ saved \in [Slots -> SaveStates]
    BY DEF NoneYet, NeverSaved, SaveStates
  <2>4. up \in BOOLEAN /\ kill \in BOOLEAN /\ cooling \in [Slots -> BOOLEAN]
    BY Zenon
  <2> QED
    BY <2>1, <2>2, <2>3, <2>4 DEF TypeOK
<1>2. UpInv /\ PassInv
    BY DEF UpInv, PassInv
<1>3. BookInv
    BY DEF BookInv, Sound, NewBook, Never
<1>4. OrderInv /\ FilledInv
    BY DEF OrderInv, FilledInv, SlotTradedOnce, DailyCapHolds, NoneYet
<1>5. FileInv
    BY DEF FileInv, Behind
<1>6. SavedInv
    BY DEF SavedInv, ShownIn, NeverSaved
<1> QED
    BY <1>1, <1>2, <1>3, <1>4, <1>5, <1>6 DEF PollerInv, CoreInv

-----------------------------------------------------------------------------

(* What the pass and its awaits leave typed whatever they decide.          *)
PassTypes ==
    /\ day \in Days /\ slot \in Slots /\ stage \in Stages
    /\ written \in 0..MaxSignals
    /\ up \in BOOLEAN /\ kill \in BOOLEAN
    /\ last \in [Slots -> Ids \cup {NoId}]
    /\ cooling \in [Slots -> BOOLEAN]
    /\ pc \in {"sleep", "evidence", "gate", "placing", "placed", "writing",
               "closing", "dead"}
    /\ cur \in Slots
    /\ copy \in Book \cup {NoFile}

LEMMA BeginTypes ==
    ASSUME TypeOK, NEW next \in {"evidence", "writing", "closing"}, Begin(next)
    PROVE  /\ PassTypes'
           /\ disk' \in Book \cup {NoFile} /\ saved' \in [Slots -> SaveStates]
           /\ orders' \in [Slots -> Nat] /\ raised' \in [Slots -> Nat]
           /\ filled' \in Nat
           /\ cmd \in Signal
           /\ Rolled(book) \in Book
<1>1. book \in Book /\ slot \in Slots /\ cmd \in Signal
    BY DEF TypeOK, Begin
<1>2. Rolled(book) \in Book /\ RolledLast \in [Slots -> Ids \cup {NoId}]
      /\ RolledCooling \in [Slots -> BOOLEAN]
    BY <1>1, RollType
<1>3. cmd.id \in Ids
    BY <1>1 DEF Signal
<1>4. last' \in [Slots -> Ids \cup {NoId}]
    BY <1>1, <1>2, <1>3 DEF Begin
<1>5. cooling' \in [Slots -> BOOLEAN]
    BY <1>1, <1>2 DEF Begin
<1> QED
    BY <1>1, <1>2, <1>4, <1>5
    DEF TypeOK, Begin, PassTypes, clock, file, stored, history

LEMMA ContinueTypes ==
    ASSUME TypeOK, NEW from, Continue(from, pc'),
           pc' \in {"sleep", "gate", "placing", "placed", "writing", "closing",
                    "dead"}
    PROVE  PassTypes' /\ cmd' \in Signal \cup {NoSignal}
BY DEF TypeOK, Continue, PassTypes, clock, signals

(* A write of the file notes what it shows.                                *)
LEMMA WriteTypes ==
    ASSUME TypeOK, NEW b \in Book, Written(b) \/ UNCHANGED stored
    PROVE  disk' \in Book \cup {NoFile} /\ saved' \in [Slots -> SaveStates]
<1>1. CASE Written(b)
  <2>1. \A s \in Slots : saved[s] \in SaveStates
    BY DEF TypeOK
  <2>2. Noted(b) \in [Slots -> SaveStates]
    BY <2>1 DEF Noted, SaveStates
  <2> QED
    BY <1>1, <2>2 DEF Written
<1>2. CASE UNCHANGED stored
    BY <1>2 DEF stored, TypeOK
<1> QED
    BY <1>1, <1>2

(* Every step keeps the types.                                             *)
LEMMA NextTypes == TypeOK /\ [Next]_vars => TypeOK'
<1> SUFFICES ASSUME TypeOK, [Next]_vars PROVE TypeOK'
    OBVIOUS
<1> USE PollerConstants
<1>0. book \in Book /\ slot \in Slots /\ cur \in Slots /\ day \in Days
    BY DEF TypeOK
<1>1. CASE ClockTurns
  <2>1. slot' \in Slots /\ stage' \in Stages
    BY <1>1 DEF TypeOK, ClockTurns, Slots, Stages
  <2> QED
    BY <1>1, <2>1
    DEF TypeOK, ClockTurns, signals, memory, pass, file, stored, history
<1>2. CASE NextDay
  <2>1. day' \in Days /\ slot' \in Slots /\ stage' \in Stages
    BY <1>2 DEF TypeOK, NextDay, Days, Slots, Stages
  <2> QED
    BY <1>2, <2>1
    DEF TypeOK, NextDay, NoneYet, NeverSaved, SaveStates, signals, memory, pass
<1>3. ASSUME NEW kind \in {"trade", "other"}, WriteSignal(kind)
      PROVE  TypeOK'
  <2>1. written' \in Ids
    BY <1>3 DEF TypeOK, WriteSignal, Ids
  <2>2. cmd' \in Signal /\ written' \in 0..MaxSignals
    BY <1>3, <2>1 DEF TypeOK, WriteSignal, Signal, Ids
  <2> QED
    BY <1>3, <2>2
    DEF TypeOK, WriteSignal, clock, memory, pass, file, stored, history
<1>4. CASE Undefer
  <2>1. cmd' \in Signal
    BY <1>4 DEF TypeOK, Undefer, Signal
  <2> QED
    BY <1>4, <2>1 DEF TypeOK, Undefer, clock, memory, pass, file, stored, history
<1>32. CASE DropSignal
    BY <1>32 DEF TypeOK, DropSignal, clock, memory, pass, file, stored, history
<1>5. CASE KillSwitch
  <2>1. kill' \in BOOLEAN
    BY <1>5, Zenon DEF TypeOK, KillSwitch
  <2> QED
    BY <1>5, <2>1 DEF TypeOK, KillSwitch, clock, signals, memory, pass, file, stored,
                      history
<1>6. CASE PassHold
    BY <1>0, <1>6, BeginTypes, MarkType DEF PassHold, TypeOK, PassTypes
<1>7. CASE PassStale
  <2>1. StaleConsumes \in BOOLEAN
    BY Zenon DEF StaleConsumes
  <2> QED
    BY <1>0, <1>7, <2>1, BeginTypes, MarkType DEF PassStale, TypeOK, PassTypes, stored
<1>8. CASE PassCap
    BY <1>0, <1>8, BeginTypes, MarkType DEF PassCap, TypeOK, PassTypes, stored
<1>9. ASSUME NEW terminal \in BOOLEAN, PassRefuse(terminal) PROVE TypeOK'
    BY <1>0, <1>9, BeginTypes, MarkType DEF PassRefuse, TypeOK, PassTypes, stored
<1>10. CASE PassDefer
  <2>1. cmd' \in Signal
    BY <1>10, BeginTypes DEF PassDefer, Signal
  <2> QED
    BY <1>10, <2>1, BeginTypes DEF PassDefer, TypeOK, PassTypes, stored
<1>11. CASE PassRaises
    BY <1>11, BeginTypes DEF PassRaises, TypeOK, PassTypes, stored
<1>12. CASE PassGoesOn
    BY <1>12, BeginTypes DEF PassGoesOn, TypeOK, PassTypes, stored
<1>13. CASE EvidenceRefuses
    BY <1>0, <1>13, ContinueTypes, MarkType
    DEF EvidenceRefuses, Continue, TypeOK, PassTypes, stored, history
<1>14. CASE EvidencePasses
    BY <1>14, ContinueTypes
    DEF EvidencePasses, Continue, TypeOK, PassTypes, stored, history
<1>15. ASSUME NEW terminal \in BOOLEAN, GateRefuses(terminal) PROVE TypeOK'
    BY <1>0, <1>15, ContinueTypes, MarkType
    DEF GateRefuses, Continue, TypeOK, PassTypes, stored, history
<1>16. CASE Send
  <2>1. orders' \in [Slots -> Nat]
    BY <1>0, <1>16 DEF Send, TypeOK
  <2> QED
    BY <1>16, <2>1, ContinueTypes DEF Send, Continue, TypeOK, PassTypes, stored
<1>17. CASE PassFails
    BY <1>17, ContinueTypes DEF PassFails, Continue, TypeOK, PassTypes, stored, history
<1>18. CASE OrderPlaced
  <2>1. book' \in Book /\ filled' \in Nat
    BY <1>18 DEF OrderPlaced, TypeOK, Book
  <2> QED
    BY <1>18, <2>1, ContinueTypes DEF OrderPlaced, Continue, TypeOK, PassTypes, stored
<1>19. CASE OrderNotPlaced
    BY <1>0, <1>19, ContinueTypes, MarkType
    DEF OrderNotPlaced, Continue, TypeOK, PassTypes, stored, history
<1>20. CASE Cancelled
    BY <1>20, ContinueTypes DEF Cancelled, Continue, TypeOK, PassTypes, stored, history
<1>21. CASE OrderRecorded
  <2>1. disk' \in Book \cup {NoFile} /\ saved' \in [Slots -> SaveStates]
    BY <1>0, <1>21, WriteTypes DEF OrderRecorded, Saved
  <2> QED
    BY <1>0, <1>21, <2>1, ContinueTypes, MarkType
    DEF OrderRecorded, Continue, TypeOK, PassTypes, stored, history
<1>22. CASE RecordRaises
  <2>1. raised' \in [Slots -> Nat]
    BY <1>0, <1>22 DEF RecordRaises, TypeOK
  <2> QED
    BY <1>22, <2>1, ContinueTypes DEF RecordRaises, Continue, TypeOK, PassTypes, stored
<1>23. CASE PassEnds
  <2>1. disk' \in Book \cup {NoFile} /\ saved' \in [Slots -> SaveStates]
    BY <1>0, <1>23, WriteTypes DEF PassEnds, Saved
  <2> QED
    BY <1>23, <2>1, ContinueTypes
    DEF PassEnds, Continue, TypeOK, PassTypes, stored, history
<1>24. CASE WriteRaises
    BY <1>24, ContinueTypes
    DEF WriteRaises, Continue, TypeOK, PassTypes, stored, history
<1>25. ASSUME NEW s \in Slots, BackoffEnds(s) PROVE TypeOK'
  <2>1. cooling' \in [Slots -> BOOLEAN]
    BY <1>25 DEF BackoffEnds, TypeOK
  <2> QED
    BY <1>25, <2>1
    DEF BackoffEnds, TypeOK, clock, signals, pass, file, stored, history
<1>26. CASE BeginSave
    BY <1>0, <1>26, RollType
    DEF BeginSave, RollDay, TypeOK, clock, signals, pass, stored, history
<1>27. CASE EndSave
  <2>1. disk' \in Book \cup {NoFile} /\ saved' \in [Slots -> SaveStates]
    BY <1>27, WriteTypes DEF EndSave, TypeOK
  <2> QED
    BY <1>27, <2>1 DEF EndSave, TypeOK, clock, signals, memory, pass, history
<1>28. CASE QuickSave
  <2>1. book' \in Book
    BY <1>0, <1>28, RollType DEF QuickSave, RollDay
  <2>2. disk' \in Book \cup {NoFile} /\ saved' \in [Slots -> SaveStates]
    BY <1>28, <2>1, WriteTypes DEF QuickSave
  <2> QED
    BY <1>0, <1>28, <2>2, RollType
    DEF QuickSave, RollDay, TypeOK, clock, signals, pass, history
<1>29. CASE Crash
    BY <1>29 DEF Crash, TypeOK, clock, signals, memory, stored, history
<1>30. CASE Restart
  <2>1. Restored \in Book
    BY <1>30 DEF Restored, TypeOK, Book, NewBook, Never
  <2>2. cooling' \in [Slots -> BOOLEAN] /\ up' \in BOOLEAN /\ kill' \in BOOLEAN
    BY <1>30, Zenon DEF Restart
  <2>3. last' \in [Slots -> Ids \cup {NoId}]
    BY <1>30 DEF Restart
  <2>4. saved' \in [Slots -> SaveStates]
    BY <1>30 DEF Restart, TypeOK, SaveStates
  <2> QED
    BY <1>30, <2>1, <2>2, <2>3, <2>4
    DEF Restart, NoneYet, TypeOK, clock, signals, pass, file, stored
<1>31. CASE UNCHANGED vars
    BY <1>31 DEF vars, TypeOK, clock, signals, memory, pass, file, stored, history
<1> QED
    BY <1>1, <1>2, <1>3, <1>4, <1>5, <1>6, <1>7, <1>8, <1>9, <1>10, <1>11,
       <1>12, <1>13, <1>14, <1>15, <1>16, <1>17, <1>18, <1>19, <1>20, <1>21,
       <1>22, <1>23, <1>24, <1>25, <1>26, <1>27, <1>28, <1>29, <1>30, <1>31,
       <1>32
    DEF Next

-----------------------------------------------------------------------------
(* The rest of the invariant, kind of step by kind of step.                *)

(* Steps of the clock within a day, of other processes and of the backoff. *)
LEMMA QuietStep ==
    ASSUME PollerInv,
           UNCHANGED << day, up, book, pc, cur, copy, disk, saved, history >>
    PROVE  CoreInv'
BY DEF PollerInv, CoreInv, UpInv, BookInv, Sound, PassInv, OrderInv,
       SlotTradedOnce, Held, FilledInv, DailyCapHolds, FileInv, Behind,
       SavedInv, ShownIn, history

(* The book only gains slots of today, and the file becomes such a book or *)
(* stays: what it stops showing, memory has.                               *)
LEMMA SavedStep ==
    ASSUME PollerInv, up, UNCHANGED << day, up >>,
           \/ UNCHANGED << disk, saved >>
           \/ \E b \in Book : Written(b),
           book.date = day => book'.date = day /\ book.used \subseteq book'.used
    PROVE  SavedInv'
<1>1. /\ SavedInv /\ Behind(disk) /\ saved \in [Slots -> SaveStates]
    BY DEF PollerInv, CoreInv, FileInv, TypeOK
<1>2. CASE UNCHANGED << disk, saved >>
    BY <1>1, <1>2 DEF SavedInv, ShownIn
<1>3. ASSUME NEW b \in Book, Written(b)
      PROVE  SavedInv'
  <2> SUFFICES ASSUME NEW s \in Slots
               PROVE  /\ saved'[s] = "shown" <=> s \in ShownIn(disk)'
                      /\ saved'[s] = "overtaken" => book'.date = day /\ s \in book'.used
    BY DEF SavedInv
  <2>1. /\ disk' = b /\ ShownIn(disk)' = ShownIn(b)
        /\ saved'[s] = IF s \in ShownIn(b) THEN "shown"
                       ELSE IF saved[s] = "shown" THEN "overtaken" ELSE saved[s]
    BY <1>3 DEF Written, Noted, ShownIn
  <2>2. saved[s] \in {"shown", "overtaken"} => book.date = day /\ s \in book.used
    BY <1>1 DEF SavedInv, ShownIn, Behind
  <2> QED
    BY <2>1, <2>2
<1> QED
    BY <1>2, <1>3

(* A pass up to its first await.                                           *)
LEMMA PassStep ==
    ASSUME PollerInv, NEW next \in {"evidence", "writing", "closing"},
           Begin(next),
           book' \in {Rolled(book), Mark(Rolled(book), slot, TRUE)},
           next = "evidence" => book' = Rolled(book) /\ ~CapReached(book')
    PROVE  CoreInv'
<1> USE PollerConstants
<1>1. /\ book \in Book /\ Rolled(book) \in Book /\ slot \in Slots
      /\ day \in Days /\ day \in Nat
    BY RollType DEF PollerInv, CoreInv, TypeOK, Days
<1>2. /\ up /\ pc = "sleep" /\ pc' = next /\ cur' = slot
      /\ slot \notin Rolled(book).used
      /\ UNCHANGED << day, up, copy, disk, saved, orders, raised, filled >>
    BY DEF Begin, clock, file, stored, history
<1>3. /\ book'.date = day /\ book'.taken = Rolled(book).taken
      /\ Rolled(book).used \subseteq book'.used
  <2>1. Rolled(book).date = day
    BY <1>1, RollType DEF PollerInv
  <2>2. LET m == Mark(Rolled(book), slot, TRUE)
        IN  /\ m.date = Rolled(book).date /\ m.taken = Rolled(book).taken
            /\ Rolled(book).used \subseteq m.used
    BY <1>1, MarkType
  <2> QED
    BY <2>1, <2>2
<1>4. /\ book.date = day => Rolled(book) = book
      /\ book.date # day => Rolled(book).taken = 0 /\ Rolled(book).used = {}
    BY <1>1, RollKeeps
<1>5. UpInv'
    BY <1>2 DEF UpInv
<1>6. BookInv'
    BY <1>1, <1>2, <1>3, <1>4 DEF PollerInv, CoreInv, BookInv, Sound
<1>7. PassInv'
    BY <1>1, <1>2, <1>3, <1>6
    DEF PassInv, CapReached, BookInv, Sound, Book
<1>8. OrderInv'
    BY <1>2, <1>3, <1>4 DEF PollerInv, CoreInv, OrderInv, SlotTradedOnce, Held
<1>9. FilledInv'
    BY <1>2, <1>3, <1>4 DEF PollerInv, CoreInv, FilledInv, DailyCapHolds
<1>10. FileInv'
    BY <1>2, <1>3, <1>4 DEF PollerInv, CoreInv, FileInv, Behind
<1>11. SavedInv'
    BY <1>2, <1>3, <1>4, SavedStep
<1> QED
    BY <1>5, <1>6, <1>7, <1>8, <1>9, <1>10, <1>11 DEF CoreInv

(* An await that ends with the slot marked, or not, and no new order.      *)
LEMMA AwaitStep ==
    ASSUME PollerInv, NEW from, NEW to \in {"gate", "writing", "closing",
                                            "sleep", "dead"},
           Continue(from, to),
           book' \in {book, Mark(book, cur, TRUE)},
           Written(book) \/ UNCHANGED stored,
           UNCHANGED history,
           to = "gate" => from = "evidence" /\ book' = book,
           from = "placing" => to = "dead" \/ book' # book,
           from = "placed" => book' # book,
           from # "dead"
    PROVE  CoreInv'
<1>1. book \in Book /\ cur \in Slots /\ day \in Days
    BY DEF PollerInv, CoreInv, TypeOK
<1>2. /\ up /\ pc = from /\ pc' = to
      /\ UNCHANGED << day, up, cur, copy, orders, raised, filled >>
    BY DEF Continue, history, clock
<1>d. disk' \in {disk, book}
    BY DEF Written, stored
<1>3. /\ book'.date = book.date /\ book'.taken = book.taken
      /\ book.used \subseteq book'.used
      /\ book' # book => cur \in book'.used
    BY <1>1, MarkType
<1>4. UpInv'
    BY <1>2 DEF UpInv
<1>5. BookInv'
    BY <1>2, <1>3, <1>d DEF PollerInv, CoreInv, BookInv, Sound
<1>6. PassInv'
    BY <1>2 DEF PollerInv, CoreInv, PassInv
<1>7. OrderInv'
    BY <1>2, <1>3
    DEF PollerInv, CoreInv, OrderInv, SlotTradedOnce, Held, PassInv
<1>8. FilledInv'
    BY <1>2, <1>3 DEF PollerInv, CoreInv, FilledInv, DailyCapHolds
<1>9. FileInv'
    BY <1>2, <1>3, <1>d DEF PollerInv, CoreInv, FileInv, Behind
<1>10. SavedInv'
    BY <1>1, <1>2, <1>3, SavedStep DEF stored
<1> QED
    BY <1>4, <1>5, <1>6, <1>7, <1>8, <1>9, <1>10 DEF CoreInv

LEMMA SendStep == PollerInv /\ Send => CoreInv'
<1> SUFFICES ASSUME PollerInv, Send PROVE CoreInv'
    OBVIOUS
<1>1. /\ orders \in [Slots -> Nat] /\ raised \in [Slots -> Nat]
      /\ cur \in Slots
    BY DEF PollerInv, CoreInv, TypeOK
<1>2. /\ up /\ pc = "gate" /\ pc' = "placing"
      /\ orders' = [orders EXCEPT ![cur] = @ + 1]
      /\ UNCHANGED << day, up, cur, book, copy, disk, saved, raised, filled >>
    BY DEF Send, Continue, clock, stored
<1>3. UpInv' /\ BookInv' /\ PassInv'
    BY <1>2 DEF PollerInv, CoreInv, UpInv, BookInv, Sound, PassInv
<1>4. orders[cur] <= raised[cur]
    BY <1>1, <1>2 DEF PollerInv, CoreInv, OrderInv, Held, PassInv
<1>5. OrderInv'
    BY <1>1, <1>2, <1>4 DEF PollerInv, CoreInv, OrderInv, SlotTradedOnce, Held
<1>6. FilledInv' /\ FileInv'
    BY <1>2 DEF PollerInv, CoreInv, FilledInv, DailyCapHolds, FileInv, Behind
<1>7. SavedInv'
    BY <1>2, SavedStep
<1> QED
    BY <1>3, <1>5, <1>6, <1>7 DEF CoreInv

LEMMA PlacedStep == PollerInv /\ OrderPlaced => CoreInv'
<1> SUFFICES ASSUME PollerInv, OrderPlaced PROVE CoreInv'
    OBVIOUS
<1> USE PollerConstants
<1>1. book \in Book /\ filled \in Nat
    BY DEF PollerInv, CoreInv, TypeOK
<1>2. /\ up /\ pc = "placing" /\ pc' = "placed" /\ filled' = filled + 1
      /\ UNCHANGED << day, up, cur, copy, disk, saved, orders, raised >>
    BY DEF OrderPlaced, Continue, clock, stored
<1>3. /\ book'.taken = book.taken + 1 /\ book'.date = book.date
      /\ book'.used = book.used /\ book.taken \in Nat
    BY <1>1 DEF OrderPlaced, Book
<1>4. UpInv' /\ BookInv' /\ PassInv'
    BY <1>2, <1>3 DEF PollerInv, CoreInv, UpInv, BookInv, Sound, PassInv
<1>5. OrderInv'
    BY <1>2, <1>3 DEF PollerInv, CoreInv, OrderInv, SlotTradedOnce, Held
<1>6. FilledInv'
    BY <1>1, <1>2, <1>3
    DEF PollerInv, CoreInv, FilledInv, DailyCapHolds, PassInv
<1>7. FileInv'
    BY <1>2, <1>3 DEF PollerInv, CoreInv, FileInv, Behind
<1>8. SavedInv'
    BY <1>2, <1>3, SavedStep
<1> QED
    BY <1>4, <1>5, <1>6, <1>7, <1>8 DEF CoreInv

LEMMA RaiseStep == PollerInv /\ RecordRaises => CoreInv'
<1> SUFFICES ASSUME PollerInv, RecordRaises PROVE CoreInv'
    OBVIOUS
<1>1. /\ orders \in [Slots -> Nat] /\ raised \in [Slots -> Nat]
      /\ cur \in Slots
    BY DEF PollerInv, CoreInv, TypeOK
<1>2. /\ up /\ pc = "placed" /\ pc' = "closing"
      /\ raised' = [raised EXCEPT ![cur] = @ + 1]
      /\ UNCHANGED << day, up, cur, book, copy, disk, saved, orders, filled >>
    BY DEF RecordRaises, Continue, clock, stored
<1>3. UpInv' /\ BookInv' /\ PassInv'
    BY <1>2 DEF PollerInv, CoreInv, UpInv, BookInv, Sound, PassInv
<1>4. OrderInv'
    BY <1>1, <1>2 DEF PollerInv, CoreInv, OrderInv, SlotTradedOnce, Held
<1>5. FilledInv' /\ FileInv'
    BY <1>2 DEF PollerInv, CoreInv, FilledInv, DailyCapHolds, FileInv, Behind
<1>6. SavedInv'
    BY <1>2, SavedStep
<1> QED
    BY <1>3, <1>4, <1>5, <1>6 DEF CoreInv

(* A save of another task rolls the day and writes or copies the book.     *)
LEMMA SaveStep ==
    ASSUME PollerInv, up, book' = Rolled(book),
           Written(book') \/ UNCHANGED stored,
           copy' \in {copy, book'},
           UNCHANGED << day, up, pc, cur, history >>
    PROVE  CoreInv'
<1> USE PollerConstants
<1>1. /\ book \in Book /\ Rolled(book) \in Book /\ Rolled(book).date = day
      /\ day \in Nat
      /\ disk \in Book \cup {NoFile} /\ copy \in Book \cup {NoFile}
    BY RollType DEF PollerInv, TypeOK, Days
<1>2. /\ book.date = day => Rolled(book) = book
      /\ book.date # day => Rolled(book).taken = 0 /\ Rolled(book).used = {}
    BY <1>1, RollKeeps
<1>3. UNCHANGED << day, up, pc, cur, orders, raised, filled >>
    BY DEF history
<1>d. disk' \in {disk, book'}
    BY DEF Written, stored
<1>4. UpInv'
    BY <1>3 DEF UpInv
<1>5. BookInv'
    BY <1>1, <1>2, <1>3, <1>d DEF PollerInv, CoreInv, BookInv, Sound
<1>6. PassInv'
    BY <1>2, <1>3 DEF PollerInv, CoreInv, PassInv
<1>7. OrderInv'
    BY <1>2, <1>3
    DEF PollerInv, CoreInv, OrderInv, SlotTradedOnce, Held, PassInv
<1>8. FilledInv'
    BY <1>2, <1>3 DEF PollerInv, CoreInv, FilledInv, DailyCapHolds
<1>9. FileInv'
    BY <1>1, <1>2, <1>3, <1>d DEF PollerInv, CoreInv, FileInv, Behind
<1>10. SavedInv'
    BY <1>1, <1>2, <1>3, SavedStep DEF stored
<1> QED
    BY <1>4, <1>5, <1>6, <1>7, <1>8, <1>9, <1>10 DEF CoreInv

(* The copy in flight becomes the file, or is lost.                        *)
LEMMA EndSaveStep ==
    ASSUME PollerInv, up, copy # NoFile,
           Written(copy) \/ UNCHANGED stored, copy' = NoFile,
           UNCHANGED << day, up, book, pc, cur, history >>
    PROVE  CoreInv'
<1>1. copy \in Book /\ disk' \in {disk, copy}
    BY DEF PollerInv, TypeOK, Written, stored
<1>2. SavedInv'
    BY <1>1, SavedStep DEF stored
<1>3. UpInv' /\ BookInv' /\ PassInv' /\ OrderInv' /\ FilledInv' /\ FileInv'
    BY <1>1
    DEF PollerInv, CoreInv, UpInv, BookInv, Sound, PassInv, OrderInv,
        SlotTradedOnce, Held, FilledInv, DailyCapHolds, FileInv, Behind,
        history
<1> QED
    BY <1>2, <1>3 DEF CoreInv

LEMMA NextDayStep == PollerInv /\ NextDay => CoreInv'
<1> SUFFICES ASSUME PollerInv, NextDay PROVE CoreInv'
    OBVIOUS
<1> USE PollerConstants
<1>1. /\ day \in Nat /\ book \in Book
      /\ disk \in Book \cup {NoFile} /\ copy \in Book \cup {NoFile}
    BY DEF PollerInv, CoreInv, TypeOK, Days
<1>2. /\ day' = day + 1 /\ pc \in {"sleep", "dead"}
      /\ orders' = NoneYet /\ raised' = NoneYet /\ filled' = 0
      /\ saved' = NeverSaved
      /\ UNCHANGED << up, book, pc, cur, copy, disk >>
    BY DEF NextDay, memory, pass
<1>3. \A b \in Book : Sound(b) => b.date <= day' /\ b.date # day'
    BY <1>1, <1>2 DEF Sound, Book, Days, Never
<1>4. UpInv' /\ PassInv'
    BY <1>2 DEF PollerInv, CoreInv, UpInv, PassInv
<1>5. BookInv'
    BY <1>1, <1>2, <1>3 DEF PollerInv, CoreInv, BookInv, Sound
<1>6. OrderInv' /\ FilledInv'
    BY <1>2
    DEF OrderInv, SlotTradedOnce, FilledInv, DailyCapHolds, NoneYet, Held
<1>7. FileInv'
    BY <1>1, <1>2, <1>3 DEF PollerInv, CoreInv, BookInv, FileInv, Behind
<1>8. SavedInv'
  <2>1. disk # NoFile => disk.date # day'
    BY <1>1, <1>3 DEF PollerInv, CoreInv, BookInv
  <2> QED
    BY <1>2, <2>1 DEF SavedInv, ShownIn, NeverSaved
<1> QED
    BY <1>4, <1>5, <1>6, <1>7, <1>8 DEF CoreInv

LEMMA RestartStep == PollerInv /\ (Crash \/ Restart) => CoreInv'
<1> SUFFICES ASSUME PollerInv, Crash \/ Restart PROVE CoreInv'
    OBVIOUS
<1> USE PollerConstants
<1>1. CASE Crash
    BY <1>1
    DEF Crash, clock, memory, history, PollerInv, CoreInv, UpInv, BookInv,
        Sound, PassInv, OrderInv, SlotTradedOnce, FilledInv, DailyCapHolds,
        FileInv, SavedInv, ShownIn, stored
<1>2. CASE Restart
  <2>1. /\ ~up /\ pc = "sleep" /\ copy = NoFile /\ up' /\ book' = Restored
        /\ orders' = NoneYet /\ raised' = NoneYet /\ filled' = 0
        /\ UNCHANGED << day, pc, cur, copy, disk >>
    BY <1>2 DEF Restart, clock, pass, PollerInv, CoreInv, UpInv
  <2>2. Sound(Restored) /\ day \in Nat
    BY DEF Restored, PollerInv, CoreInv, TypeOK, BookInv, Sound, NewBook,
           Never, Days
  <2>3. UpInv' /\ PassInv'
    BY <2>1 DEF UpInv, PassInv
  <2>4. BookInv'
    BY <2>1, <2>2 DEF PollerInv, CoreInv, BookInv, Sound
  <2>5. OrderInv' /\ FilledInv'
    BY <2>1
    DEF OrderInv, SlotTradedOnce, FilledInv, DailyCapHolds, NoneYet, Held
  <2>6. FileInv'
    BY <2>1 DEF FileInv, Behind, Restored
  <2>7. SavedInv'
    BY <1>2, <2>1 DEF Restart, SavedInv, ShownIn, PollerInv, CoreInv
  <2> QED
    BY <2>3, <2>4, <2>5, <2>6, <2>7 DEF CoreInv
<1> QED
    BY <1>1, <1>2

-----------------------------------------------------------------------------

LEMMA NextInv == PollerInv /\ [Next]_vars => PollerInv'
<1> SUFFICES ASSUME PollerInv, [Next]_vars PROVE CoreInv'
    BY NextTypes DEF PollerInv
<1>0. /\ book \in Book /\ slot \in Slots /\ cur \in Slots
      /\ Rolled(book) \in Book
    BY RollType DEF PollerInv, TypeOK
<1>1. CASE ClockTurns
    BY <1>1, QuietStep DEF ClockTurns, memory, pass, file, stored
<1>2. CASE NextDay
    BY <1>2, NextDayStep
<1>3. ASSUME NEW kind \in {"trade", "other"}, WriteSignal(kind)
      PROVE  CoreInv'
    BY <1>3, QuietStep DEF WriteSignal, clock, memory, pass, file, stored
<1>4. CASE Undefer
    BY <1>4, QuietStep DEF Undefer, clock, memory, pass, file, stored
<1>32. CASE DropSignal
    BY <1>32, QuietStep DEF DropSignal, clock, memory, pass, file, stored
<1>5. CASE KillSwitch
    BY <1>5, QuietStep DEF KillSwitch, clock, memory, pass, file, stored
<1>6. CASE PassHold
    BY <1>6, PassStep DEF PassHold
<1>7. CASE PassStale
    BY <1>0, <1>7, PassStep, UnmarkedBook DEF PassStale
<1>8. CASE PassCap
    BY <1>8, PassStep DEF PassCap
<1>9. ASSUME NEW terminal \in BOOLEAN, PassRefuse(terminal) PROVE CoreInv'
    BY <1>0, <1>9, PassStep, UnmarkedBook DEF PassRefuse
<1>10. CASE PassDefer
    BY <1>10, PassStep DEF PassDefer
<1>11. CASE PassRaises
    BY <1>11, PassStep DEF PassRaises
<1>12. CASE PassGoesOn
    BY <1>12, PassStep DEF PassGoesOn, Fresh
<1>13. CASE EvidenceRefuses
    BY <1>13, AwaitStep DEF EvidenceRefuses
<1>14. CASE EvidencePasses
    BY <1>14, AwaitStep DEF EvidencePasses
<1>15. ASSUME NEW terminal \in BOOLEAN, GateRefuses(terminal) PROVE CoreInv'
    BY <1>0, <1>15, AwaitStep, UnmarkedBook DEF GateRefuses
<1>16. CASE Send
    BY <1>16, SendStep
<1>17. CASE PassFails
    BY <1>17, AwaitStep DEF PassFails
<1>18. CASE OrderPlaced
    BY <1>18, PlacedStep
<1>19. CASE OrderNotPlaced
  <2>1. book' # book
    BY <1>0, <1>19, MarkType
    DEF OrderNotPlaced, Continue, PollerInv, CoreInv, PassInv
  <2> QED
    BY <1>19, <2>1, AwaitStep DEF OrderNotPlaced
<1>20. CASE Cancelled
    BY <1>20, AwaitStep DEF Cancelled
<1>21. CASE OrderRecorded
  <2>1. book' # book
    BY <1>0, <1>21, MarkType
    DEF OrderRecorded, Continue, PollerInv, CoreInv, PassInv
  <2> QED
    BY <1>21, <2>1, AwaitStep DEF OrderRecorded, Saved
<1>22. CASE RecordRaises
    BY <1>22, RaiseStep
<1>23. CASE PassEnds
    BY <1>23, AwaitStep DEF PassEnds, Saved
<1>24. CASE WriteRaises
    BY <1>24, AwaitStep DEF WriteRaises
<1>25. ASSUME NEW s \in Slots, BackoffEnds(s) PROVE CoreInv'
    BY <1>25, QuietStep DEF BackoffEnds, clock, pass, file, stored
<1>26. CASE BeginSave
    BY <1>26, SaveStep DEF BeginSave, RollDay, clock, pass
<1>27. CASE EndSave
  <2>1. /\ up /\ copy # NoFile /\ book' = book
        /\ Written(copy) \/ UNCHANGED stored
        /\ copy' = NoFile
        /\ UNCHANGED << day, up, pc, cur, history >>
    BY <1>27 DEF EndSave, clock, memory, pass
  <2> QED
    BY <2>1, EndSaveStep
<1>28. CASE QuickSave
    BY <1>28, SaveStep DEF QuickSave, RollDay, clock, pass
<1>29. CASE Crash
    BY <1>29, RestartStep
<1>30. CASE Restart
    BY <1>30, RestartStep
<1>31. CASE UNCHANGED vars
    BY <1>31, QuietStep DEF vars, clock, memory, pass, file, stored
<1> QED
    BY <1>1, <1>2, <1>3, <1>4, <1>5, <1>6, <1>7, <1>8, <1>9, <1>10, <1>11,
       <1>12, <1>13, <1>14, <1>15, <1>16, <1>17, <1>18, <1>19, <1>20, <1>21,
       <1>22, <1>23, <1>24, <1>25, <1>26, <1>27, <1>28, <1>29, <1>30, <1>31,
       <1>32
    DEF Next

-----------------------------------------------------------------------------

(* PollerInv holds in every reachable state.                               *)
THEOREM PollerInvariant == Spec => []PollerInv
BY PollerInit, NextInv, PTL DEF Spec

(* Every reachable state of the poller is well typed.                      *)
THEOREM PollerTypes == Spec => []TypeOK
<1>1. PollerInv => TypeOK
    BY DEF PollerInv
<1> QED
    BY <1>1, PollerInvariant, PTL

(* _mark_slot_used: one order per slot, day and process, and one more for  *)
(* each exception of write_state between the order and the mark.           *)
THEOREM SlotIsTradedOnce == Spec => []SlotTradedOnce
<1>1. PollerInv => SlotTradedOnce
    BY DEF PollerInv, CoreInv, OrderInv
<1> QED
    BY <1>1, PollerInvariant, PTL

(* The daily cap, checked awaits before the trade is counted, is kept.     *)
THEOREM CapIsKept == Spec => []DailyCapHolds
<1>1. PollerInv => DailyCapHolds
    BY DEF PollerInv, CoreInv, FilledInv
<1> QED
    BY <1>1, PollerInvariant, PTL

(* Only Send adds an order.                                                *)
LEMMA OnlySendOrders ==
    ASSUME PollerInv, [Next]_vars, ~Send, NEW s \in Slots
    PROVE  ~(orders'[s] > orders[s])
<1>1. orders' = orders \/ orders' = NoneYet
    BY DEF Next, vars, history, ClockTurns, NextDay, WriteSignal, Undefer,
           DropSignal, KillSwitch, PassHold, PassStale, PassCap, PassRefuse, PassDefer,
           PassRaises, PassGoesOn, Begin, EvidenceRefuses, EvidencePasses,
           GateRefuses, PassFails, OrderPlaced, OrderNotPlaced, Cancelled,
           OrderRecorded, RecordRaises, PassEnds, WriteRaises, BackoffEnds,
           BeginSave, EndSave, QuickSave, Crash, Restart
<1> QED
    BY <1>1 DEF PollerInv, TypeOK, NoneYet

(* A slot that risk_state.json has shown as used today is not traded again *)
(* by this process, and by a later one only if it was started from an      *)
(* older copy that an overlapping save had written over the file.          *)
THEOREM SavedSlotIsFreedByOldCopy == Spec => SavedSlotFreedOnlyByOldCopy
<1>1. PollerInv /\ [Next]_vars
      => [ \A s \in Slots :
            orders'[s] > orders[s] => saved[s] \in {"never", "forgotten"} ]_vars
  <2> SUFFICES ASSUME PollerInv, [Next]_vars, NEW s \in Slots,
                      orders'[s] > orders[s],
                      saved[s] \notin {"never", "forgotten"}
               PROVE  FALSE
    OBVIOUS
  <2>1. Send
    BY OnlySendOrders
  <2>2. s = cur
    BY <2>1 DEF Send, PollerInv, TypeOK
  <2>3. up /\ pc = "gate"
    BY <2>1 DEF Send, Continue
  <2>4. saved[s] \in {"shown", "overtaken"}
    BY DEF PollerInv, TypeOK, SaveStates
  <2>5. book.date = day /\ s \in book.used
    BY <2>3, <2>4 DEF PollerInv, CoreInv, SavedInv, ShownIn, FileInv, Behind
  <2> QED
    BY <2>2, <2>3, <2>5 DEF PollerInv, CoreInv, PassInv
<1> QED
    BY <1>1, PollerInvariant, PTL DEF Spec, SavedSlotFreedOnlyByOldCopy
=============================================================================
