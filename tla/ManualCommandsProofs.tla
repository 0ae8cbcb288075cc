------------------------ MODULE ManualCommandsProofs ------------------------
(***************************************************************************)
(* Theorems about ManualCommands, for any number of commands, any lifetime *)
(* and any ledger that has an entry for each tick of it.                   *)
(*                                                                         *)
(* SentIsBarred is not inductive.  The ledger forgets its oldest entry, so *)
(* the invariant says that its entries are at least as far apart in time   *)
(* as in the ledger (Spaced), that none is of a tick in which the file is  *)
(* still being verified (NoneAhead), and that an entry outlives its        *)
(* command by at most a lifetime (Lifetimes).                              *)
(***************************************************************************)
EXTENDS ManualCommands, TLAPS

Positions == 1..Len(ledger)

Verifying == step \in {"read", "verified"}

Spaced ==
    \A i, j \in Positions : i <= j => ledger[i].at + j <= ledger[j].at + i

NoneAhead ==
    \A i \in Positions :
        /\ 0 < ledger[i].at /\ ledger[i].at <= now
        /\ ledger[i].at = now => polled /\ ~Verifying

Lifetimes ==
    /\ \A c \in Ids : expires[c] < MaxNow /\ expires[c] <= now + TTL
    /\ \A i \in Positions :
        /\ ledger[i].at <= expires[ledger[i].id]
        /\ expires[ledger[i].id] <= ledger[i].at + TTL

Taken ==
    /\ now > 0
    /\ \A c \in Ids : orders[c] # 0 => expires[c] # 0
    /\ file.form = "signed" => file.id \in Ids
    /\ taken.form = "signed" => taken.id \in Ids
    /\ step \in Synchronous => polled
    /\ step \in {"verified", "accepted"}
       => taken.form = "signed" /\ now <= expires[taken.id]
    /\ step = "accepted" => orders[taken.id] = 0 /\ InLedger(taken.id)

(* The strengthening of SentIsBarred: at the tick of its expiry a command  *)
(* is barred because the file of that tick has been dealt with.            *)
Lapsed(c) == now > expires[c] \/ (now = expires[c] /\ polled /\ ~Verifying)

Barred == \A c \in Ids : orders[c] # 0 => InLedger(c) \/ Lapsed(c)

LedgerInv == Spaced /\ NoneAhead /\ Lifetimes /\ Len(ledger) <= MaxEntries

IInv == TypeOK /\ LedgerInv /\ Taken /\ Barred

-----------------------------------------------------------------------------
(* The ledger *)

(* What remember leaves: the new entry, behind as many old ones as fit.    *)
LEMMA Remembered ==
    ASSUME TypeOK, NEW c \in Ids, Len(ledger) <= MaxEntries
    PROVE  LET d == IF Len(ledger) < MaxEntries THEN 0 ELSE 1
               new == Remember(c)
               n == Len(ledger) + 1 - d
           IN  /\ new \in Seq(Entry)
               /\ Len(new) = n /\ n \in Nat /\ n <= MaxEntries /\ n > 0
               /\ new[n] = [id |-> c, at |-> now]
               /\ \A i \in 1..(n - 1) : i + d \in Positions /\ new[i] = ledger[i + d]
<1> USE ManualConstants DEF TypeOK, Positions
<1>1. [id |-> c, at |-> now] \in Entry
  BY DEF Entry
<1>2. Len(ledger) \in Nat
  OBVIOUS
<1>3. CASE Len(ledger) < MaxEntries
  BY <1>1, <1>2, <1>3 DEF Remember
<1>4. CASE Len(ledger) = MaxEntries
  <2>1. ledger # << >>
    BY <1>4
  <2>2. /\ Tail(ledger) \in Seq(Entry)
        /\ Len(Tail(ledger)) = Len(ledger) - 1
        /\ \A i \in 1..(Len(ledger) - 1) : Tail(ledger)[i] = ledger[i + 1]
    BY <2>1
  <2>3. Remember(c) = Append(Tail(ledger), [id |-> c, at |-> now])
    BY <1>4, <1>2 DEF Remember
  <2>4. /\ Append(Tail(ledger), [id |-> c, at |-> now]) \in Seq(Entry)
        /\ Len(Append(Tail(ledger), [id |-> c, at |-> now])) = Len(ledger)
    BY <2>2, <1>1, <1>2
  <2>5. \A i \in 1..(Len(ledger) - 1) :
          Append(Tail(ledger), [id |-> c, at |-> now])[i] = ledger[i + 1]
    BY <2>2, <1>1, <1>2
  <2>6. Append(Tail(ledger), [id |-> c, at |-> now])[Len(ledger)]
          = [id |-> c, at |-> now]
    BY <2>2, <1>1, <1>2
  <2> QED
    BY <2>3, <2>4, <2>5, <2>6, <1>4, <1>2
<1> QED
  BY <1>3, <1>4, <1>2

(* A step that leaves the ledger and the issued commands alone, and brings *)
(* the clock no closer to an entry, keeps the invariant of the ledger.     *)
LEMMA LedgerKept ==
    ASSUME TypeOK, LedgerInv, UNCHANGED << ledger, now, expires >>,
           polled => polled', Verifying' => Verifying \/ ~polled
    PROVE  LedgerInv'
<1>1. Spaced' /\ Len(ledger') <= MaxEntries
  BY DEF LedgerInv, Spaced, Positions
<1>2. Lifetimes'
  BY DEF LedgerInv, Lifetimes, Positions
<1>3. NoneAhead'
  BY DEF LedgerInv, NoneAhead, Positions
<1> QED
  BY <1>1, <1>2, <1>3 DEF LedgerInv

(* remember, at a tick of which the ledger has no entry yet, keeps it, and *)
(* what it forgets has lapsed.                                             *)
LEMMA LedgerGrows ==
    ASSUME TypeOK, LedgerInv, Taken, Barred, step = "verified",
           ledger' = Remember(taken.id),
           UNCHANGED << now, polled, expires, orders >>,
           ~(Verifying')
    PROVE  /\ LedgerInv' /\ Barred' /\ ledger' \in Seq(Entry)
           /\ \E i \in 1..Len(ledger') : ledger'[i].id = taken.id
<1> USE ManualConstants
<1> DEFINE c == taken.id
           d == IF Len(ledger) < MaxEntries THEN 0 ELSE 1
           n == Len(ledger) + 1 - d
<1>c. c \in Ids /\ now <= expires[c] /\ polled
  BY DEF Taken, Synchronous
<1>l. Len(ledger) <= MaxEntries /\ Len(ledger) \in Nat /\ d \in {0, 1}
  BY DEF LedgerInv, TypeOK
<1>n. /\ ledger' \in Seq(Entry)
      /\ Len(ledger') = n /\ n \in Nat /\ n <= MaxEntries /\ n > 0
      /\ ledger'[n] = [id |-> c, at |-> now]
      /\ \A i \in 1..(n - 1) : i + d \in Positions /\ ledger'[i] = ledger[i + d]
  BY <1>c, <1>l, Remembered
<1> HIDE DEF n, d, c
<1>a. \A i \in Positions : /\ ledger[i].at \in Nat /\ ledger[i].id \in Ids
                            /\ 0 < ledger[i].at /\ ledger[i].at < now
  <2> SUFFICES ASSUME NEW i \in Positions
               PROVE  /\ ledger[i].at \in Nat /\ ledger[i].id \in Ids
                      /\ 0 < ledger[i].at /\ ledger[i].at < now
    OBVIOUS
  <2>1. ledger[i] \in Entry
    BY DEF TypeOK, Positions
  <2>2. ledger[i].at \in Nat /\ ledger[i].id \in Ids /\ now \in Nat
    BY <2>1 DEF Entry, TypeOK
  <2>3. Verifying
    BY DEF Verifying
  <2>4. 0 < ledger[i].at /\ ledger[i].at <= now /\ ledger[i].at # now
    BY <2>3 DEF LedgerInv, NoneAhead
  <2> QED
    BY <2>2, <2>4
<1>b. now \in Nat /\ now > 0 /\ expires \in [Ids -> Nat]
  BY DEF TypeOK, Taken
<1>o. \A i \in Positions : ledger[i].at + Len(ledger) <= ledger[Len(ledger)].at + i
  BY <1>l DEF LedgerInv, Spaced, Positions
<1>1. Spaced'
  <2> SUFFICES ASSUME NEW i \in 1..n, NEW j \in 1..n, i <= j
               PROVE  ledger'[i].at + j <= ledger'[j].at + i
    BY <1>n DEF Spaced, Positions
  <2>1. CASE j < n
    <3>1. /\ i + d \in Positions /\ ledger'[i] = ledger[i + d]
          /\ j + d \in Positions /\ ledger'[j] = ledger[j + d]
      BY <1>n, <2>1
    <3>2. ledger[i + d].at + (j + d) <= ledger[j + d].at + (i + d)
      BY <3>1, <1>l DEF LedgerInv, Spaced
    <3>3. ledger[i + d].at \in Nat /\ ledger[j + d].at \in Nat
      BY <3>1, <1>a
    <3>4. i \in Nat /\ j \in Nat /\ d \in Nat
      BY <1>l, <1>n
    <3>5. ledger[i + d].at + j <= ledger[j + d].at + i
      BY <3>2, <3>3, <3>4
    <3> QED
      BY <3>1, <3>5
  <2>2. CASE j = n /\ i < n
    <3>1. i + d \in Positions /\ ledger'[i] = ledger[i + d]
      BY <1>n, <2>2
    <3>2. /\ ledger[i + d].at + Len(ledger) <= ledger[Len(ledger)].at + (i + d)
          /\ Len(ledger) \in Positions
      BY <3>1, <1>o, <1>l DEF Positions
    <3>3. n = Len(ledger) + 1 - d
      BY DEF n
    <3>4. /\ ledger[Len(ledger)].at \in Nat /\ ledger[Len(ledger)].at < now
          /\ ledger[i + d].at \in Nat
      BY <3>1, <3>2, <1>a
    <3>5. ledger'[j].at = now /\ n \in Nat
      BY <2>2, <1>n
    <3>6. i \in Nat /\ d \in Nat /\ now \in Nat /\ Len(ledger) \in Nat
      BY <1>l, <1>n, <1>b
    <3> DEFINE length == Len(ledger)
               last == ledger[Len(ledger)].at
               here == ledger[i + d].at
    <3>7. /\ here + length <= last + (i + d) /\ last < now /\ n = length + 1 - d
          /\ here \in Nat /\ last \in Nat /\ length \in Nat
      BY <3>2, <3>3, <3>4, <3>6
    <3>8. here = ledger'[i].at
      BY <3>1
    <3> HIDE DEF length, last, here
    <3>9. here + n <= now + i
      BY <3>5, <3>6, <3>7
    <3> QED
      BY <3>5, <3>8, <3>9, <2>2
  <2>3. CASE i = n /\ j = n
    BY <2>3, <1>n, <1>b
  <2> QED
    BY <2>1, <2>2, <2>3, <1>n
<1>2. NoneAhead'
  <2> SUFFICES ASSUME NEW i \in 1..n
               PROVE  0 < ledger'[i].at /\ ledger'[i].at <= now
    BY <1>n, <1>c DEF NoneAhead, Positions
  <2>1. CASE i = n
    BY <2>1, <1>n, <1>b
  <2>2. CASE i < n
    BY <2>2, <1>n, <1>a, <1>b
  <2> QED
    BY <2>1, <2>2, <1>n
<1>3. Lifetimes'
  <2>1. \A x \in Ids : expires'[x] < MaxNow /\ expires'[x] <= now' + TTL
    BY DEF LedgerInv, Lifetimes
  <2>2. ASSUME NEW i \in 1..n
        PROVE  /\ ledger'[i].at <= expires[ledger'[i].id]
               /\ expires[ledger'[i].id] <= ledger'[i].at + TTL
    <3>1. CASE i = n
      BY <3>1, <1>n, <1>c DEF LedgerInv, Lifetimes
    <3>2. CASE i < n
      <4>1. i + d \in Positions /\ ledger'[i] = ledger[i + d]
        BY <3>2, <1>n
      <4> QED
        BY <4>1 DEF LedgerInv, Lifetimes
    <3> QED
      BY <3>1, <3>2, <1>n
  <2> QED
    BY <2>1, <2>2, <1>n DEF Lifetimes, Positions
<1>4. Barred'
  <2> SUFFICES ASSUME NEW x \in Ids, orders[x] # 0
               PROVE  InLedger(x)' \/ Lapsed(x)'
    BY DEF Barred
  <2>1. InLedger(x) \/ Lapsed(x)
    BY DEF Barred
  <2>2. CASE Lapsed(x)
    BY <2>2, <1>c DEF Lapsed
  <2>3. CASE InLedger(x)
    <3>1. PICK i \in Positions : ledger[i].id = x
      BY <2>3 DEF InLedger, Positions
    <3>2. CASE i - d \in 1..(n - 1)
      <4>1. ledger'[i - d] = ledger[i]
        BY <3>2, <1>n, <1>l, <3>1 DEF Positions
      <4> QED
        BY <4>1, <3>1, <3>2, <1>n, <1>l DEF InLedger
    <3>3. CASE i = 1 /\ d = 1
      <4>1. Len(ledger) = MaxEntries /\ Len(ledger) \in Positions
        BY <3>3, <3>1, <1>l DEF d, Positions
      <4>2. ledger[1].at + MaxEntries <= ledger[Len(ledger)].at + 1
        BY <4>1, <1>o, <3>3, <3>1
      <4>3. expires[x] <= ledger[1].at + TTL
        BY <3>1, <3>3 DEF LedgerInv, Lifetimes
      <4>4. expires[x] <= now
        BY <4>1, <4>2, <4>3, <1>a, <1>b, <3>1, <3>3
      <4> QED
        BY <4>4, <1>c, <1>b DEF Lapsed
    <3> QED
      BY <3>1, <3>2, <3>3, <1>l DEF Positions, n
  <2> QED
    BY <2>1, <2>2, <2>3
<1>5. \E i \in 1..Len(ledger') : ledger'[i].id = c
  BY <1>n
<1>6. LedgerInv'
  BY <1>1, <1>2, <1>3, <1>n DEF LedgerInv
<1>7. ledger' \in Seq(Entry)
  BY <1>n
<1> QED
  BY <1>4, <1>5, <1>6, <1>7 DEF c

-----------------------------------------------------------------------------
(* The invariant *)

LEMMA InitInv == Init => IInv
<1> USE ManualConstants
<1> SUFFICES ASSUME Init PROVE IInv
  OBVIOUS
<1>1. TypeOK
  BY DEF Init, TypeOK, NoFile, Envelope, Forms, Steps
<1>2. LedgerInv
  BY DEF Init, LedgerInv, Spaced, NoneAhead, Lifetimes, Positions
<1>3. Taken
  BY DEF Init, Taken, NoFile, Synchronous
<1>4. Barred
  BY DEF Init, Barred
<1> QED
  BY <1>1, <1>2, <1>3, <1>4 DEF IInv

(* Types are kept by every step.                                           *)
LEMMA NextTypes == IInv /\ [Next]_vars => TypeOK'
<1> USE ManualConstants DEF disk, bot
<1> SUFFICES ASSUME IInv, [Next]_vars PROVE TypeOK'
  OBVIOUS
<1>t. TypeOK /\ Taken /\ Len(ledger) <= MaxEntries
  BY DEF IInv, LedgerInv
<1>f. /\ \A c \in Ids : Signed(c) \in Envelope
      /\ OtherFile \in Envelope /\ NoFile \in Envelope
  BY DEF Envelope, Forms, OtherFile, NoFile, Signed
<1>r. step = "verified" => taken.id \in Ids /\ Remember(taken.id) \in Seq(Entry)
  BY <1>t, Remembered DEF Taken
<1>1. CASE Tick
  <2>1. now' \in Nat
    BY <1>t, <1>1 DEF TypeOK, Tick
  <2> QED
    BY <2>1, <1>t, <1>1 DEF TypeOK, Tick
<1>2. ASSUME NEW c \in Ids, Queue(c) \/ PutBack(c) PROVE TypeOK'
  <2>1. CASE Queue(c)
    <3>1. now + TTL \in Nat
      BY <1>t DEF TypeOK
    <3>2. expires' \in [Ids -> Nat]
      BY <3>1, <1>t, <2>1 DEF TypeOK, Queue
    <3>3. file' \in Envelope
      BY <1>f, <2>1 DEF Queue
    <3> QED
      BY <3>2, <3>3, <1>t, <2>1 DEF TypeOK, Queue
  <2>2. CASE PutBack(c)
    <3>1. file' \in Envelope
      BY <1>f, <2>2 DEF PutBack
    <3> QED
      BY <3>1, <1>t, <2>2 DEF TypeOK, PutBack
  <2> QED
    BY <1>2, <2>1, <2>2
<1>3. CASE PutOther \/ Spoil
  BY <1>t, <1>f, <1>3 DEF TypeOK, PutOther, Spoil
<1>4. CASE Reads \/ ReadFails
  BY <1>t, <1>f, <1>4 DEF TypeOK, Reads, ReadFails, Steps
<1>5. CASE Verifies \/ VerifyRefuses
  BY <1>t, <1>5 DEF TypeOK, Verifies, VerifyRefuses, Valid, Steps, Taken
<1>6. CASE Accepts \/ LedgerRefuses \/ LedgerWriteFails
  BY <1>t, <1>f, <1>r, <1>6 DEF TypeOK, Accepts, LedgerRefuses, LedgerWriteFails, Steps
<1>7. CASE Sends
  BY <1>t, <1>7 DEF TypeOK, Sends, Steps, Taken
<1>8. CASE PolicyRefuses \/ Answered \/ Reports \/ Raises
  BY <1>t, <1>f, <1>8 DEF TypeOK, PolicyRefuses, Answered, Reports, Raises, Steps
<1>9. CASE Crash \/ Startup
  BY <1>t, <1>f, <1>9 DEF TypeOK, Crash, Startup, Steps
<1>10. CASE UNCHANGED vars
  BY <1>t, <1>10 DEF TypeOK, vars
<1> QED
  BY <1>1, <1>2, <1>3, <1>4, <1>5, <1>6, <1>7, <1>8, <1>9, <1>10 DEF Next, Loop

(* A step that leaves the ledger, the orders, the clock and the issued     *)
(* commands alone keeps what the ledger bars.                              *)
LEMMA Steady ==
    ASSUME TypeOK, LedgerInv, Barred,
           UNCHANGED << ledger, now, expires, orders >>,
           polled => polled', Verifying' => Verifying \/ ~polled
    PROVE  LedgerInv' /\ Barred'
<1>1. LedgerInv'
  BY LedgerKept
<1>2. Barred'
  <2> SUFFICES ASSUME NEW x \in Ids, orders[x] # 0
               PROVE  InLedger(x)' \/ Lapsed(x)'
    BY DEF Barred
  <2>1. InLedger(x) \/ Lapsed(x)
    BY DEF Barred
  <2> QED
    BY <2>1 DEF InLedger, Lapsed
<1> QED
  BY <1>1, <1>2

(* The clock moves on, or stays at MaxNow, where every command and every   *)
(* entry is past.                                                          *)
LEMMA TickInv == IInv /\ Tick => LedgerInv' /\ Taken' /\ Barred'
<1> USE ManualConstants DEF disk, bot
<1> SUFFICES ASSUME IInv, Tick PROVE LedgerInv' /\ Taken' /\ Barred'
  OBVIOUS
<1>t. TypeOK /\ LedgerInv /\ Taken /\ Barred
  BY DEF IInv
<1>n. now \in Nat /\ now' \in Nat /\ now' >= now /\ (now' = now => now >= MaxNow)
  BY <1>t DEF Tick, TypeOK
<1>e. \A c \in Ids : expires[c] \in Nat /\ expires[c] < MaxNow
  BY <1>t DEF TypeOK, LedgerInv, Lifetimes
<1>v. ~Verifying /\ ~(Verifying') /\ step \notin Synchronous
  BY DEF Tick, Verifying, Synchronous
<1>a. \A i \in Positions : /\ ledger[i].at \in Nat /\ ledger[i].id \in Ids
                            /\ ledger[i].at <= now
                            /\ ledger[i].at <= expires[ledger[i].id]
  <2> SUFFICES ASSUME NEW i \in Positions
               PROVE  /\ ledger[i].at \in Nat /\ ledger[i].id \in Ids
                      /\ ledger[i].at <= now
                      /\ ledger[i].at <= expires[ledger[i].id]
    OBVIOUS
  <2>1. ledger[i] \in Entry
    BY <1>t DEF TypeOK, Positions
  <2> QED
    BY <2>1, <1>t DEF Entry, LedgerInv, NoneAhead, Lifetimes
<1>1. Spaced' /\ Len(ledger') <= MaxEntries
  BY <1>t DEF Tick, LedgerInv, Spaced, Positions
<1>2. NoneAhead'
  <2> SUFFICES ASSUME NEW i \in Positions
               PROVE  ledger[i].at <= now' /\ ledger[i].at # now'
    BY <1>t, <1>v DEF Tick, NoneAhead, Positions, LedgerInv
  <2> QED
    BY <1>a, <1>n, <1>e
<1>3. Lifetimes'
  BY <1>t, <1>n, <1>e DEF Tick, LedgerInv, Lifetimes, Positions
<1>4. Taken'
  BY <1>t, <1>n, <1>v DEF Tick, Taken, Synchronous, Verifying
<1>5. Barred'
  <2> SUFFICES ASSUME NEW x \in Ids, orders[x] # 0
               PROVE  InLedger(x)' \/ Lapsed(x)'
    BY DEF Barred, Tick
  <2>1. InLedger(x) \/ Lapsed(x)
    BY <1>t DEF Barred
  <2>2. CASE InLedger(x)
    BY <2>2 DEF InLedger, Tick
  <2>3. CASE Lapsed(x)
    <3>1. now >= expires[x]
      BY <2>3, <1>n, <1>e DEF Lapsed
    <3>2. now' > expires'[x]
      BY <3>1, <1>n, <1>e DEF Tick
    <3> QED
      BY <3>2 DEF Lapsed
  <2> QED
    BY <2>1, <2>2, <2>3
<1> QED
  BY <1>1, <1>2, <1>3, <1>4, <1>5 DEF LedgerInv

(* A new command expires after everything in the ledger was accepted.      *)
LEMMA QueueInv == \A c \in Ids : IInv /\ Queue(c) => LedgerInv' /\ Taken' /\ Barred'
<1> USE ManualConstants DEF disk, bot
<1> SUFFICES ASSUME NEW c \in Ids, IInv, Queue(c)
             PROVE  LedgerInv' /\ Taken' /\ Barred'
  OBVIOUS
<1>t. TypeOK /\ LedgerInv /\ Taken /\ Barred
  BY DEF IInv
<1>n. /\ now \in Nat /\ now > 0 /\ expires \in [Ids -> Nat]
      /\ expires' = [expires EXCEPT ![c] = now + TTL]
      /\ expires'[c] = now + TTL /\ now + TTL < MaxNow
      /\ \A x \in Ids : x # c => expires'[x] = expires[x]
      /\ expires[c] = 0
  BY <1>t DEF TypeOK, Taken, Queue
<1>a. \A i \in Positions : ledger[i].id \in Ids \ {c}
  <2> SUFFICES ASSUME NEW i \in Positions PROVE ledger[i].id \in Ids \ {c}
    OBVIOUS
  <2>1. ledger[i] \in Entry
    BY <1>t DEF TypeOK, Positions
  <2>2. 0 < ledger[i].at /\ ledger[i].at <= expires[ledger[i].id]
    BY <1>t DEF LedgerInv, NoneAhead, Lifetimes
  <2> QED
    BY <2>1, <2>2, <1>n DEF Entry
<1>u. UNCHANGED << now, polled, ledger, step, taken, orders >>
  BY DEF Queue
<1>1. Spaced' /\ NoneAhead' /\ Len(ledger') <= MaxEntries
  BY <1>t, <1>u DEF LedgerInv, Spaced, NoneAhead, Positions, Verifying
<1>2. Lifetimes'
  <2>1. \A x \in Ids : expires'[x] < MaxNow /\ expires'[x] <= now + TTL
    BY <1>t, <1>n DEF LedgerInv, Lifetimes
  <2>2. \A i \in Positions : /\ ledger[i].at <= expires'[ledger[i].id]
                             /\ expires'[ledger[i].id] <= ledger[i].at + TTL
    BY <1>t, <1>n, <1>a DEF LedgerInv, Lifetimes
  <2> QED
    BY <2>1, <2>2, <1>u DEF Lifetimes, Positions
<1>3. Taken'
  <2>1. file'.form = "signed" => file'.id \in Ids
    BY DEF Queue, Signed
  <2>2. step \in {"verified", "accepted"} => taken.id \in Ids \ {c}
    BY <1>t, <1>n DEF Taken
  <2>3. \A x \in Ids : orders[x] # 0 => expires'[x] # 0
    BY <1>t, <1>n DEF Taken
  <2>4. step = "accepted" => InLedger(taken.id)'
    BY <1>t, <1>u DEF Taken, InLedger
  <2> QED
    BY <2>1, <2>2, <2>3, <2>4, <1>t, <1>n, <1>u DEF Taken
<1>4. Barred'
  <2> SUFFICES ASSUME NEW x \in Ids, orders[x] # 0
               PROVE  InLedger(x)' \/ Lapsed(x)'
    BY <1>u DEF Barred
  <2>1. InLedger(x) \/ Lapsed(x)
    BY <1>t DEF Barred
  <2>2. expires'[x] = expires[x]
    BY <1>t, <1>n DEF Taken
  <2> QED
    BY <2>1, <2>2, <1>u DEF InLedger, Lapsed, Verifying
<1> QED
  BY <1>1, <1>2, <1>3, <1>4 DEF LedgerInv

(* The steps of the loop between the read and the call of the broker.      *)
LEMMA AcceptInv ==
    IInv /\ (Accepts \/ LedgerWriteFails) => LedgerInv' /\ Taken' /\ Barred'
<1> USE ManualConstants DEF disk, bot
<1> SUFFICES ASSUME IInv, Accepts \/ LedgerWriteFails
             PROVE  LedgerInv' /\ Taken' /\ Barred'
  OBVIOUS
<1>t. TypeOK /\ LedgerInv /\ Taken /\ Barred
  BY DEF IInv
<1>s. /\ step = "verified" /\ ~InLedger(taken.id)
      /\ UNCHANGED << now, polled, expires, orders, file >>
      /\ ~(Verifying')
  BY DEF Accepts, LedgerWriteFails, Verifying
<1>c. /\ taken.form = "signed" /\ taken.id \in Ids /\ polled
      /\ now <= expires[taken.id]
  BY <1>t, <1>s DEF Taken, Synchronous
<1>o. orders[taken.id] = 0
  <2>1. ~Lapsed(taken.id)
    BY <1>t, <1>s, <1>c DEF Lapsed, TypeOK, Verifying
  <2> QED
    BY <2>1, <1>t, <1>s, <1>c DEF Barred
<1>1. CASE ledger' = Remember(taken.id)
  <2>1. /\ LedgerInv' /\ Barred'
        /\ \E i \in 1..Len(ledger') : ledger'[i].id = taken.id
    BY <1>1, <1>t, <1>s, LedgerGrows
  <2>2. Taken'
    <3>1. CASE Accepts
      BY <3>1, <2>1, <1>t, <1>s, <1>c, <1>o DEF Accepts, Taken, InLedger, Synchronous
    <3>2. CASE LedgerWriteFails
      BY <3>2, <1>t, <1>s DEF LedgerWriteFails, Taken, Synchronous, NoFile
    <3> QED
      BY <3>1, <3>2
  <2> QED
    BY <2>1, <2>2
<1>2. CASE LedgerWriteFails /\ ledger' = ledger
  <2>1. LedgerInv' /\ Barred'
    BY <1>2, <1>t, <1>s, Steady
  <2>2. Taken'
    BY <1>2, <1>t, <1>s DEF LedgerWriteFails, Taken, Synchronous, NoFile
  <2> QED
    BY <2>1, <2>2
<1> QED
  BY <1>1, <1>2 DEF Accepts, LedgerWriteFails

LEMMA SendInv == IInv /\ Sends => LedgerInv' /\ Taken' /\ Barred'
<1> USE ManualConstants DEF disk, bot
<1> SUFFICES ASSUME IInv, Sends PROVE LedgerInv' /\ Taken' /\ Barred'
  OBVIOUS
<1>t. TypeOK /\ LedgerInv /\ Taken /\ Barred
  BY DEF IInv
<1>c. /\ taken.id \in Ids /\ InLedger(taken.id) /\ now > 0 /\ now \in Nat
      /\ now <= expires[taken.id] /\ expires \in [Ids -> Nat]
  BY <1>t DEF Sends, Taken, TypeOK
<1>o. \A x \in Ids : x # taken.id => orders'[x] = orders[x]
  BY <1>t DEF Sends, TypeOK
<1>v. ~(Verifying') /\ UNCHANGED << now, polled, expires, ledger, file, taken >>
  BY DEF Sends, Verifying
<1>1. LedgerInv'
  BY <1>t, <1>v, LedgerKept
<1>2. Taken'
  <2>1. \A x \in Ids : orders'[x] # 0 => expires[x] # 0
    BY <1>t, <1>c, <1>o DEF Taken
  <2> QED
    BY <2>1, <1>t, <1>v DEF Taken, Sends, Synchronous
<1>3. Barred'
  <2> SUFFICES ASSUME NEW x \in Ids, orders'[x] # 0
               PROVE  InLedger(x)' \/ Lapsed(x)'
    BY DEF Barred
  <2>1. InLedger(x) \/ Lapsed(x)
    BY <1>t, <1>c, <1>o DEF Barred
  <2> QED
    BY <2>1, <1>v DEF InLedger, Lapsed
<1> QED
  BY <1>1, <1>2, <1>3

(* The other steps leave the ledger and the orders alone.                  *)
LEMMA OtherInv ==
    ASSUME IInv,
           \/ \E c \in Ids : PutBack(c)
           \/ PutOther \/ Spoil \/ Reads \/ ReadFails \/ Verifies
           \/ VerifyRefuses \/ LedgerRefuses \/ PolicyRefuses \/ Answered
           \/ Reports \/ Raises \/ Crash \/ Startup \/ UNCHANGED vars
    PROVE  LedgerInv' /\ Taken' /\ Barred'
<1> USE ManualConstants DEF disk, bot
<1>t. TypeOK /\ LedgerInv /\ Taken /\ Barred
  BY DEF IInv
<1>1. /\ UNCHANGED << ledger, now, expires, orders >>
      /\ polled => polled'
      /\ Verifying' => Verifying \/ ~polled
  <2>1. CASE (\E c \in Ids : PutBack(c)) \/ PutOther \/ Spoil \/ UNCHANGED vars
    BY <2>1 DEF PutBack, PutOther, Spoil, vars, Verifying
  <2>2. CASE Reads \/ ReadFails \/ Verifies \/ VerifyRefuses \/ LedgerRefuses
    BY <2>2 DEF Reads, ReadFails, Verifies, VerifyRefuses, LedgerRefuses, Verifying
  <2>3. CASE PolicyRefuses \/ Answered \/ Reports \/ Raises \/ Crash \/ Startup
    BY <2>3 DEF PolicyRefuses, Answered, Reports, Raises, Crash, Startup, Verifying
  <2> QED
    BY <2>1, <2>2, <2>3
<1>2. LedgerInv' /\ Barred'
  BY <1>t, <1>1, Steady
<1>3. Taken'
  <2>1. CASE (\E c \in Ids : PutBack(c)) \/ PutOther
    BY <2>1, <1>t DEF PutBack, PutOther, OtherFile, Signed, Taken, InLedger
  <2>2. CASE Spoil \/ UNCHANGED vars
    BY <2>2, <1>t DEF Spoil, vars, Taken, InLedger
  <2>3. CASE Reads \/ ReadFails
    BY <2>3, <1>t DEF Reads, ReadFails, Taken, Synchronous, NoFile
  <2>4. CASE Verifies
    BY <2>4, <1>t DEF Verifies, Valid, Taken, Synchronous
  <2>5. CASE VerifyRefuses \/ LedgerRefuses \/ PolicyRefuses \/ Answered
    BY <2>5, <1>t DEF VerifyRefuses, LedgerRefuses, PolicyRefuses, Answered, Taken, Synchronous
  <2>6. CASE Reports \/ Raises \/ Crash \/ Startup
    BY <2>6, <1>t DEF Reports, Raises, Crash, Startup, Taken, Synchronous, NoFile
  <2> QED
    BY <2>1, <2>2, <2>3, <2>4, <2>5, <2>6
<1> QED
  BY <1>2, <1>3

LEMMA NextInv == IInv /\ [Next]_vars => IInv'
<1> SUFFICES ASSUME IInv, [Next]_vars PROVE LedgerInv' /\ Taken' /\ Barred'
  BY NextTypes DEF IInv
<1>1. CASE Tick
  BY <1>1, TickInv
<1>2. CASE \E c \in Ids : Queue(c)
  BY <1>2, QueueInv
<1>3. CASE Accepts \/ LedgerWriteFails
  BY <1>3, AcceptInv
<1>4. CASE Sends
  BY <1>4, SendInv
<1> QED
  BY <1>1, <1>2, <1>3, <1>4, OtherInv DEF Next, Loop

-----------------------------------------------------------------------------
(* Theorems *)

(* ManualCommands keeps the inductive invariant.                           *)
THEOREM CommandInvariant == Spec => []IInv
<1>1. Init => IInv
  BY InitInv
<1>2. IInv /\ [Next]_vars => IInv'
  BY NextInv
<1> QED
  BY <1>1, <1>2, PTL DEF Spec

(* The clock, the files and the loop of _poll_manual_trade_commands have   *)
(* their types.                                                            *)
THEOREM CommandTypes == Spec => []TypeOK
<1>1. IInv => TypeOK
  BY DEF IInv
<1> QED
  BY <1>1, CommandInvariant, PTL

(* A command of which an order exists is in the replay ledger or can no    *)
(* longer be verified, whatever was lost with the process.                 *)
THEOREM CommandBarred == Spec => []SentIsBarred
<1>1. IInv => SentIsBarred
  BY DEF IInv, Barred, Taken, SentIsBarred, Lapsed
<1> QED
  BY <1>1, CommandInvariant, PTL

(* The dashboard, the file, the loop and the ledger together keep the      *)
(* promise of CommandOnce: every step is one of its steps or changes       *)
(* nothing it speaks of.                                                   *)
THEOREM CommandRefinement == Spec => CarriedOutOnce
<1> USE ManualConstants DEF disk, bot
<1>1. Init => Once!OnceInit
  BY DEF Init, Once!OnceInit
<1>2. IInv /\ [Next]_vars => [Once!OnceNext]_(Once!onceVars)
  <2> SUFFICES ASSUME IInv, [Next]_vars
               PROVE  Once!OnceNext \/ UNCHANGED << now, expires, orders >>
    BY DEF Once!onceVars
  <2>1. CASE Tick
    BY <2>1 DEF Tick, Once!OnceNext, Once!Passes
  <2>2. ASSUME NEW c \in Ids, Queue(c) PROVE Once!OnceNext
    BY <2>2 DEF Queue, Once!OnceNext, Once!Issue
  <2>3. CASE Sends
    <3>1. taken.id \in Ids /\ now <= expires[taken.id] /\ orders[taken.id] = 0
      BY <2>3 DEF IInv, Taken, Sends
    <3>2. orders' = [orders EXCEPT ![taken.id] = 1]
      BY <3>1, <2>3 DEF Sends
    <3> QED
      BY <3>1, <3>2, <2>3 DEF Sends, Once!OnceNext, Once!Carry
  <2>4. CASE UNCHANGED vars
    BY <2>4 DEF vars
  <2>5. ASSUME NEW c \in Ids, PutBack(c)
        PROVE  UNCHANGED << now, expires, orders >>
    BY <2>5 DEF PutBack
  <2>6. CASE PutOther \/ Spoil \/ Reads \/ ReadFails \/ Verifies \/ VerifyRefuses
             \/ Accepts \/ LedgerRefuses \/ LedgerWriteFails
    BY <2>6 DEF PutOther, Spoil, Reads, ReadFails, Verifies, VerifyRefuses,
                Accepts, LedgerRefuses, LedgerWriteFails
  <2>7. CASE PolicyRefuses \/ Answered \/ Reports \/ Raises \/ Crash \/ Startup
    BY <2>7 DEF PolicyRefuses, Answered, Reports, Raises, Crash, Startup
  <2> QED
    BY <2>1, <2>2, <2>3, <2>4, <2>5, <2>6, <2>7 DEF Next, Loop
<1> QED
  BY <1>1, <1>2, CommandInvariant, PTL DEF Spec, CarriedOutOnce, Once!OnceSpec
=============================================================================
