---------------------------- MODULE SignalProofs ----------------------------
(***************************************************************************)
(* Proofs about the two halves of a signal's way to the bot: SignalJob,    *)
(* which makes it, and CommandFile, which carries it.                      *)
(***************************************************************************)
EXTENDS SignalJob, CommandFile, FiniteSetTheorems, TLAPS

-----------------------------------------------------------------------------
(* The inductive invariant of the job *)

Snapshots == UNION { [D -> Row] : D \in SUBSET Series }

Warnings == {"VALIDATOR_HARD_BLOCKER", "PRICE_CONFLICT",
             "FLIP_BLOCKED_LOW_CONFIDENCE", "FLIP_BLOCKED_MACRO_UNCHANGED"}

SignalRecord ==
    [ action : Directions \cup {"HOLD"}, confidence : 0..100,
      stop : 0..MaxStop, target : Nat,
      review : {"skipped", "pending", "unreviewed", "blocked", "disagreed", "aligned"},
      warnings : SUBSET Warnings ]

(* A HOLD has no distances, a direction has the asset's geometry.          *)
Shaped(g) ==
    /\ g \in SignalRecord
    /\ g.action = "HOLD" => g.stop = 0 /\ g.target = 0
    /\ g.action # "HOLD" => /\ g.stop \in MinStop..MaxStop
                            /\ 2 * g.target \in 3 * g.stop - 1..5 * g.stop

Windows == { s.window : s \in Starts }
DryRuns == { s.dry : s \in Starts }

Assessments ==
    { Freshness(rows, d, active, known) :
        rows \in Snapshots, d \in Nat, active \in BOOLEAN, known \in BOOLEAN }

NewRun == [at : {"started"}, window : Windows, dry : DryRuns]

Fetched ==
    [ at : {"fetched", "answered", "parsed", "archived", "published"},
      window : Windows, dry : DryRuns, made : Nat, rows : Snapshots,
      fresh : Assessments, lean : {-1, 0, 1},
      asked : { a.action : a \in Answers } \cup {"nothing", "graph"},
      signal : SignalRecord ]

(* Types of what the job and its files hold.                               *)
Typed ==
    /\ day \in 0..LastDay
    /\ source \in [Series -> Observation]
    /\ release \in [Treasury -> Observation]
    /\ \A s \in Series : source[s].seen <= day
    /\ lock.day \in 0..day \cup {None}
    /\ lock.side \in Directions \cup {"NEUTRAL"}
    /\ archives \in Seq(Snapshots)
    /\ Rows(lockRows)
    /\ runs \in 0..MaxRuns /\ ledger \in 0..runs
    /\ job.at # "idle" => ledger < runs
    /\ job \in {NoJob} \cup NewRun \cup Fetched

HasRows == job.at \notin {"idle", "started"}

(* What a run with a snapshot knows of it, and what it may make of it.     *)
SnapshotInv ==
    HasRows =>
      /\ Shaped(job.signal)
      /\ job.made <= day
      /\ \E known \in CalendarRead(job.made) :
           job.fresh = Freshness(job.rows, job.made, job.window \in Active, known)
      /\ job.at \in {"fetched", "answered"} \/ job.signal.action # "HOLD"
           => ~Refused(job.fresh)
      /\ job.asked = "HOLD" /\ job.signal.action # "HOLD"
           => ~ReducesRisk(job.fresh)

(* Of two rows of a series from one publisher, the first read is not the   *)
(* newer one, and if they are of a day they are the same.                  *)
Precedes(r, q) == r.seen <= q.seen /\ (r.seen = q.seen => r.change = q.change)

Before(rows, later) ==
    \A s \in DOMAIN rows \cap DOMAIN later :
        rows[s].via = later[s].via /\ rows[s].via # "archive"
        => Precedes(rows[s], later[s])

(* The rows from FRED and those from the H.15 release.                     *)
BeforeFred(rows, published) ==
    \A s \in Via(rows, "fred") \cap Series : Precedes(rows[s], published[s])

BeforeH15(rows, published) ==
    \A s \in Via(rows, "h15") \cap Treasury : Precedes(rows[s], published[s])

(* H.15 rows are of its series only.                                       *)
FromRelease(rows) == Via(rows, "h15") \subseteq Treasury

Outdated(rows) ==
    FromRelease(rows) /\ BeforeFred(rows, source) /\ BeforeH15(rows, release)

(* The lock holds the signs of the rows behind it, and they are older than *)
(* those of the run under way, and those than what is published now.       *)
LockInv ==
    /\ lock.signature = Signature(lockRows, Tracked)
    /\ Outdated(lockRows)
    /\ HasRows => Outdated(job.rows)
    /\ job.at \in {"fetched", "answered"} => Before(lockRows, job.rows)

JobInv == Typed /\ SnapshotInv /\ LockInv

-----------------------------------------------------------------------------
(* Least and greatest elements *)

LEMMA LeastOfNaturals ==
    ASSUME NEW S, S \subseteq Nat, S # {}
    PROVE  Min(S) \in S /\ \A y \in S : Min(S) <= y
  <1> DEFINE R == { ss \in Nat \X Nat : ss[1] < ss[2] }
  <1>1. IsWellFoundedOn(R, Nat)
    BY NatLessThanWellFounded DEF OpToRel
  <1>2. \A x, y \in Nat : x < y => <<x, y>> \in R
    OBVIOUS
  <1> HIDE DEF R
  <1>3. PICK x \in S : \A y \in S : ~ (<<y, x>> \in R)
    BY <1>1, WFMin
  <1>4. \A y \in S : x \in Nat /\ y \in Nat /\ ~(y < x)
    BY <1>2, <1>3
  <1>5. \E z \in S : \A y \in S : z =< y
    BY <1>4
  <1> QED
    BY <1>5, Zenon DEF Min

LEMMA GreatestOfBounded ==
    ASSUME NEW b \in Nat, NEW S, S \subseteq 0..b, S # {}
    PROVE  Max(S) \in S /\ \A y \in S : Max(S) >= y
  <1> DEFINE T == { b - x : x \in S }
             low == Min(T)
  <1>1. T \subseteq Nat /\ T # {}
    <2>1. \A x \in S : x \in Int /\ 0 <= x /\ x <= b
      OBVIOUS
    <2>2. \A x \in S : b - x \in Nat
      BY <2>1
    <2> QED
      BY <2>2
  <1> HIDE DEF T
  <1>2. low \in T /\ \A t \in T : low <= t
    BY <1>1, LeastOfNaturals
  <1> HIDE DEF low
  <1>3. PICK x \in S : low = b - x
    BY <1>2 DEF T
  <1>4. \A y \in S : b - y \in T
    BY DEF T
  <1>5. \A y \in S : x >= y
    BY <1>2, <1>3, <1>4
  <1>6. \E z \in S : \A y \in S : z >= y
    BY <1>5
  <1> QED
    BY <1>6, Zenon DEF Max

LEMMA MaxOfTwo ==
    ASSUME NEW a \in Int, NEW b \in Int
    PROVE  Max({a, b}) = IF a >= b THEN a ELSE b
  <1>1. \E x \in {a, b} : \A y \in {a, b} : x >= y
    OBVIOUS
  <1>2. Max({a, b}) \in {a, b} /\ \A y \in {a, b} : Max({a, b}) >= y
    BY <1>1, Zenon DEF Max
  <1> QED
    BY <1>2

LEMMA MinOfTwo ==
    ASSUME NEW a \in Int, NEW b \in Int
    PROVE  Min({a, b}) = IF a <= b THEN a ELSE b
  <1>1. \E x \in {a, b} : \A y \in {a, b} : x =< y
    OBVIOUS
  <1>2. Min({a, b}) \in {a, b} /\ \A y \in {a, b} : Min({a, b}) =< y
    BY <1>1, Zenon DEF Min
  <1> QED
    BY <1>2

(* A clamped number is within the bounds.                                  *)
LEMMA Clamped ==
    ASSUME NEW x \in Int, NEW lo \in Int, NEW hi \in Int, lo <= hi
    PROVE  Clamp(x, lo, hi) \in lo..hi
  <1>1. Min({hi, x}) \in Int /\ Min({hi, x}) <= hi
    BY MinOfTwo
  <1>2. Clamp(x, lo, hi) = IF lo >= Min({hi, x}) THEN lo ELSE Min({hi, x})
    BY <1>1, MaxOfTwo DEF Clamp
  <1> QED
    BY <1>1, <1>2

-----------------------------------------------------------------------------
(* From the model's answer to the signal *)

(* The steps of the sigmoid raise a confidence of 57 to no more than 68.   *)
LEMMA MarginStepsCount ==
    IsFiniteSet(MarginSteps) /\ Cardinality(MarginSteps) \in 0..11
  <1> DEFINE At(k) == <<171, 211, 251, 290, 330, 373, 421, 475, 543, 640, 833>>[k]
             f == [ k \in 1..11 |-> At(k) ]
  <1>1. \A k \in 1..11 : At(k) \in MarginSteps
    BY DEF MarginSteps
  <1>2. \A m \in MarginSteps : \E k \in 1..11 : m = At(k)
    <2>1. /\ 171 = At(1) /\ 211 = At(2) /\ 251 = At(3) /\ 290 = At(4)
          /\ 330 = At(5) /\ 373 = At(6) /\ 421 = At(7) /\ 475 = At(8)
          /\ 543 = At(9) /\ 640 = At(10) /\ 833 = At(11)
      OBVIOUS
    <2> HIDE DEF At
    <2> QED
      BY <2>1 DEF MarginSteps
  <1> HIDE DEF At
  <1>3. f \in Surjection(1..11, MarginSteps)
    <2>1. f \in [1..11 -> MarginSteps]
      BY <1>1
    <2>2. \A m \in MarginSteps : \E k \in 1..11 : f[k] = m
      BY <1>2
    <2> HIDE DEF f
    <2> QED
      BY <2>1, <2>2 DEF Surjection
  <1> HIDE DEF f
  <1>4. IsFiniteSet(1..11) /\ Cardinality(1..11) = 11
    <2> DEFINE n == 11
    <2>1. n \in Int /\ n >= 1
      OBVIOUS
    <2> HIDE DEF n
    <2>2. IsFiniteSet(1..n) /\ Cardinality(1..n) = n
      BY <2>1, FS_Interval
    <2> QED
      BY <2>2 DEF n
  <1>5. IsFiniteSet(MarginSteps) /\ Cardinality(MarginSteps) <= 11
    BY <1>3, <1>4, FS_Surjection
  <1>6. Cardinality(MarginSteps) \in Nat
    BY <1>5, FS_CardinalityType
  <1> QED
    BY <1>5, <1>6

(* What a fallback is: HOLD or a direction, with a confidence.             *)
Fallbacks == [action : Directions \cup {"HOLD"}, confidence : 0..100]

LEMMA SignType == \A x : Sign(x) \in {-1, 0, 1}
  BY DEF Sign

LEMMA FallbackType ==
    ASSUME NEW w \in Texts
    PROVE  Fallback(w) \in Fallbacks
  <1> DEFINE total == w.bull + w.bear
             score == w.bull - w.bear
             size == IF score < 0 THEN -score ELSE score
             passed == { m \in MarginSteps : 1000 * size >= m * total }
  <1>1. score \in Int /\ total \in Int
    BY JobConfig
  <1>2. Cardinality(passed) \in 0..11
    <2>1. passed \in SUBSET MarginSteps
      OBVIOUS
    <2> HIDE DEF passed
    <2>2. IsFiniteSet(passed) /\ Cardinality(passed) <= Cardinality(MarginSteps)
      BY <2>1, MarginStepsCount, FS_Subset
    <2>3. Cardinality(passed) \in Nat
      BY <2>2, FS_CardinalityType
    <2> QED
      BY <2>2, <2>3, MarginStepsCount
  <1> DEFINE weak == score = 0 \/ total < 4 \/ 100 * size < 15 * total
  <1>3. Fallback(w) = IF weak THEN [action |-> "HOLD", confidence |-> 0]
                      ELSE [ action |-> Side(Sign(score)),
                             confidence |-> 57 + Cardinality(passed) ]
    BY Zenon DEF Fallback
  <1> HIDE DEF passed
  <1>4. ~weak => Side(Sign(score)) \in Directions
    BY <1>1 DEF Side, Sign, Directions
  <1>5. 57 + Cardinality(passed) \in 0..100
    BY <1>2
  <1> HIDE DEF weak, score
  <1>6. CASE weak
    BY <1>3, <1>6 DEF Fallbacks
  <1>7. CASE ~weak
    BY <1>3, <1>4, <1>5, <1>7 DEF Fallbacks
  <1> QED
    BY <1>6, <1>7

LEMMA UsableFallbackType ==
    ASSUME NEW w \in Texts, NEW fresh
    PROVE  /\ UsableFallback(w, fresh) \in Fallbacks
           /\ UsableFallback(w, fresh).action # "HOLD" => ~ReducesRisk(fresh)
  <1>1. CASE ReducesRisk(fresh)
    BY <1>1 DEF UsableFallback, Fallbacks
  <1>2. CASE ~ReducesRisk(fresh)
    BY <1>2, FallbackType DEF UsableFallback
  <1> QED
    BY <1>1, <1>2

LEMMA Percentage ==
    ASSUME NEW x \in Int
    PROVE  Clamp(x, 0, 100) \in 0..100
  <1> DEFINE lo == 0
             hi == 100
  <1>1. lo \in Int /\ hi \in Int /\ lo <= hi
    OBVIOUS
  <1> HIDE DEF lo, hi
  <1>2. Clamp(x, lo, hi) \in lo..hi
    BY <1>1, Clamped
  <1> QED
    BY <1>2 DEF lo, hi

LEMMA GeometryType ==
    ASSUME NEW a, Numeric(a)
    PROVE  /\ Geometry(a).stop \in MinStop..MaxStop
           /\ Geometry(a).target \in Nat
           /\ 2 * Geometry(a).target
                \in 3 * Geometry(a).stop - 1..5 * Geometry(a).stop
  <1> DEFINE stop == Clamp(a.stop, MinStop, MaxStop)
             target == Clamp(a.target, (3 * stop) \div 2, (5 * stop) \div 2)
  <1>1. stop \in MinStop..MaxStop
    <2>1. MinStop \in Int /\ MaxStop \in Int /\ MinStop <= MaxStop
      BY DEF MinStop, MaxStop
    <2> QED
      BY <2>1, Clamped DEF Numeric
  <1>2. Geometry(a).stop = stop /\ Geometry(a).target = target
    BY DEF Geometry
  <1> HIDE DEF stop
  <1>3. stop \in Nat
    BY <1>1 DEF MinStop, MaxStop
  <1>4. /\ (3 * stop) \div 2 \in Int /\ (5 * stop) \div 2 \in Int
        /\ (3 * stop) \div 2 <= (5 * stop) \div 2
        /\ 2 * ((3 * stop) \div 2) >= 3 * stop - 1
        /\ 2 * ((5 * stop) \div 2) <= 5 * stop
        /\ (3 * stop) \div 2 >= 0
    BY <1>3
  <1>5. target \in (3 * stop) \div 2..(5 * stop) \div 2
    BY <1>4, Clamped DEF Numeric
  <1> HIDE DEF target
  <1> QED
    BY <1>1, <1>2, <1>3, <1>4, <1>5

(* A parsed signal has its shape; a direction is the model's or else the   *)
(* fallback's.                                                             *)
LEMMA NormalizedShape ==
    ASSUME NEW a, Numeric(a), NEW fb \in Fallbacks, NEW rescue \in BOOLEAN
    PROVE  /\ Shaped(Normalized(a, fb, rescue))
           /\ a.action = "HOLD" /\ Normalized(a, fb, rescue).action # "HOLD"
                => fb.action # "HOLD"
  <1> DEFINE given == IF a.action \in Directions \cup {"HOLD"}
                      THEN a.action ELSE fb.action
             conf == Clamp(a.confidence, 0, 100)
             rescued == rescue /\ given = "HOLD" /\ ~a.blocker
             action == IF rescued THEN fb.action ELSE given
             raised == IF rescued THEN Max({conf, fb.confidence}) ELSE conf
             held == [HoldSignal("pending") EXCEPT !.confidence = raised]
             taken == [ action |-> action,
                        confidence |-> IF raised = 0 THEN fb.confidence ELSE raised,
                        stop |-> Geometry(a).stop, target |-> Geometry(a).target,
                        review |-> "pending", warnings |-> {} ]
  <1>1. Normalized(a, fb, rescue) = IF action = "HOLD" THEN held ELSE taken
    BY Zenon DEF Normalized
  <1>2. fb.action \in Directions \cup {"HOLD"} /\ fb.confidence \in 0..100
    BY DEF Fallbacks
  <1>3. action \in Directions \cup {"HOLD"}
    BY <1>2
  <1>4. a.action = "HOLD" /\ action # "HOLD" => fb.action # "HOLD"
    <2>1. a.action = "HOLD" => given = "HOLD"
      OBVIOUS
    <2> HIDE DEF given
    <2>2. rescued \/ action = given
      BY Zenon
    <2>3. rescued => action = fb.action
      BY Zenon
    <2> HIDE DEF action, rescued
    <2> QED
      BY <2>1, <2>2, <2>3
  <1>5. conf \in 0..100
    BY Percentage DEF Numeric
  <1> HIDE DEF conf, action
  <1>6. raised \in 0..100
    <2>1. Max({conf, fb.confidence}) \in 0..100
      <3>1. /\ conf \in Int /\ conf >= 0 /\ conf <= 100
            /\ fb.confidence \in Int /\ fb.confidence >= 0 /\ fb.confidence <= 100
        BY <1>2, <1>5
      <3>2. Max({conf, fb.confidence}) \in {conf, fb.confidence}
        BY <3>1, MaxOfTwo
      <3> QED
        BY <3>1, <3>2
    <2> HIDE DEF rescued
    <2> QED
      BY <1>5, <2>1
  <1> HIDE DEF raised
  <1>7. (IF raised = 0 THEN fb.confidence ELSE raised) \in 0..100
    BY <1>2, <1>6
  <1>8. CASE action = "HOLD"
    <2>1. held = [ action |-> "HOLD", confidence |-> raised, stop |-> 0, target |-> 0,
                   review |-> "pending", warnings |-> {} ]
      BY DEF HoldSignal
    <2> HIDE DEF held
    <2>2. held \in SignalRecord
      BY <1>6, <2>1 DEF SignalRecord, MaxStop
    <2> QED
      BY <1>1, <1>8, <2>1, <2>2 DEF Shaped
  <1>9. CASE action # "HOLD"
    <2>1. /\ taken.action = action /\ taken.stop = Geometry(a).stop
          /\ taken.target = Geometry(a).target
      OBVIOUS
    <2>2. Geometry(a).stop \in 0..MaxStop
      BY GeometryType DEF MinStop, MaxStop
    <2>3. taken \in SignalRecord
      BY <1>3, <1>7, <2>2, GeometryType DEF SignalRecord
    <2> HIDE DEF taken
    <2> QED
      BY <1>1, <1>4, <1>9, <2>1, <2>3, GeometryType DEF Shaped
  <1> QED
    BY <1>8, <1>9

(* The graph answers with numbers as the parser model does.                *)
LEMMA CandidateNumeric ==
    ASSUME NEW g \in Graphs
    PROVE  Numeric(CandidateAnswer(g))
  <1> DEFINE known == g.final.action \in Directions
             conf == Clamp(g.final.confidence, 0, 100)
             adjusted == IF g.risk.decision = "REDUCE_CONFIDENCE"
                         THEN Clamp(conf + Clamp(g.risk.adjustment, -40, 10), 0, 100)
                         ELSE conf
             barred == \/ g.risk.hard \/ g.risk.decision = "BLOCK"
                       \/ (g.risk.decision = "REDUCE_CONFIDENCE" /\ adjusted = 0)
             none == [ action |-> "HOLD", confidence |-> 0, stop |-> 0, target |-> 0,
                       blocker |-> FALSE ]
             some == [ action |-> g.final.action, confidence |-> adjusted,
                       stop |-> Geometry(g.final).stop,
                       target |-> Geometry(g.final).target, blocker |-> FALSE ]
  <1>1. CandidateAnswer(g) = IF ~known \/ barred THEN none ELSE some
    BY Zenon DEF CandidateAnswer
  <1>2. Numeric(g.final) /\ g.risk.adjustment \in Int
    BY JobConfig
  <1>3. conf \in 0..100
    BY <1>2, Percentage DEF Numeric
  <1>4. Clamp(g.risk.adjustment, -40, 10) \in Int
    <2> DEFINE lo == -40
               hi == 10
    <2>1. lo \in Int /\ hi \in Int /\ lo <= hi
      OBVIOUS
    <2> HIDE DEF lo, hi
    <2>2. Clamp(g.risk.adjustment, lo, hi) \in lo..hi
      BY <1>2, <2>1, Clamped
    <2> QED
      BY <2>1, <2>2 DEF lo, hi
  <1>5. adjusted \in Int
    <2>1. conf + Clamp(g.risk.adjustment, -40, 10) \in Int
      BY <1>3, <1>4
    <2>2. Clamp(conf + Clamp(g.risk.adjustment, -40, 10), 0, 100) \in 0..100
      BY <2>1, Percentage
    <2> QED
      BY <1>3, <2>2
  <1> HIDE DEF adjusted
  <1>6. /\ Geometry(g.final).stop \in Int
        /\ Geometry(g.final).target \in Int
    BY <1>2, GeometryType DEF MinStop, MaxStop
  <1>7. Numeric(none)
    BY DEF Numeric
  <1>8. Numeric(some)
    BY <1>5, <1>6 DEF Numeric
  <1> HIDE DEF none, some
  <1> QED
    BY <1>1, <1>7, <1>8

(* What comes after the parser may change the confidence, the review and   *)
(* the warnings only.                                                      *)
LEMMA OnlyWarned ==
    ASSUME NEW g, Shaped(g), NEW w \in Warnings
    PROVE  /\ Shaped([g EXCEPT !.warnings = @ \cup {w}])
           /\ [g EXCEPT !.warnings = @ \cup {w}].action = g.action
  <1> DEFINE h == [g EXCEPT !.warnings = @ \cup {w}]
  <1>1. g \in SignalRecord
    BY DEF Shaped
  <1>2. h \in SignalRecord
    BY <1>1 DEF SignalRecord
  <1>3. /\ h.action = g.action /\ h.stop = g.stop /\ h.target = g.target
    BY <1>1 DEF SignalRecord
  <1> HIDE DEF h
  <1>4. Shaped(h) /\ h.action = g.action
    BY <1>2, <1>3 DEF Shaped
  <1> QED
    BY <1>4 DEF h

LEMMA OnlyReviewed ==
    ASSUME NEW g, Shaped(g), NEW conf \in 0..100,
           NEW review \in {"unreviewed", "blocked", "disagreed", "aligned"}
    PROVE  LET h == [g EXCEPT !.confidence = conf, !.review = review]
           IN  Shaped(h) /\ h.action = g.action /\ h.warnings = g.warnings
  <1> DEFINE h == [g EXCEPT !.confidence = conf, !.review = review]
  <1>1. g \in SignalRecord
    BY DEF Shaped
  <1>2. h \in SignalRecord
    BY <1>1 DEF SignalRecord
  <1>3. /\ h.action = g.action /\ h.stop = g.stop /\ h.target = g.target
        /\ h.warnings = g.warnings
    BY <1>1 DEF SignalRecord
  <1> HIDE DEF h
  <1>4. Shaped(h)
    BY <1>2, <1>3 DEF Shaped
  <1> QED
    BY <1>3, <1>4 DEF h

LEMMA ReviewedShape ==
    ASSUME NEW g, Shaped(g), NEW r \in Reviews
    PROVE  Shaped(Reviewed(g, r)) /\ Reviewed(g, r).action = g.action
  <1> DEFINE clear == [g EXCEPT !.review = "unreviewed"]
             marked == [g EXCEPT !.review = "blocked"]
             barred == [g EXCEPT !.review = "blocked",
                                 !.warnings = @ \cup {"VALIDATOR_HARD_BLOCKER"}]
             word == IF r.decision = "DISAGREE" THEN "disagreed" ELSE "aligned"
             conf == Clamp(g.confidence + r.adjustment, 0, 100)
             weighed == [g EXCEPT !.confidence = conf, !.review = word]
  <1>1. Reviewed(g, r) = IF r.decision = "NONE" THEN clear
                         ELSE IF r.hard \/ r.decision = "BLOCK" THEN barred
                         ELSE weighed
    BY Zenon DEF Reviewed
  <1>2. g \in SignalRecord /\ g.confidence \in 0..100
    BY DEF Shaped, SignalRecord
  <1>3. conf \in 0..100
    <2>1. g.confidence + r.adjustment \in Int
      BY <1>2, JobConfig
    <2> QED
      BY <2>1, Percentage
  <1> HIDE DEF conf
  <1>4. Shaped(weighed) /\ weighed.action = g.action
    <2>1. word \in {"disagreed", "aligned"}
      OBVIOUS
    <2> HIDE DEF word
    <2> QED
      BY <1>3, <2>1, OnlyReviewed
  <1>5. Shaped(clear) /\ clear.action = g.action
    <2>1. clear = [g EXCEPT !.confidence = g.confidence, !.review = "unreviewed"]
      BY <1>2 DEF SignalRecord
    <2>2. LET h == [g EXCEPT !.confidence = g.confidence, !.review = "unreviewed"]
          IN  Shaped(h) /\ h.action = g.action
      <3> HIDE DEF clear, marked, barred, weighed, word
      <3> QED
        BY <1>2, OnlyReviewed
    <2> HIDE DEF clear
    <2> QED
      BY <2>1, <2>2
  <1>6. Shaped(barred) /\ barred.action = g.action
    <2>1. marked = [g EXCEPT !.confidence = g.confidence, !.review = "blocked"]
      BY <1>2 DEF SignalRecord
    <2>2. Shaped(marked) /\ marked.action = g.action
      <3>1. LET h == [g EXCEPT !.confidence = g.confidence, !.review = "blocked"]
            IN  Shaped(h) /\ h.action = g.action
        <4> HIDE DEF clear, marked, barred, weighed, word
        <4> QED
          BY <1>2, OnlyReviewed
      <3> HIDE DEF marked
      <3> QED
        BY <2>1, <3>1
    <2>3. barred = [marked EXCEPT !.warnings = @ \cup {"VALIDATOR_HARD_BLOCKER"}]
      BY <1>2 DEF SignalRecord
    <2> HIDE DEF marked, barred
    <2> QED
      BY <2>2, <2>3, OnlyWarned DEF Warnings
  <1> HIDE DEF clear, barred, weighed
  <1> QED
    BY <1>1, <1>4, <1>5, <1>6

LEMMA GuardedShape ==
    ASSUME NEW g, Shaped(g), NEW bias
    PROVE  Shaped(Guarded(g, bias)) /\ Guarded(g, bias).action = g.action
  <1>1. \/ Guarded(g, bias) = g
        \/ Guarded(g, bias) = [g EXCEPT !.warnings = @ \cup {"PRICE_CONFLICT"}]
    BY Zenon DEF Guarded
  <1> QED
    BY <1>1, OnlyWarned DEF Warnings

LEMMA PersistedShape ==
    ASSUME NEW g, Shaped(g), NEW policy
    PROVE  Shaped(Persisted(g, policy)) /\ Persisted(g, policy).action = g.action
  <1>1. \/ Persisted(g, policy) = g
        \/ /\ policy \in Warnings
           /\ Persisted(g, policy) = [g EXCEPT !.warnings = @ \cup {policy}]
    BY DEF Persisted, Warnings
  <1> QED
    BY <1>1, OnlyWarned

-----------------------------------------------------------------------------
(* The rows of the snapshot *)

LEMMA RowsOfSnapshot ==
    ASSUME NEW rows \in Snapshots
    PROVE  /\ DOMAIN rows \subseteq Series
           /\ \A s \in DOMAIN rows : rows[s] \in Row
           /\ Rows(rows)
  <1>1. PICK D \in SUBSET Series : rows \in [D -> Row]
    BY DEF Snapshots
  <1> QED
    BY <1>1 DEF Rows

(* A row from an archive is one of a snapshot, marked as archived.         *)
LEMMA CachedRow ==
    ASSUME NEW old \in Seq(Snapshots), NEW s, NEW r \in Cached(old, s)
    PROVE  r \in Row /\ r.via = "archive"
  <1> DEFINE holding == { k \in DOMAIN old : k <= ArchivesRead /\ s \in DOMAIN old[k] }
             k == Min(holding)
  <1>1. holding # {} /\ r = [old[k][s] EXCEPT !.via = "archive"]
    BY DEF Cached
  <1>2. holding \subseteq Nat
    OBVIOUS
  <1>3. k \in holding
    BY <1>1, <1>2, LeastOfNaturals
  <1> HIDE DEF k
  <1>4. k \in DOMAIN old /\ s \in DOMAIN old[k]
    BY <1>3
  <1>5. old[k] \in Snapshots
    BY <1>4
  <1>6. old[k][s] \in Row
    BY <1>4, <1>5, RowsOfSnapshot
  <1> QED
    BY <1>1, <1>6 DEF Row

(* A row is its publisher's or comes from an archive.                      *)
LEMMA RowOfType ==
    ASSUME NEW published \in [Series -> Observation],
           NEW carried \in [Treasury -> Observation], NEW s \in Series,
           NEW down, NEW h15, NEW old \in Seq(Snapshots),
           NEW r \in RowOf(s, published, carried, down, h15, old)
    PROVE  /\ r \in Row
           /\ \/ r.via = "archive"
              \/ /\ r.via = "fred"
                 /\ r.seen = published[s].seen /\ r.change = published[s].change
              \/ /\ r.via = "h15" /\ s \in Treasury
                 /\ r.seen = carried[s].seen /\ r.change = carried[s].change
  <1>1. published[s] \in Observation
    OBVIOUS
  <1>2. CASE r = published[s]
    BY <1>1, <1>2 DEF Observation, Row
  <1>3. CASE s \in Treasury /\ r = H15Row(carried, s)
    <2>1. carried[s] \in Observation
      BY <1>3
    <2> QED
      BY <1>3, <2>1 DEF Observation, Row, H15Row
  <1>4. CASE r \in Cached(old, s)
    BY <1>4, CachedRow
  <1> QED
    BY <1>2, <1>3, <1>4 DEF RowOf

LEMMA SnapshotType ==
    ASSUME NEW published \in [Series -> Observation],
           NEW carried \in [Treasury -> Observation], NEW down, NEW h15,
           NEW old \in Seq(Snapshots)
    PROVE  LET rows == SnapshotRows(published, carried, down, h15, old)
           IN  /\ rows \in Snapshots
               /\ \A s \in Via(rows, "fred") :
                     /\ rows[s].seen = published[s].seen
                     /\ rows[s].change = published[s].change
               /\ \A s \in Via(rows, "h15") :
                     /\ s \in Treasury
                     /\ rows[s].seen = carried[s].seen
                     /\ rows[s].change = carried[s].change
  <1> DEFINE found == [ s \in Series |-> RowOf(s, published, carried, down, h15, old) ]
             dom == { t \in Series : found[t] # {} }
             one(s) == CHOOSE r \in found[s] : TRUE
             rows == [ s \in dom |-> one(s) ]
  <1>1. SnapshotRows(published, carried, down, h15, old) = rows
    BY Zenon DEF SnapshotRows
  <1>2. \A s \in dom : one(s) \in RowOf(s, published, carried, down, h15, old)
    OBVIOUS
  <1>3. dom \in SUBSET Series
    OBVIOUS
  <1> HIDE DEF one, dom
  <1>4. \A s \in dom :
          /\ one(s) \in Row
          /\ \/ one(s).via = "archive"
             \/ /\ one(s).via = "fred"
                /\ one(s).seen = published[s].seen
                /\ one(s).change = published[s].change
             \/ /\ one(s).via = "h15" /\ s \in Treasury
                /\ one(s).seen = carried[s].seen
                /\ one(s).change = carried[s].change
    BY <1>2, <1>3, RowOfType
  <1>5. rows \in [dom -> Row]
    BY <1>4
  <1>6. rows \in Snapshots
    BY <1>3, <1>5 DEF Snapshots
  <1>7. \A way : \A s \in Via(rows, way) :
           s \in dom /\ rows[s] = one(s) /\ one(s).via = way
    BY DEF Via
  <1> HIDE DEF rows
  <1>8. \A s \in Via(rows, "fred") :
           rows[s].seen = published[s].seen /\ rows[s].change = published[s].change
    BY <1>4, <1>7
  <1>9. \A s \in Via(rows, "h15") :
           /\ s \in Treasury
           /\ rows[s].seen = carried[s].seen /\ rows[s].change = carried[s].change
    BY <1>4, <1>7
  <1> QED
    BY <1>1, <1>6, <1>8, <1>9

-----------------------------------------------------------------------------
(* What fresh means *)

LEMMA SeriesFinite ==
    /\ IsFiniteSet(Series)
    /\ \A S : S \subseteq Series =>
          IsFiniteSet(S) /\ Cardinality(S) \in Nat /\ (Cardinality(S) = 0 => S = {})
  <1>1. IsFiniteSet(Series)
    BY SignalConfig DEF Series
  <1>2. ASSUME NEW S, S \subseteq Series
        PROVE  IsFiniteSet(S) /\ Cardinality(S) \in Nat /\ (Cardinality(S) = 0 => S = {})
    <2>1. IsFiniteSet(S)
      BY <1>1, <1>2, FS_Subset
    <2> QED
      BY <2>1, FS_CardinalityType, FS_EmptySet
  <1> QED
    BY <1>1, <1>2

(* In a live window at most one series is missing and two daily ones are a *)
(* week old.                                                               *)
LEMMA ActiveFreshness ==
    ASSUME NEW rows \in Snapshots, NEW d \in Nat, NEW known \in BOOLEAN,
           ~Freshness(rows, d, TRUE, known).blocker
    PROVE  /\ Cardinality(Series \ DOMAIN rows) <= 1
           /\ Cardinality({ s \in DOMAIN rows \cap Daily : d - rows[s].seen >= 7 }) <= 2
  <1>1. ~Assessed(rows, d, TRUE).blocker
    BY Zenon DEF Freshness
  <1>2. ~ ( \/ Cardinality(Aged(rows, d)) >= BlockStale
            \/ Cardinality(Series \ DOMAIN rows) >= BlockMissing )
    BY <1>1 DEF Assessed
  <1>3. /\ Cardinality(Series \ DOMAIN rows) \in Nat
        /\ Cardinality(Aged(rows, d)) \in Nat
    <2>1. Aged(rows, d) \subseteq Series
      BY RowsOfSnapshot DEF Aged
    <2> QED
      BY <2>1, SeriesFinite
  <1>4. Aged(rows, d) = { s \in DOMAIN rows \cap Daily : d - rows[s].seen >= 7 }
    BY DEF Aged, BlockAge
  <1> QED
    BY <1>2, <1>3, <1>4 DEF BlockStale, BlockMissing

(* On the day of a decision only an unread calendar lets a run pass.       *)
LEMMA MeetingBlocks ==
    ASSUME NEW rows, NEW d \in Nat, NEW active, NEW known \in BOOLEAN,
           ~Freshness(rows, d, active, known).blocker, d \in Meetings
    PROVE  Freshness(rows, d, active, known).meeting = "unknown"
  <1>1. /\ Freshness(rows, d, active, known).meeting = MeetingState(d, known)
        /\ MeetingState(d, known) # "today"
    BY Zenon DEF Freshness
  <1>2. NextMeeting(d) = d
    <2> DEFINE ahead == { m \in Meetings : m >= d }
    <2>1. ahead \subseteq Nat /\ d \in ahead
      <3>1. Meetings \subseteq Nat
        BY SignalConfig
      <3>2. d >= d
        OBVIOUS
      <3> QED
        BY <3>1, <3>2
    <2>2. Min(ahead) \in ahead /\ Min(ahead) <= d
      BY <2>1, LeastOfNaturals
    <2>3. Min(ahead) = d
      BY <2>1, <2>2
    <2> QED
      BY <2>1, <2>3 DEF NextMeeting
  <1>3. known => MeetingState(d, known) = "today"
    BY <1>2 DEF MeetingState, None
  <1>4. ~known => MeetingState(d, known) = "unknown"
    BY DEF MeetingState
  <1> QED
    BY <1>1, <1>3, <1>4

(* Inputs that do not reduce the risk are all there, fresh from FRED.      *)
LEMMA UndegradedRows ==
    ASSUME NEW rows \in Snapshots, NEW d, NEW active, NEW known,
           ~ReducesRisk(Freshness(rows, d, active, known))
    PROVE  DOMAIN rows = Series /\ \A s \in Series : rows[s].via = "fred"
  <1> DEFINE f == Freshness(rows, d, active, known)
  <1>1. /\ f.missing = Cardinality(Series \ DOMAIN rows)
        /\ f.cached = Cardinality(Via(rows, "archive"))
        /\ f.h15 = Cardinality(Via(rows, "h15"))
    BY Zenon DEF Freshness, Assessed
  <1>2. ~(f.missing > 0) /\ ~(f.cached > 0) /\ ~(f.h15 > 0)
    BY Zenon DEF ReducesRisk
  <1> HIDE DEF f
  <1>3. Via(rows, "archive") \subseteq Series /\ Via(rows, "h15") \subseteq Series
    BY RowsOfSnapshot DEF Via
  <1>4. /\ Series \ DOMAIN rows = {}
        /\ Via(rows, "archive") = {} /\ Via(rows, "h15") = {}
    <2>1. /\ Cardinality(Series \ DOMAIN rows) \in Nat
          /\ Cardinality(Via(rows, "archive")) \in Nat
          /\ Cardinality(Via(rows, "h15")) \in Nat
      BY <1>3, SeriesFinite
    <2>2. /\ Cardinality(Series \ DOMAIN rows) = 0
          /\ Cardinality(Via(rows, "archive")) = 0
          /\ Cardinality(Via(rows, "h15")) = 0
      BY <1>1, <1>2, <2>1
    <2> QED
      BY <1>3, <2>2, SeriesFinite
  <1>5. DOMAIN rows = Series
    BY <1>4, RowsOfSnapshot
  <1>6. \A s \in Series : rows[s].via \in {"fred", "h15", "archive"}
    BY <1>5, RowsOfSnapshot DEF Row
  <1> QED
    BY <1>4, <1>5, <1>6 DEF Via

(* Days of the rest of a week that are weekdays.                           *)
LEMMA RestOfWeek ==
    ASSUME NEW seen \in Nat, NEW rest \in Nat
    PROVE  LET walked == { k \in 1..rest : (seen + k) % 7 < 5 }
           IN  /\ IsFiniteSet(walked)
               /\ Cardinality(walked) \in 0..rest
  <1> DEFINE walked == { k \in 1..rest : (seen + k) % 7 < 5 }
  <1>1. IsFiniteSet(1..rest) /\ Cardinality(1..rest) = rest
    BY FS_Interval
  <1>2. walked \in SUBSET (1..rest)
    OBVIOUS
  <1> HIDE DEF walked
  <1>3. IsFiniteSet(walked) /\ Cardinality(walked) <= rest
    BY <1>1, <1>2, FS_Subset
  <1>4. Cardinality(walked) \in Nat
    BY <1>3, FS_CardinalityType
  <1> QED
    BY <1>3, <1>4 DEF walked

LEMMA BusinessDaysType ==
    ASSUME NEW seen \in Nat, NEW d \in Nat
    PROVE  BusinessDays(seen, d) \in 0..5 * d + 6
  <1>1. CASE d <= seen
    BY <1>1 DEF BusinessDays
  <1>2. CASE ~(d <= seen)
    <2> DEFINE weeks == (d - seen) \div 7
               rest == (d - seen) % 7
               walked == { k \in 1..rest : (seen + k) % 7 < 5 }
    <2>1. BusinessDays(seen, d) = weeks * 5 + Cardinality(walked)
      BY <1>2, Zenon DEF BusinessDays
    <2>2. weeks \in 0..d /\ rest \in 0..6
      BY <1>2
    <2> HIDE DEF weeks, rest
    <2>3. Cardinality(walked) \in 0..rest
      BY <2>2, RestOfWeek
    <2> HIDE DEF walked
    <2> QED
      BY <2>1, <2>2, <2>3
  <1> QED
    BY <1>1, <1>2

(* The shortcut over full weeks counts no day too few: where it finds at   *)
(* most two business days, there are at most two weekdays.                 *)
LEMMA TwoWeekdays ==
    ASSUME NEW seen \in Nat, NEW d \in Nat, BusinessDays(seen, d) <= 2
    PROVE  WeekdaysBetween(seen, d) <= 2
  <1> DEFINE days == { e \in seen + 1..d : e % 7 < 5 }
  <1>1. WeekdaysBetween(seen, d) = Cardinality(days)
    BY DEF WeekdaysBetween
  <1>2. CASE d <= seen
    <2>1. days = {}
      BY <1>2
    <2> QED
      BY <1>1, <2>1, FS_EmptySet
  <1>3. CASE ~(d <= seen)
    <2> DEFINE weeks == (d - seen) \div 7
               rest == (d - seen) % 7
               walked == { k \in 1..rest : (seen + k) % 7 < 5 }
    <2>1. weeks * 5 + Cardinality(walked) <= 2
      BY <1>3, Zenon DEF BusinessDays
    <2>2. weeks \in Nat /\ rest \in 0..6 /\ d = seen + 7 * weeks + rest
      <3> DEFINE n == d - seen
      <3>1. n \in Nat /\ d = seen + n
        BY <1>3
      <3>2. weeks = n \div 7 /\ rest = n % 7
        OBVIOUS
      <3> HIDE DEF n, weeks, rest
      <3>3. n \div 7 \in Nat /\ n % 7 \in 0..6 /\ n = 7 * (n \div 7) + (n % 7)
        BY <3>1
      <3> QED
        BY <3>1, <3>2, <3>3
    <2> HIDE DEF weeks, rest
    <2>3. IsFiniteSet(walked) /\ Cardinality(walked) \in 0..rest
      <3>1. rest \in Nat
        BY <2>2
      <3> QED
        BY <3>1, RestOfWeek
    <2>4. Cardinality(walked) <= 2 /\ weeks = 0
      <3> HIDE DEF walked
      <3> QED
        BY <2>1, <2>2, <2>3
    <2>5. d = seen + rest
      BY <2>2, <2>4
    <2> DEFINE after == [ k \in walked |-> seen + k ]
    <2>6. after \in [walked -> days]
      BY <2>2, <2>5
    <2>7. ASSUME NEW e \in days
          PROVE  \E k \in walked : after[k] = e
      <3>1. e \in Nat /\ seen + 1 <= e /\ e <= d /\ e % 7 < 5
        OBVIOUS
      <3>2. e - seen \in 1..rest /\ seen + (e - seen) = e
        BY <2>2, <2>5, <3>1
      <3>3. e - seen \in walked /\ after[e - seen] = e
        BY <3>1, <3>2
      <3> QED
        BY <3>3
    <2> HIDE DEF walked, after, days
    <2>8. after \in Surjection(walked, days)
      BY <2>6, <2>7 DEF Surjection
    <2>9. IsFiniteSet(days) /\ Cardinality(days) <= Cardinality(walked)
      BY <2>3, <2>8, FS_Surjection
    <2>10. Cardinality(days) \in Nat
      BY <2>9, FS_CardinalityType
    <2> QED
      BY <1>1, <2>2, <2>3, <2>4, <2>9, <2>10
  <1> QED
    BY <1>2, <1>3

LEMMA AgeAssessed ==
    ASSUME NEW rows, NEW d, NEW active, NEW known
    PROVE  Freshness(rows, d, active, known).age = DailyAge(rows, d)
  <1>1. Assessed(rows, d, active).age = DailyAge(rows, d)
    BY Zenon DEF Assessed
  <1>2. Freshness(rows, d, active, known).age = Assessed(rows, d, active).age
    BY Zenon DEF Freshness
  <1> QED
    BY <1>1, <1>2

(* Unless the age of the daily rows refuses a run, every row that was      *)
(* fetched is at most two weekdays old.                                    *)
LEMMA FetchedRowsFresh ==
    ASSUME NEW rows \in Snapshots, NEW d \in Nat, ~HardStale(DailyAge(rows, d)),
           NEW s \in DOMAIN rows \cap Daily, rows[s].via # "archive"
    PROVE  WeekdaysBetween(rows[s].seen, d) <= 2
  <1> DEFINE direct == (DOMAIN rows \cap Daily) \ Via(rows, "archive")
             ages == { BusinessDays(rows[t].seen, d) : t \in direct }
             bound == 5 * d + 6
  <1>1. s \in direct
    BY DEF Via
  <1>2. DailyAge(rows, d) = Max(ages)
    BY <1>1, Zenon DEF DailyAge
  <1>3. \A t \in DOMAIN rows : rows[t].seen \in Nat
    BY RowsOfSnapshot DEF Row
  <1>4. ages \subseteq 0..bound /\ BusinessDays(rows[s].seen, d) \in ages
    BY <1>1, <1>3, BusinessDaysType
  <1>5. bound \in Nat
    OBVIOUS
  <1> HIDE DEF ages, bound
  <1>6. Max(ages) \in ages /\ Max(ages) >= BusinessDays(rows[s].seen, d)
    <2>1. ages # {}
      BY <1>4
    <2>2. Max(ages) \in ages /\ \A y \in ages : Max(ages) >= y
      BY <1>4, <1>5, <2>1, GreatestOfBounded
    <2> QED
      BY <1>4, <2>2
  <1>7. Max(ages) \in Nat /\ BusinessDays(rows[s].seen, d) \in Nat
    <2>1. 0..bound \subseteq Nat
      BY <1>5
    <2> QED
      BY <1>4, <1>6, <2>1
  <1>8. Max(ages) <= 2
    BY <1>2, <1>7 DEF HardStale, None, BusinessAge
  <1>9. BusinessDays(rows[s].seen, d) <= 2
    BY <1>6, <1>7, <1>8
  <1> QED
    BY <1>3, <1>9, TwoWeekdays

-----------------------------------------------------------------------------
(* The invariant holds at the start *)

LEMMA NoRows == Rows(<< >>)
  <1>1. DOMAIN << >> = {}
    OBVIOUS
  <1> QED
    BY <1>1 DEF Rows

LEMMA JobInitInv == JobInit => JobInv
  <1> SUFFICES ASSUME JobInit PROVE JobInv
    OBVIOUS
  <1>1. day \in FirstDays /\ day \in 0..LastDay
    BY JobConfig DEF JobInit
  <1>2. source \in Sources /\ source \in [Series -> Observation]
    BY JobConfig DEF JobInit
  <1>3. /\ \A s \in Series : source[s].seen <= day
        /\ release \in [Treasury -> Observation]
    BY <1>1, <1>2, JobConfig DEF JobInit
  <1>4. lock.day = None /\ lock.side = "NEUTRAL" /\ lock.signature = [s \in Tracked |-> 0]
    BY DEF JobInit, NoLock
  <1>5. job.at = "idle" /\ job = NoJob
    BY DEF JobInit, NoJob
  <1>6. ledger = 0 /\ runs = 0 /\ MaxRuns \in Nat /\ lockRows = << >> /\ archives = << >>
    BY JobConfig DEF JobInit
  <1>7. Typed
    <2>1. archives \in Seq(Snapshots) /\ Rows(lockRows)
      BY <1>6, NoRows
    <2>2. runs \in 0..MaxRuns /\ ledger \in 0..runs
      BY <1>6
    <2> QED
      BY <1>1, <1>2, <1>3, <1>4, <1>5, <2>1, <2>2 DEF Typed
  <1>8. SnapshotInv
    BY <1>5 DEF SnapshotInv, HasRows
  <1>9. LockInv
    <2>1. DOMAIN lockRows = {}
      BY <1>6
    <2>2. lock.signature = Signature(lockRows, Tracked)
      BY <1>4, <2>1 DEF Signature
    <2>3. Outdated(lockRows)
      BY <2>1 DEF Outdated, FromRelease, BeforeFred, BeforeH15, Via
    <2> QED
      BY <1>5, <2>2, <2>3 DEF LockInv, HasRows
  <1> QED
    BY <1>7, <1>8, <1>9 DEF JobInv

-----------------------------------------------------------------------------
(* Every step keeps it *)

LEMMA JobKinds ==
    ASSUME Typed
    PROVE  /\ job.at = "idle" => job = NoJob
           /\ job.at = "started" => job \in NewRun
           /\ HasRows => job \in Fetched
  <1>1. CASE job = NoJob
    BY <1>1 DEF NoJob, HasRows
  <1>2. CASE job \in NewRun
    BY <1>2 DEF NewRun, HasRows
  <1>3. CASE job \in Fetched
    BY <1>3 DEF Fetched, HasRows
  <1> QED
    BY <1>1, <1>2, <1>3 DEF Typed

LEMMA DayType == ASSUME Typed PROVE day \in Nat
  BY JobConfig DEF Typed

(* A run that ends leaves what it has written.                             *)
LEMMA Ends ==
    ASSUME JobInv, job.at # "idle", job' = NoJob, ledger' \in {ledger, ledger + 1},
           UNCHANGED << outside, lock, archives, lockRows >>
    PROVE  JobInv'
  <1>1. job'.at = "idle"
    BY DEF NoJob
  <1>2. Typed'
    <2>1. ledger' \in 0..runs
      <3>1. runs \in Nat /\ ledger \in 0..runs /\ ledger < runs
        BY JobConfig DEF JobInv, Typed
      <3> QED
        BY <3>1
    <2> QED
      BY <1>1, <2>1 DEF JobInv, Typed, outside, world
  <1>3. SnapshotInv'
    BY <1>1 DEF SnapshotInv, HasRows
  <1>4. LockInv'
    BY <1>1 DEF JobInv, LockInv, HasRows, Outdated, outside, world
  <1> QED
    BY <1>2, <1>3, <1>4 DEF JobInv

LEMMA NewDayKeeps == ASSUME JobInv, NewDay PROVE JobInv'
  <1> USE DEF NewDay, world
  <1>1. day \in Nat /\ day' = day + 1 /\ LastDay \in Nat
    BY DayType, JobConfig DEF JobInv
  <1>2. Typed'
    <2>1. \A s \in Series : source[s].seen \in Nat /\ source[s].seen <= day
      BY DEF JobInv, Typed, Observation
    <2>2. \A s \in Series : source'[s].seen <= day'
      BY <1>1, <2>1
    <2>3. day' \in 0..LastDay
      BY <1>1
    <2>4. lock'.day \in 0..day' \cup {None}
      BY <1>1 DEF JobInv, Typed
    <2> QED
      BY <2>2, <2>3, <2>4 DEF JobInv, Typed
  <1>3. SnapshotInv'
    <2> SUFFICES ASSUME HasRows PROVE SnapshotInv'
      BY DEF SnapshotInv, HasRows
    <2>1. job.made \in Nat /\ job.made <= day
      BY JobKinds DEF JobInv, SnapshotInv, Fetched
    <2>2. job'.made <= day'
      BY <1>1, <2>1
    <2> QED
      BY <2>2 DEF JobInv, SnapshotInv, HasRows
  <1>4. LockInv'
    BY DEF JobInv, LockInv, HasRows, Outdated, world
  <1> QED
    BY <1>2, <1>3, <1>4 DEF JobInv

(* What is published now is newer than what was read.                      *)
LEMMA Overtakes ==
    ASSUME NEW q, NEW r, NEW d \in Nat, r.seen \in Nat, q.seen < d, q.seen \in Nat,
           NEW change, Precedes(r, q)
    PROVE  Precedes(r, [seen |-> d, change |-> change, via |-> "fred"])
  BY DEF Precedes

LEMMA PublishesKeeps == ASSUME JobInv, NEW s \in News, Publishes(s) PROVE JobInv'
  <1>1. PICK change \in Changes :
          source' = [source EXCEPT ![s] = [seen |-> day, change |-> change, via |-> "fred"]]
    BY DEF Publishes
  <1>2. day \in Nat /\ s \in Series
    BY DayType, JobConfig DEF JobInv
  <1>3. Typed'
    <2>1. [seen |-> day, change |-> change, via |-> "fred"] \in Observation
      BY <1>2 DEF Observation
    <2>2. source' \in [Series -> Observation]
      BY <1>1, <2>1 DEF JobInv, Typed
    <2>3. \A t \in Series : source'[t].seen <= day
      BY <1>1, <1>2 DEF JobInv, Typed
    <2> QED
      BY <2>2, <2>3 DEF JobInv, Typed, Publishes
  <1>4. SnapshotInv'
    BY DEF JobInv, SnapshotInv, HasRows, Publishes
  <1>5. ASSUME NEW rows, Rows(rows), BeforeFred(rows, source)
        PROVE  BeforeFred(rows, source')
    <2> SUFFICES ASSUME NEW t \in Via(rows, "fred") \cap Series
                 PROVE  Precedes(rows[t], source'[t])
      BY DEF BeforeFred
    <2>1. Precedes(rows[t], source[t])
      BY <1>5 DEF BeforeFred
    <2>2. CASE t = s
      <3>1. source'[t] = [seen |-> day, change |-> change, via |-> "fred"]
        BY <1>1, <1>2, <2>2 DEF JobInv, Typed
      <3>2. rows[t].seen \in Nat
        BY <1>5 DEF Rows, Row, Via
      <3>3. source[t].seen \in Nat /\ source[t].seen < day
        BY <1>2, <2>2 DEF JobInv, Typed, Observation, Publishes
      <3> QED
        BY <1>2, <2>1, <3>1, <3>2, <3>3, Overtakes
    <2>3. CASE t # s
      BY <1>1, <2>1, <2>3 DEF JobInv, Typed
    <2> QED
      BY <2>2, <2>3
  <1>6. UNCHANGED << release, lock, lockRows, job >>
    BY DEF Publishes
  <1>7. Outdated(lockRows)'
    BY <1>5, <1>6 DEF Outdated, JobInv, Typed, LockInv
  <1>8. HasRows' => Outdated(job.rows)'
    <2> SUFFICES ASSUME HasRows PROVE Outdated(job.rows)'
      BY <1>6 DEF HasRows
    <2>1. Rows(job.rows)
      BY JobKinds, RowsOfSnapshot DEF JobInv, Fetched
    <2> QED
      BY <1>5, <1>6, <2>1 DEF Outdated, JobInv, LockInv
  <1>9. LockInv'
    BY <1>6, <1>7, <1>8 DEF JobInv, LockInv
  <1> QED
    BY <1>3, <1>4, <1>9 DEF JobInv

LEMMA AppearsKeeps ==
    ASSUME JobInv, NEW s \in News \cap Treasury, Appears(s) PROVE JobInv'
  <1>1. PICK change \in Changes :
          release' = [release EXCEPT ![s] = [seen |-> day, change |-> change, via |-> "fred"]]
    BY DEF Appears
  <1>2. day \in Nat
    BY DayType DEF JobInv
  <1>3. Typed'
    <2>1. [seen |-> day, change |-> change, via |-> "fred"] \in Observation
      BY <1>2 DEF Observation
    <2>2. release' \in [Treasury -> Observation]
      BY <1>1, <2>1 DEF JobInv, Typed
    <2> QED
      BY <2>2 DEF JobInv, Typed, Appears
  <1>4. SnapshotInv'
    BY DEF JobInv, SnapshotInv, HasRows, Appears
  <1>5. ASSUME NEW rows, Rows(rows), BeforeH15(rows, release)
        PROVE  BeforeH15(rows, release')
    <2> SUFFICES ASSUME NEW t \in Via(rows, "h15") \cap Treasury
                 PROVE  Precedes(rows[t], release'[t])
      BY DEF BeforeH15
    <2>1. Precedes(rows[t], release[t])
      BY <1>5 DEF BeforeH15
    <2>2. CASE t = s
      <3>1. release'[t] = [seen |-> day, change |-> change, via |-> "fred"]
        BY <1>1, <2>2 DEF JobInv, Typed
      <3>2. rows[t].seen \in Nat
        BY <1>5 DEF Rows, Row, Via
      <3>3. release[t].seen \in Nat /\ release[t].seen < day
        BY <2>2 DEF JobInv, Typed, Observation, Appears
      <3> QED
        BY <1>2, <2>1, <3>1, <3>2, <3>3, Overtakes
    <2>3. CASE t # s
      BY <1>1, <2>1, <2>3 DEF JobInv, Typed
    <2> QED
      BY <2>2, <2>3
  <1>6. UNCHANGED << source, lock, lockRows, job >>
    BY DEF Appears
  <1>7. Outdated(lockRows)'
    BY <1>5, <1>6 DEF Outdated, JobInv, Typed, LockInv
  <1>8. HasRows' => Outdated(job.rows)'
    <2> SUFFICES ASSUME HasRows PROVE Outdated(job.rows)'
      BY <1>6 DEF HasRows
    <2>1. Rows(job.rows)
      BY JobKinds, RowsOfSnapshot DEF JobInv, Fetched
    <2> QED
      BY <1>5, <1>6, <2>1 DEF Outdated, JobInv, LockInv
  <1>9. LockInv'
    BY <1>6, <1>7, <1>8 DEF JobInv, LockInv
  <1> QED
    BY <1>3, <1>4, <1>9 DEF JobInv

LEMMA StartKeeps == ASSUME JobInv, Start PROVE JobInv'
  <1> USE DEF Start, world
  <1>1. job' \in NewRun /\ job'.at = "started"
    BY DEF NewRun, Windows, DryRuns
  <1>2. Typed'
    <2>1. MaxRuns \in Nat /\ runs \in 0..MaxRuns /\ ledger \in 0..runs
      BY JobConfig DEF JobInv, Typed
    <2>2. runs' \in 0..MaxRuns /\ ledger' \in 0..runs' /\ ledger' < runs'
      BY <2>1
    <2> QED
      BY <1>1, <2>2 DEF JobInv, Typed
  <1>3. SnapshotInv'
    BY <1>1 DEF SnapshotInv, HasRows
  <1>4. LockInv'
    BY <1>1 DEF JobInv, LockInv, HasRows, Outdated, world
  <1> QED
    BY <1>2, <1>3, <1>4 DEF JobInv

LEMMA AssessmentType ==
    ASSUME NEW rows \in Snapshots, NEW d \in Nat, NEW active \in BOOLEAN,
           NEW known \in BOOLEAN
    PROVE  Freshness(rows, d, active, known) \in Assessments
  BY DEF Assessments

LEMMA FetchKeeps == ASSUME JobInv, Fetch PROVE JobInv'
  <1>1. PICK down \in Outages, h15 \in BOOLEAN, known \in CalendarRead(day) :
          LET rows == SnapshotRows(source, release, down, h15, archives)
              fresh == Freshness(rows, day, job.window \in Active, known)
          IN  job' = [ at |-> IF Refused(fresh) THEN "parsed" ELSE "fetched",
                       window |-> job.window, dry |-> job.dry, made |-> day,
                       rows |-> rows, fresh |-> fresh,
                       lean |-> OverallBias(rows, 0, 0),
                       asked |-> "nothing", signal |-> HoldSignal("skipped") ]
    BY Zenon DEF Fetch
  <1> DEFINE rows == SnapshotRows(source, release, down, h15, archives)
             fresh == Freshness(rows, day, job.window \in Active, known)
             lean == OverallBias(rows, 0, 0)
             stage == IF Refused(fresh) THEN "parsed" ELSE "fetched"
             hold == HoldSignal("skipped")
             next == [ at |-> stage, window |-> job.window, dry |-> job.dry,
                       made |-> day, rows |-> rows, fresh |-> fresh, lean |-> lean,
                       asked |-> "nothing", signal |-> hold ]
  <1>2. job' = next
    BY <1>1
  <1>3. /\ day \in Nat /\ source \in [Series -> Observation]
        /\ release \in [Treasury -> Observation] /\ archives \in Seq(Snapshots)
    BY DayType DEF JobInv, Typed
  <1>4. /\ rows \in Snapshots
        /\ \A s \in Via(rows, "fred") :
              rows[s].seen = source[s].seen /\ rows[s].change = source[s].change
        /\ \A s \in Via(rows, "h15") :
              /\ s \in Treasury
              /\ rows[s].seen = release[s].seen /\ rows[s].change = release[s].change
    BY <1>3, SnapshotType
  <1>5. known \in BOOLEAN
    BY DEF CalendarRead
  <1> HIDE DEF rows
  <1>6. fresh \in Assessments
    <2> DEFINE active == job.window \in Active
    <2>1. active \in BOOLEAN
      OBVIOUS
    <2> HIDE DEF active
    <2>2. Freshness(rows, day, active, known) \in Assessments
      BY <1>3, <1>4, <1>5, <2>1, AssessmentType
    <2> QED
      BY <2>2 DEF active
  <1>7. lean \in {-1, 0, 1}
    BY SignType DEF OverallBias
  <1>8. Shaped(hold) /\ hold.action = "HOLD"
    BY DEF Shaped, SignalRecord, HoldSignal, MaxStop
  <1>9. job.window \in Windows /\ job.dry \in DryRuns /\ job.at = "started"
    BY JobKinds DEF JobInv, NewRun, Fetch
  <1> HIDE DEF fresh, lean, hold
  <1>10. stage \in {"parsed", "fetched"} /\ (stage = "fetched" => ~Refused(fresh))
    OBVIOUS
  <1> HIDE DEF stage
  <1>11. next \in Fetched
    BY <1>3, <1>4, <1>6, <1>7, <1>8, <1>9, <1>10 DEF Fetched, Shaped
  <1>12. /\ next.at = stage /\ next.made = day /\ next.rows = rows /\ next.fresh = fresh
         /\ next.signal = hold /\ next.window = job.window
    OBVIOUS
  <1> HIDE DEF next
  <1>13. UNCHANGED << outside, lock, archives, ledger, lockRows >>
    BY DEF Fetch
  <1>14. Typed'
    BY <1>2, <1>9, <1>11, <1>13 DEF JobInv, Typed, outside, world
  <1>15. SnapshotInv'
    <2>1. day' = day /\ day <= day
      BY <1>3, <1>13 DEF outside
    <2>2. \E k \in CalendarRead(day) :
             fresh = Freshness(rows, day, job.window \in Active, k)
      BY DEF fresh
    <2>3. \E k \in CalendarRead(job'.made) :
             job'.fresh = Freshness(job'.rows, job'.made, job'.window \in Active, k)
      BY <1>2, <1>12, <2>2
    <2>4. Shaped(job'.signal) /\ job'.signal.action = "HOLD"
      BY <1>2, <1>8, <1>12
    <2>5. job'.at \in {"fetched", "answered"} => ~Refused(job'.fresh)
      BY <1>2, <1>10, <1>12
    <2>6. job'.made <= day'
      BY <1>2, <1>12, <2>1
    <2> QED
      BY <2>3, <2>4, <2>5, <2>6 DEF SnapshotInv, HasRows
  <1>16. LockInv'
    <2>1. DOMAIN rows \subseteq Series /\ \A s \in DOMAIN rows : rows[s] \in Row
      BY <1>4, RowsOfSnapshot
    <2>2. /\ \A s \in Series : source[s].seen \in Nat
          /\ \A s \in Treasury : release[s].seen \in Nat
      BY <1>3 DEF Observation
    <2>3. Outdated(rows)
      BY <1>4, <2>1, <2>2 DEF Outdated, FromRelease, BeforeFred, BeforeH15, Precedes
    <2>4. Before(lockRows, rows)
      <3> SUFFICES ASSUME NEW s \in DOMAIN lockRows \cap DOMAIN rows,
                          lockRows[s].via = rows[s].via, rows[s].via # "archive"
                   PROVE  Precedes(lockRows[s], rows[s])
        BY DEF Before
      <3>1. Outdated(lockRows) /\ s \in Series
        BY <2>1 DEF JobInv, LockInv
      <3>2. CASE rows[s].via = "fred"
        <4>1. s \in Via(rows, "fred") /\ s \in Via(lockRows, "fred")
          BY <3>2 DEF Via
        <4>2. Precedes(lockRows[s], source[s])
          BY <3>1, <4>1 DEF Outdated, BeforeFred
        <4> QED
          BY <1>4, <4>1, <4>2 DEF Precedes
      <3>3. CASE rows[s].via = "h15"
        <4>1. s \in Via(rows, "h15") /\ s \in Via(lockRows, "h15")
          BY <3>3 DEF Via
        <4>2. Precedes(lockRows[s], release[s])
          BY <1>4, <3>1, <4>1 DEF Outdated, BeforeH15
        <4> QED
          BY <1>4, <4>1, <4>2 DEF Precedes
      <3> QED
        BY <2>1, <3>2, <3>3 DEF Row
    <2>5. UNCHANGED << source, release, lock, lockRows >> /\ job'.rows = rows
      BY <1>2, <1>12, <1>13 DEF outside, world
    <2> QED
      BY <2>3, <2>4, <2>5 DEF JobInv, LockInv, Outdated
  <1> QED
    BY <1>14, <1>15, <1>16 DEF JobInv

Asked == { a.action : a \in Answers } \cup {"nothing", "graph"}

(* A run that gets on keeps its snapshot and what it knows of it.          *)
LEMMA Advances ==
    ASSUME JobInv, HasRows, NEW stage \in {"answered", "parsed", "archived", "published"},
           NEW asked \in Asked, NEW g, Shaped(g),
           job' = [job EXCEPT !.at = stage, !.asked = asked, !.signal = g],
           stage = "answered" \/ g.action # "HOLD" => ~Refused(job.fresh),
           asked = "HOLD" /\ g.action # "HOLD" => ~ReducesRisk(job.fresh),
           UNCHANGED << outside, ledger >>
    PROVE  /\ job' \in Fetched /\ job'.rows = job.rows /\ job'.at = stage
           /\ job'.at # "idle" => ledger' < runs'
           /\ HasRows' /\ SnapshotInv'
  <1> DEFINE r1 == [job EXCEPT !.at = stage]
             r2 == [r1 EXCEPT !.asked = asked]
             r3 == [r2 EXCEPT !.signal = g]
  <1>1. job \in Fetched /\ g \in SignalRecord
    BY JobKinds DEF JobInv, Shaped
  <1>2. job' = r3
    BY <1>1 DEF Fetched
  <1>3. r1 \in Fetched /\ r1 = [job EXCEPT !.at = stage] /\ r1.at = stage
    BY <1>1 DEF Fetched
  <1>4. /\ r1.made = job.made /\ r1.rows = job.rows /\ r1.fresh = job.fresh
        /\ r1.window = job.window
    BY <1>1 DEF Fetched
  <1> HIDE DEF r1
  <1>5. r2 \in Fetched /\ r2.asked = asked
    BY <1>3 DEF Fetched, Asked
  <1>6. /\ r2.made = job.made /\ r2.rows = job.rows /\ r2.fresh = job.fresh
        /\ r2.window = job.window /\ r2.at = stage
    BY <1>3, <1>4 DEF Fetched
  <1> HIDE DEF r2
  <1>7. r3 \in Fetched /\ r3.signal = g
    BY <1>1, <1>5 DEF Fetched
  <1>8. /\ r3.made = job.made /\ r3.rows = job.rows /\ r3.fresh = job.fresh
        /\ r3.window = job.window /\ r3.at = stage /\ r3.asked = asked
    BY <1>5, <1>6 DEF Fetched
  <1> HIDE DEF r3
  <1>9. HasRows'
    BY <1>2, <1>8 DEF HasRows
  <1>10. UNCHANGED << day, runs, ledger >> /\ ledger < runs
    BY DEF outside, HasRows, JobInv, Typed
  <1>11. SnapshotInv'
    <2>1. /\ job.made <= day
          /\ \E known \in CalendarRead(job.made) :
                job.fresh = Freshness(job.rows, job.made, job.window \in Active, known)
      BY DEF JobInv, SnapshotInv
    <2>2. /\ job'.made = job.made /\ job'.rows = job.rows /\ job'.fresh = job.fresh
          /\ job'.window = job.window /\ job'.at = stage /\ job'.asked = asked
          /\ job'.signal = g
      BY <1>2, <1>7, <1>8
    <2>3. \E known \in CalendarRead(job'.made) :
             job'.fresh = Freshness(job'.rows, job'.made, job'.window \in Active, known)
      BY <2>1, <2>2
    <2>4. job'.made <= day'
      BY <1>10, <2>1, <2>2
    <2>5. job'.at \in {"fetched", "answered"} \/ job'.signal.action # "HOLD"
            => ~Refused(job'.fresh)
      BY <2>2
    <2>6. job'.asked = "HOLD" /\ job'.signal.action # "HOLD" => ~ReducesRisk(job'.fresh)
      BY <2>2
    <2>7. Shaped(job'.signal)
      BY <2>2
    <2> QED
      BY <2>3, <2>4, <2>5, <2>6, <2>7 DEF SnapshotInv
  <1> QED
    BY <1>2, <1>7, <1>8, <1>9, <1>10, <1>11

(* The same with nothing written.                                          *)
LEMMA AdvancesAlone ==
    ASSUME JobInv, HasRows, HasRows', SnapshotInv', job' \in Fetched, job'.rows = job.rows,
           job'.at # "idle" => ledger' < runs',
           job'.at = "answered" => job.at = "fetched", job'.at # "fetched",
           archives' \in Seq(Snapshots),
           UNCHANGED << outside, lock, ledger, lockRows >>
    PROVE  JobInv'
  <1>1. Typed'
    BY DEF JobInv, Typed, outside, world
  <1>2. LockInv'
    <2>1. UNCHANGED << source, release, lock, lockRows >>
      BY DEF outside, world
    <2> QED
      BY <2>1 DEF JobInv, LockInv, Outdated
  <1> QED
    BY <1>1, <1>2 DEF JobInv

LEMMA AskParserKeeps == ASSUME JobInv, AskParser PROVE JobInv'
  <1>1. PICK w \in Texts, a \in Answers :
          job' = [job EXCEPT !.at = "answered", !.asked = a.action,
                    !.signal = Normalized(a, UsableFallback(w, job.fresh), TRUE)]
    BY Zenon DEF AskParser
  <1> DEFINE fb == UsableFallback(w, job.fresh)
             g == Normalized(a, fb, TRUE)
  <1>2. fb \in Fallbacks /\ (fb.action # "HOLD" => ~ReducesRisk(job.fresh))
    BY UsableFallbackType
  <1>3. Numeric(a)
    BY JobConfig
  <1> HIDE DEF fb
  <1>4. Shaped(g) /\ (a.action = "HOLD" /\ g.action # "HOLD" => fb.action # "HOLD")
    BY <1>2, <1>3, NormalizedShape
  <1>5. job.at = "fetched" /\ HasRows /\ ~Refused(job.fresh)
    BY DEF AskParser, HasRows, JobInv, SnapshotInv
  <1>6. job' = [job EXCEPT !.at = "answered", !.asked = a.action, !.signal = g]
    BY <1>1 DEF fb
  <1>7. a.action \in Asked
    BY DEF Asked
  <1>8. UNCHANGED << outside, lock, archives, ledger, lockRows >>
    BY DEF AskParser
  <1> HIDE DEF g
  <1>9. /\ job' \in Fetched /\ job'.rows = job.rows /\ job'.at = "answered"
        /\ job'.at # "idle" => ledger' < runs'
        /\ HasRows' /\ SnapshotInv'
    BY <1>2, <1>4, <1>5, <1>6, <1>7, <1>8, Advances
  <1>10. archives' \in Seq(Snapshots)
    BY <1>8 DEF JobInv, Typed
  <1> QED
    BY <1>5, <1>8, <1>9, <1>10, AdvancesAlone

LEMMA AskGraphKeeps == ASSUME JobInv, AskGraph PROVE JobInv'
  <1>1. PICK w \in Texts, c \in Graphs :
          job' = [job EXCEPT !.at = "answered", !.asked = "graph",
                    !.signal = Normalized(CandidateAnswer(c),
                                          UsableFallback(w, job.fresh), FALSE)]
    BY Zenon DEF AskGraph
  <1> DEFINE g == Normalized(CandidateAnswer(c), UsableFallback(w, job.fresh), FALSE)
  <1>2. Shaped(g)
    BY UsableFallbackType, CandidateNumeric, NormalizedShape
  <1>3. job.at = "fetched" /\ HasRows /\ ~Refused(job.fresh)
    BY DEF AskGraph, HasRows, JobInv, SnapshotInv
  <1>4. UNCHANGED << outside, lock, archives, ledger, lockRows >>
    BY DEF AskGraph
  <1>5. "graph" \in Asked
    BY DEF Asked
  <1>6. job' = [job EXCEPT !.at = "answered", !.asked = "graph", !.signal = g]
    BY <1>1
  <1> HIDE DEF g
  <1>7. /\ job' \in Fetched /\ job'.rows = job.rows /\ job'.at = "answered"
        /\ job'.at # "idle" => ledger' < runs'
        /\ HasRows' /\ SnapshotInv'
    BY <1>2, <1>3, <1>4, <1>5, <1>6, Advances
  <1>8. archives' \in Seq(Snapshots)
    BY <1>4 DEF JobInv, Typed
  <1> QED
    BY <1>3, <1>4, <1>7, <1>8, AdvancesAlone

(* A run that changes its stage and its signal only.                       *)
LEMMA SameQuestion ==
    ASSUME Typed, HasRows, NEW stage, NEW g
    PROVE  /\ job.asked \in Asked /\ job.signal \in SignalRecord
           /\ [job EXCEPT !.at = stage, !.signal = g]
                = [job EXCEPT !.at = stage, !.asked = job.asked, !.signal = g]
           /\ [job EXCEPT !.at = stage]
                = [job EXCEPT !.at = stage, !.asked = job.asked, !.signal = job.signal]
  BY JobKinds DEF Fetched, Asked

LEMMA NoAnswerKeeps == ASSUME JobInv, NoAnswer PROVE JobInv'
  <1> DEFINE g == HoldSignal("pending")
  <1>1. job.at = "fetched" /\ HasRows
    BY DEF NoAnswer, HasRows
  <1>2. UNCHANGED << outside, lock, archives, ledger, lockRows >>
    BY DEF NoAnswer
  <1>3. Shaped(g) /\ g.action = "HOLD"
    BY DEF Shaped, SignalRecord, HoldSignal, MaxStop
  <1>4. /\ job.asked \in Asked
        /\ job' = [job EXCEPT !.at = "parsed", !.asked = job.asked, !.signal = g]
    BY <1>1, SameQuestion DEF NoAnswer, JobInv
  <1> HIDE DEF g
  <1>5. /\ job' \in Fetched /\ job'.rows = job.rows /\ job'.at = "parsed"
        /\ job'.at # "idle" => ledger' < runs'
        /\ HasRows' /\ SnapshotInv'
    BY <1>1, <1>2, <1>3, <1>4, Advances
  <1>6. archives' \in Seq(Snapshots)
    BY <1>2 DEF JobInv, Typed
  <1> QED
    BY <1>1, <1>2, <1>5, <1>6, AdvancesAlone

(* A lock is set for a direction only, and turned within its day only when *)
(* a driver of it has turned.                                              *)
LEMMA LocksDirections ==
    ASSUME NEW l, NEW g, NEW signature, NEW d,
           Locks(LockPolicy(l, g, signature, d))
    PROVE  /\ g.action # "HOLD"
           /\ l.day = d => MacroFlipped(l.signature, signature)
  BY DEF Locks, LockPolicy

(* What a review makes of a run: its signal keeps its action, and a lock   *)
(* that is set is one for it and for the rows of the run.                  *)
LEMMA ReviewResult ==
    ASSUME JobInv, Review
    PROVE  /\ job.at = "answered"
           /\ \E g : /\ Shaped(g) /\ g.action = job.signal.action
                     /\ job' = [job EXCEPT !.at = "parsed", !.signal = g]
           /\ \/ UNCHANGED << lock, lockRows >>
              \/ /\ lockRows' = job.rows
                 /\ lock'.day = day /\ lock'.signature = Signature(job.rows, Tracked)
                 /\ lock'.side \in Directions
                 /\ lock.day = day =>
                      MacroFlipped(lock.signature, Signature(job.rows, Tracked))
           /\ UNCHANGED << outside, archives, ledger >>
  <1>1. PICK r \in Reviews, view \in Views :
          LET signal == Guarded(Reviewed(job.signal, r), Side(PriceBias(view)))
              signature == Signature(job.rows, Tracked)
              policy == LockPolicy(lock, signal, signature, day)
              next == [day |-> day, side |-> signal.action, signature |-> signature]
          IN  IF job.dry
              THEN /\ job' = [job EXCEPT !.at = "parsed", !.signal = signal]
                   /\ UNCHANGED << lock, lockRows >>
              ELSE /\ job' = [job EXCEPT !.at = "parsed",
                                         !.signal = Persisted(signal, policy)]
                   /\ \/ Locks(policy) /\ lock' = next /\ lockRows' = job.rows
                      \/ UNCHANGED << lock, lockRows >>
    BY Zenon DEF Review
  <1> DEFINE reviewed == Reviewed(job.signal, r)
             signal == Guarded(reviewed, Side(PriceBias(view)))
             signature == Signature(job.rows, Tracked)
             policy == LockPolicy(lock, signal, signature, day)
             kept == Persisted(signal, policy)
             next == [day |-> day, side |-> signal.action, signature |-> signature]
  <1>2. job.at = "answered" /\ UNCHANGED << outside, archives, ledger >>
    BY DEF Review
  <1>3. Shaped(job.signal)
    BY <1>2 DEF JobInv, SnapshotInv, HasRows
  <1>4. Shaped(reviewed) /\ reviewed.action = job.signal.action
    BY <1>3, ReviewedShape
  <1> HIDE DEF reviewed
  <1>5. Shaped(signal) /\ signal.action = job.signal.action
    BY <1>4, GuardedShape
  <1> HIDE DEF signal
  <1>6. Shaped(kept) /\ kept.action = job.signal.action
    BY <1>5, PersistedShape
  <1>7. /\ \/ job' = [job EXCEPT !.at = "parsed", !.signal = signal]
           \/ job' = [job EXCEPT !.at = "parsed", !.signal = kept]
        /\ \/ UNCHANGED << lock, lockRows >>
           \/ Locks(policy) /\ lock' = next /\ lockRows' = job.rows
    BY <1>1, Zenon DEF reviewed, signal
  <1>8. \E g : /\ Shaped(g) /\ g.action = job.signal.action
               /\ job' = [job EXCEPT !.at = "parsed", !.signal = g]
    BY <1>5, <1>6, <1>7
  <1>9. signal.action \in Directions \cup {"HOLD"}
    BY <1>5 DEF Shaped, SignalRecord
  <1>10. ASSUME Locks(policy), lock' = next
         PROVE  /\ lock'.day = day /\ lock'.signature = signature
                /\ lock'.side \in Directions
                /\ lock.day = day => MacroFlipped(lock.signature, signature)
    <2>1. /\ signal.action # "HOLD"
          /\ lock.day = day => MacroFlipped(lock.signature, signature)
      BY <1>10, LocksDirections
    <2> QED
      BY <1>9, <1>10, <2>1
  <1> QED
    BY <1>2, <1>7, <1>8, <1>10

LEMMA ReviewKeeps == ASSUME JobInv, Review PROVE JobInv'
  <1>1. job.at = "answered" /\ HasRows /\ ~Refused(job.fresh)
    BY ReviewResult DEF HasRows, JobInv, SnapshotInv
  <1>2. UNCHANGED << outside, archives, ledger >>
    BY ReviewResult
  <1>3. PICK g : /\ Shaped(g) /\ g.action = job.signal.action
                 /\ job' = [job EXCEPT !.at = "parsed", !.signal = g]
    BY ReviewResult
  <1>4. /\ job.asked \in Asked
        /\ job' = [job EXCEPT !.at = "parsed", !.asked = job.asked, !.signal = g]
    BY <1>1, <1>3, SameQuestion DEF JobInv
  <1>5. job.asked = "HOLD" /\ g.action # "HOLD" => ~ReducesRisk(job.fresh)
    BY <1>1, <1>3 DEF JobInv, SnapshotInv
  <1>6. /\ job' \in Fetched /\ job'.rows = job.rows /\ job'.at = "parsed"
        /\ job'.at # "idle" => ledger' < runs'
        /\ HasRows' /\ SnapshotInv'
    BY <1>1, <1>2, <1>3, <1>4, <1>5, Advances
  <1>7. /\ UNCHANGED << day, source, release, runs, archives, ledger >>
        /\ day \in Nat
    BY <1>2, DayType DEF outside, world, JobInv
  <1>8. CASE UNCHANGED << lock, lockRows >>
    <2>1. archives' \in Seq(Snapshots)
      BY <1>7 DEF JobInv, Typed
    <2> QED
      BY <1>1, <1>2, <1>6, <1>8, <2>1, AdvancesAlone
  <1>9. CASE /\ lockRows' = job.rows
             /\ lock'.day = day /\ lock'.signature = Signature(job.rows, Tracked)
             /\ lock'.side \in Directions
    <2>1. job.rows \in Snapshots /\ Rows(lockRows')
      BY <1>1, <1>9, JobKinds, RowsOfSnapshot DEF JobInv, Fetched
    <2>2. lock'.day \in 0..day'
      BY <1>7, <1>9
    <2>3. Typed'
      BY <1>6, <1>7, <1>9, <2>1, <2>2 DEF JobInv, Typed
    <2>4. LockInv'
      <3>1. Outdated(job.rows)
        BY <1>1 DEF JobInv, LockInv
      <3> QED
        BY <1>6, <1>7, <1>9, <3>1 DEF LockInv, Outdated
    <2> QED
      BY <1>6, <2>3, <2>4 DEF JobInv
  <1> QED
    BY <1>8, <1>9, ReviewResult

(* A stage that changes nothing of the run but how far it is.              *)
LEMMA StageKeeps ==
    ASSUME JobInv, job.at \in {"parsed", "archived"}, NEW stage \in {"archived", "published"},
           job' = [job EXCEPT !.at = stage], archives' \in Seq(Snapshots),
           UNCHANGED << outside, lock, ledger, lockRows >>
    PROVE  JobInv'
  <1>1. HasRows
    BY DEF HasRows
  <1>2. /\ job.asked \in Asked
        /\ job' = [job EXCEPT !.at = stage, !.asked = job.asked, !.signal = job.signal]
    BY <1>1, SameQuestion DEF JobInv
  <1>3. /\ Shaped(job.signal)
        /\ job.signal.action # "HOLD" => ~Refused(job.fresh)
        /\ job.asked = "HOLD" /\ job.signal.action # "HOLD" => ~ReducesRisk(job.fresh)
    BY <1>1 DEF JobInv, SnapshotInv
  <1>4. /\ job' \in Fetched /\ job'.rows = job.rows /\ job'.at = stage
        /\ job'.at # "idle" => ledger' < runs'
        /\ HasRows' /\ SnapshotInv'
    BY <1>1, <1>2, <1>3, Advances
  <1> QED
    BY <1>1, <1>4, AdvancesAlone

LEMMA ArchiveKeeps == ASSUME JobInv, Archive PROVE JobInv'
  <1>1. /\ job.at = "parsed" /\ job' = [job EXCEPT !.at = "archived"]
        /\ UNCHANGED << outside, lock, ledger, lockRows >>
    BY DEF Archive
  <1>2. job.rows \in Snapshots /\ archives \in Seq(Snapshots)
    BY <1>1, JobKinds DEF JobInv, HasRows, Fetched, Typed
  <1>3. archives' \in Seq(Snapshots)
    <2>1. << job.rows >> \in Seq(Snapshots)
      BY <1>2
    <2>2. << job.rows >> \o archives \in Seq(Snapshots)
      BY <1>2, <2>1
    <2> QED
      BY <1>2, <2>2 DEF Archive
  <1> QED
    BY <1>1, <1>3, StageKeeps

LEMMA PublishKeeps == ASSUME JobInv, Publish PROVE JobInv'
  <1>1. /\ job.at = "archived" /\ job' = [job EXCEPT !.at = "published"]
        /\ UNCHANGED << outside, lock, archives, ledger, lockRows >>
    BY DEF Publish
  <1>2. archives' \in Seq(Snapshots)
    BY <1>1 DEF JobInv, Typed
  <1> QED
    BY <1>1, <1>2, StageKeeps

LEMMA JobNextInv == JobInv /\ [JobNext]_jobVars => JobInv'
  <1> SUFFICES ASSUME JobInv, [JobNext]_jobVars PROVE JobInv'
    OBVIOUS
  <1>1. CASE NewDay
    BY <1>1, NewDayKeeps
  <1>2. CASE \E s \in News : Publishes(s)
    BY <1>2, PublishesKeeps
  <1>3. CASE \E s \in News \cap Treasury : Appears(s)
    BY <1>3, AppearsKeeps
  <1>4. CASE Start
    BY <1>4, StartKeeps
  <1>5. CASE Leaves
    BY <1>5, Ends DEF Leaves
  <1>6. CASE Fetch
    BY <1>6, FetchKeeps
  <1>7. CASE AskParser
    BY <1>7, AskParserKeeps
  <1>8. CASE AskGraph
    BY <1>8, AskGraphKeeps
  <1>9. CASE NoAnswer
    BY <1>9, NoAnswerKeeps
  <1>10. CASE Review
    BY <1>10, ReviewKeeps
  <1>11. CASE Stops
    BY <1>11, Ends DEF Stops
  <1>12. CASE Archive
    BY <1>12, ArchiveKeeps
  <1>13. CASE Publish
    BY <1>13, PublishKeeps
  <1>14. CASE BookCost
    BY <1>14, Ends DEF BookCost
  <1>15. CASE JobDies
    BY <1>15, Ends DEF JobDies
  <1>16. CASE UNCHANGED jobVars
    <2>1. UNCHANGED << mode, day, source, release, lock, archives, ledger, job, runs,
                       news, lockRows >>
      BY <1>16 DEF jobVars, world
    <2> QED
      BY <2>1 DEF JobInv, Typed, SnapshotInv, LockInv, HasRows, Outdated, world
  <1> QED
    BY <1>1, <1>2, <1>3, <1>4, <1>5, <1>6, <1>7, <1>8, <1>9, <1>10, <1>11,
       <1>12, <1>13, <1>14, <1>15, <1>16 DEF JobNext

(* The invariant: types, what a run knows of its snapshot and may make of  *)
(* it, and the order in which the lock, the run and the world were read.   *)
THEOREM JobInvariant == JobSpec => []JobInv
  <1>1. JobInit => JobInv
    BY JobInitInv
  <1>2. JobInv /\ [JobNext]_jobVars => JobInv'
    BY JobNextInv
  <1> QED
    BY <1>1, <1>2, PTL DEF JobSpec

-----------------------------------------------------------------------------
(* What follows *)

(* The files of the signal job are well typed, and a decided run has the   *)
(* asset's geometry.                                                       *)
THEOREM JobIsTyped == JobSpec => []JobTypes
  <1>1. JobInv => JobTypes
    <2> SUFFICES ASSUME JobInv PROVE JobTypes
      OBVIOUS
    <2>1. day \in Nat /\ day \in 0..LastDay /\ LastDay \in Nat
      BY DayType, JobConfig DEF JobInv, Typed
    <2>2. lock.day \in 0..LastDay \cup {None}
      BY <2>1 DEF JobInv, Typed
    <2>3. \A k \in DOMAIN archives : Rows(archives[k])
      BY RowsOfSnapshot DEF JobInv, Typed
    <2>4. Decided => HasRows /\ Rows(job.rows) /\ Shaped(job.signal)
      BY JobKinds, RowsOfSnapshot DEF JobInv, SnapshotInv, Decided, HasRows, Fetched
    <2>5. \A g : Shaped(g) =>
            /\ g.confidence \in 0..100
            /\ g.action = "HOLD" => g.stop = 0 /\ g.target = 0
            /\ g.action # "HOLD" =>
                 /\ g.action \in Directions
                 /\ g.stop \in MinStop..MaxStop
                 /\ 2 * g.target \in 3 * g.stop - 1..5 * g.stop
      BY DEF Shaped, SignalRecord
    <2> QED
      BY <2>1, <2>2, <2>3, <2>4, <2>5 DEF JobInv, Typed, JobTypes
  <1> QED
    BY <1>1, JobInvariant, PTL

(* parse_signal and the freshness rules: whatever mix of FRED, H.15 and    *)
(* archives a snapshot came from, a direction is decided only on inputs    *)
(* that carry it.                                                          *)
THEOREM DirectionsAreFresh == JobSpec => []DirectionHasFreshInputs
  <1>1. JobInv => DirectionHasFreshInputs
    <2> SUFFICES ASSUME JobInv, Decided, job.signal.action # "HOLD"
                 PROVE  DirectionHasFreshInputs
      BY DEF DirectionHasFreshInputs
    <2> DEFINE rows == job.rows
               d == job.made
               active == job.window \in Active
    <2>1. HasRows /\ job \in Fetched
      BY JobKinds DEF JobInv, Decided, HasRows
    <2>2. rows \in Snapshots /\ d \in Nat
      BY <2>1 DEF Fetched
    <2>3. PICK known \in BOOLEAN : job.fresh = Freshness(rows, d, active, known)
      <3>1. PICK known \in CalendarRead(d) : job.fresh = Freshness(rows, d, active, known)
        BY <2>1 DEF JobInv, SnapshotInv
      <3>2. known \in BOOLEAN
        BY DEF CalendarRead
      <3> QED
        BY <3>1, <3>2
    <2>4. ~Refused(job.fresh)
      BY <2>1 DEF JobInv, SnapshotInv
    <2>5. ~job.fresh.blocker /\ ~HardStale(job.fresh.age)
      BY <2>4 DEF Refused
    <2>6. active => /\ Cardinality(Series \ DOMAIN rows) <= 1
                    /\ Cardinality({ s \in DOMAIN rows \cap Daily :
                                       d - rows[s].seen >= 7 }) <= 2
      <3> SUFFICES ASSUME active
                   PROVE  /\ Cardinality(Series \ DOMAIN rows) <= 1
                          /\ Cardinality({ s \in DOMAIN rows \cap Daily :
                                             d - rows[s].seen >= 7 }) <= 2
        OBVIOUS
      <3>1. active = TRUE
        OBVIOUS
      <3> HIDE DEF rows, d, active
      <3>2. ~Freshness(rows, d, TRUE, known).blocker
        BY <2>3, <2>5, <3>1
      <3> QED
        BY <2>2, <3>2, ActiveFreshness
    <2>7. \A s \in DOMAIN rows \cap Daily :
            rows[s].via # "archive" => WeekdaysBetween(rows[s].seen, d) <= 2
      <3>1. job.fresh.age = DailyAge(rows, d)
        <4> HIDE DEF rows, d, active
        <4> QED
          BY <2>3, AgeAssessed
      <3> QED
        BY <2>2, <2>5, <3>1, FetchedRowsFresh
    <2>8. d \in Meetings => job.fresh.meeting = "unknown"
      <3> HIDE DEF rows, d, active
      <3> QED
        BY <2>2, <2>3, <2>5, MeetingBlocks
    <2>9. job.asked = "HOLD" => DOMAIN rows = Series
                                /\ \A s \in Series : rows[s].via = "fred"
      <3>1. job.asked = "HOLD" => ~ReducesRisk(job.fresh)
        BY <2>1 DEF JobInv, SnapshotInv
      <3> HIDE DEF rows, d, active
      <3> QED
        BY <2>2, <2>3, <3>1, UndegradedRows
    <2> HIDE DEF DirectionHasFreshInputs
    <2> QED
      BY <2>6, <2>7, <2>8, <2>9 DEF DirectionHasFreshInputs
  <1> QED
    BY <1>1, JobInvariant, PTL

(* apply_directional_persistence: the day's direction turns only on news.  *)
LEMMA LockTurns ==
    JobInv /\ [JobNext]_jobVars =>
      (lock'.day = lock.day /\ lock'.side # lock.side =>
         \E s \in Tracked \cap DOMAIN lockRows \cap DOMAIN lockRows' :
           /\ Sign(lockRows'[s].change) = -Sign(lockRows[s].change)
           /\ Sign(lockRows[s].change) # 0
           /\ \/ lockRows'[s].seen > lockRows[s].seen
              \/ lockRows'[s].via # lockRows[s].via
              \/ lockRows'[s].via = "archive")
  <1> SUFFICES ASSUME JobInv, [JobNext]_jobVars,
                      lock'.day = lock.day, lock'.side # lock.side
               PROVE  \E s \in Tracked \cap DOMAIN lockRows \cap DOMAIN lockRows' :
                        /\ Sign(lockRows'[s].change) = -Sign(lockRows[s].change)
                        /\ Sign(lockRows[s].change) # 0
                        /\ \/ lockRows'[s].seen > lockRows[s].seen
                           \/ lockRows'[s].via # lockRows[s].via
                           \/ lockRows'[s].via = "archive"
    OBVIOUS
  <1>1. Review
    BY DEF JobNext, jobVars, NewDay, Publishes, Appears, Start, Leaves, Fetch,
           AskParser, AskGraph, NoAnswer, Stops, Archive, Publish, BookCost, JobDies
  <1>2. /\ lockRows' = job.rows /\ job.at = "answered"
        /\ MacroFlipped(lock.signature, Signature(job.rows, Tracked))
    BY <1>1, ReviewResult
  <1>3. lock.signature = Signature(lockRows, Tracked)
    BY DEF JobInv, LockInv
  <1>4. PICK s \in Tracked :
          /\ Signature(lockRows, Tracked)[s] # 0
          /\ Signature(job.rows, Tracked)[s] = -Signature(lockRows, Tracked)[s]
    <2>1. DOMAIN Signature(lockRows, Tracked) = Tracked
      BY DEF Signature
    <2> QED
      BY <1>2, <1>3, <2>1 DEF MacroFlipped
  <1>5. /\ s \in DOMAIN lockRows /\ Sign(lockRows[s].change) # 0
        /\ s \in DOMAIN job.rows
        /\ Sign(job.rows[s].change) = -Sign(lockRows[s].change)
    <2>1. s \in DOMAIN lockRows /\ Sign(lockRows[s].change) # 0
      BY <1>4 DEF Signature
    <2>2. Sign(lockRows[s].change) \in {-1, 1}
      BY <2>1, SignType
    <2>3. Signature(job.rows, Tracked)[s] = -Sign(lockRows[s].change)
      BY <1>4, <2>1 DEF Signature
    <2>4. s \in DOMAIN job.rows
      BY <2>2, <2>3 DEF Signature
    <2> QED
      BY <2>1, <2>3, <2>4 DEF Signature
  <1>6. \/ job.rows[s].seen > lockRows[s].seen
        \/ job.rows[s].via # lockRows[s].via
        \/ job.rows[s].via = "archive"
    <2> SUFFICES ASSUME job.rows[s].via = lockRows[s].via, job.rows[s].via # "archive"
                 PROVE  job.rows[s].seen > lockRows[s].seen
      OBVIOUS
    <2>1. Before(lockRows, job.rows)
      BY <1>2 DEF JobInv, LockInv
    <2>3. Precedes(lockRows[s], job.rows[s])
      BY <1>5, <2>1 DEF Before
    <2>4. lockRows[s].change # job.rows[s].change
      <3>1. Sign(lockRows[s].change) \in {-1, 1}
        BY <1>5, SignType
      <3>2. Sign(job.rows[s].change) # Sign(lockRows[s].change)
        BY <1>5, <3>1
      <3> QED
        BY <3>2
    <2>5. lockRows[s].seen \in Nat /\ job.rows[s].seen \in Nat
      <3>1. Rows(lockRows) /\ Rows(job.rows)
        BY <1>2, JobKinds, RowsOfSnapshot DEF JobInv, Typed, HasRows, Fetched
      <3> QED
        BY <1>5, <3>1 DEF Rows, Row
    <2> QED
      BY <2>3, <2>4, <2>5 DEF Precedes
  <1> QED
    BY <1>2, <1>5, <1>6

THEOREM LockTurnsOnNews == JobSpec => LockFollowsMacro
  <1>1. JobInv /\ [JobNext]_jobVars =>
          [ (lock'.day = lock.day /\ lock'.side # lock.side) =>
              \E s \in Tracked \cap DOMAIN lockRows \cap DOMAIN lockRows' :
                /\ Sign(lockRows'[s].change) = -Sign(lockRows[s].change)
                /\ Sign(lockRows[s].change) # 0
                /\ \/ lockRows'[s].seen > lockRows[s].seen
                   \/ lockRows'[s].via # lockRows[s].via
                   \/ lockRows'[s].via = "archive" ]_jobVars
    BY LockTurns
  <1> QED
    BY <1>1, JobInvariant, PTL DEF JobSpec, LockFollowsMacro

-----------------------------------------------------------------------------
(* cmd.json.  UpdatesKept speaks of the file.  A turn under way carries a  *)
(* copy of it, so the invariant says how what a turn will write follows    *)
(* from what it has read; a turn that is not Crossed has read the present  *)
(* file.                                                                   *)

(* A turn that has loaded a signal holds the file it has read.             *)
Loaded(turn) == turn.step = "loaded" => turn.write = turn.read

(* write_signal keeps the switch of the file it has read.                  *)
SwitchKept(turn) ==
    turn.step = "ready" => turn.write.kill = Parsed(turn.read).kill

RunInv ==
    /\ run # Idle => run.step = "ready"
    /\ SwitchKept(run)

(* Unless something has come in between, the confirm job writes the signal *)
(* of the file it has read.                                                *)
ConfirmInv ==
    /\ Loaded(confirm)
    /\ SwitchKept(confirm)
    /\ ~upset /\ confirm.step = "ready"
       => confirm.write.signal = Parsed(confirm.read).signal

DashboardInv == dashboard # Idle => dashboard.write.signal = NoSignal

(* Unless something has come in between, the file the poller has truncated *)
(* is still torn, and what it will write is what was there.                *)
PollerInv ==
    /\ Loaded(poller)
    /\ ~upset /\ poller.step = "ready" => file = Torn /\ poller.write = Expected

TurnsInv == RunInv /\ ConfirmInv /\ DashboardInv /\ PollerInv

FileInv == TypeOK /\ TurnsInv /\ UpdatesKept

-----------------------------------------------------------------------------
(* Files *)

(* The two marks and contents are told apart.                              *)
LEMMA MarksDiffer ==
    /\ Missing # Torn
    /\ \A c \in Content : c # Missing /\ c # Torn
<1>1. Missing # Torn
  <2>1. Missing.file = "missing" /\ Torn.file = "torn"
    BY DEF Missing, Torn
  <2> QED
    BY <2>1
<1>2. ASSUME NEW c \in Content PROVE c # Missing /\ c # Torn
  <2>1. DOMAIN c = {"kill", "signal"}
    BY DEF Content
  <2>2. DOMAIN Missing = {"file"} /\ DOMAIN Torn = {"file"}
    BY DEF Missing, Torn
  <2> QED
    BY <2>1, <2>2
<1> QED
    BY <1>1, <1>2

(* A reader always gets contents; they are the file's when it has any.     *)
LEMMA ParsedFile ==
    /\ \A c \in Content : Parsed(c) = c
    /\ \A f \in Files : Parsed(f) \in Content
    /\ \A f \in Files : Parsed(f).signal # NoSignal => f \in Content
<1> USE FileConstants
<1>1. Blank \in Content /\ Blank.signal = NoSignal
    BY DEF Blank, Content, Signals, NoSignal
<1>2. \A c \in Content : Parsed(c) = c
    BY MarksDiffer DEF Parsed
<1>3. \A f \in Files : Parsed(f) \in Content
    BY <1>1, <1>2 DEF Parsed, Files
<1>4. \A f \in Files : Parsed(f).signal # NoSignal => f \in Content
    BY <1>1 DEF Parsed, Files
<1> QED
    BY <1>2, <1>3, <1>4

(* The fields of contents and of the idle turn.                            *)
LEMMA Fields ==
    /\ \A c \in Content : c.kill \in BOOLEAN /\ c.signal \in Signals
    /\ \A k \in BOOLEAN, s \in Signals : [kill |-> k, signal |-> s] \in Content
    /\ Idle \in Turn /\ Idle.step = "idle"
<1> USE FileConstants
<1>1. \A c \in Content : c.kill \in BOOLEAN /\ c.signal \in Signals
    BY DEF Content
<1>2. \A k \in BOOLEAN, s \in Signals : [kill |-> k, signal |-> s] \in Content
    BY DEF Content
<1>3. Idle \in Turn /\ Idle.step = "idle"
    BY DEF Idle, Turn, Files, Blank, Content, Signals, NoSignal
<1> QED
    BY <1>1, <1>2, <1>3

(* What write_signal and _write_cmd write.                                 *)
LEMMA Written ==
    ASSUME file \in Files
    PROVE  /\ \A s \in Signals : WithSignal(s) \in Content
           /\ Toggled \in Content
<1> USE FileConstants
<1>1. Parsed(file).kill \in BOOLEAN /\ NoSignal \in Signals
    BY ParsedFile, Fields DEF Signals, NoSignal
<1>2. (~Parsed(file).kill) \in BOOLEAN
    BY <1>1, Zenon
<1>3. \A s \in Signals : WithSignal(s) \in Content
    BY <1>1, Fields DEF WithSignal
<1>4. Toggled \in Content
    BY <1>1, <1>2, Fields DEF Toggled
<1> QED
    BY <1>3, <1>4

-----------------------------------------------------------------------------
(* Types *)

LEMMA InitTypes == Init => TypeOK
<1> USE FileConstants
<1>1. NoSignal \in Signals /\ 0 \in Signals
    BY DEF Signals, NoSignal
<1> QED
    BY <1>1, Fields DEF Init, TypeOK, Files

(* A turn that is Crossed makes upset true, else it is as before.          *)
LEMMA UpsetType ==
    ASSUME upset \in BOOLEAN
    PROVE  /\ \A turn : (upset \/ Crossed(turn)) \in BOOLEAN
           /\ (upset \/ poller.step = "ready") \in BOOLEAN
BY Zenon

LEMMA NextTypes == TypeOK /\ [Next]_vars => TypeOK'
<1> SUFFICES ASSUME TypeOK, [Next]_vars PROVE TypeOK'
    OBVIOUS
<1> USE FileConstants
<1>a. /\ file \in Files /\ run \in Turn /\ confirm \in Turn
      /\ dashboard \in Turn /\ poller \in Turn /\ upset \in BOOLEAN
    BY DEF TypeOK
<1>b. \A t \in Turn : /\ t.write \in Content /\ t.write \in Files
                      /\ t.write.signal \in Signals
                      /\ t.write.kill \in BOOLEAN
    BY Fields DEF Turn, Files
<1>c. NoSignal \in Signals
    BY DEF Signals, NoSignal
<1>1. CASE RunReads
  <2>1. made' \in Signals
    BY <1>1 DEF TypeOK, RunReads, Signals
  <2>2. WithSignal(made') \in Content
    BY <1>a, <2>1, Written
  <2>3. run' \in Turn
    BY <1>1, <1>a, <2>2 DEF RunReads, Turn
  <2> QED
    BY <1>1, <2>1, <2>3 DEF RunReads, TypeOK, bot, history
<1>2. CASE RunReplaces
    BY <1>2, <1>a, <1>b, Fields, UpsetType DEF RunReplaces, TypeOK, bot
<1>3. CASE ConfirmLoads
  <2>1. confirm' \in Turn
    BY <1>3, <1>a, ParsedFile DEF ConfirmLoads, Turn
  <2> QED
    BY <1>3, <2>1 DEF ConfirmLoads, TypeOK, bot, history
<1>4. CASE ConfirmReads
  <2>1. WithSignal(confirm.write.signal) \in Content
    BY <1>a, <1>b, Written
  <2>2. confirm' \in Turn
    BY <1>4, <1>a, <2>1 DEF ConfirmReads, Turn
  <2> QED
    BY <1>4, <1>a, <2>2, UpsetType DEF ConfirmReads, TypeOK, bot
<1>5. CASE ConfirmReplaces
    BY <1>5, <1>a, <1>b, Fields, UpsetType DEF ConfirmReplaces, TypeOK, bot
<1>6. CASE DashboardReads
  <2>1. dashboard' \in Turn
    BY <1>6, <1>a, Written DEF DashboardReads, Turn
  <2> QED
    BY <1>6, <2>1 DEF DashboardReads, TypeOK, bot, history
<1>7. CASE DashboardReplaces
    BY <1>7, <1>a, <1>b, <1>c, Fields, UpsetType
    DEF DashboardReplaces, TypeOK, bot
<1>8. CASE PollerReads
  <2>1. poller' \in Turn
    BY <1>8, <1>a, ParsedFile DEF PollerReads, Turn
  <2> QED
    BY <1>8, <2>1 DEF PollerReads, TypeOK, jobs, history
<1>9. CASE PollerTruncates
  <2>1. poller' \in Turn
    BY <1>9, <1>a DEF PollerTruncates, Turn
  <2>2. file' \in Files
    BY <1>9 DEF PollerTruncates, Files
  <2> QED
    BY <1>9, <1>a, <2>1, <2>2, UpsetType DEF PollerTruncates, TypeOK, jobs
<1>10. CASE PollerWrites
    BY <1>10, <1>a, <1>b, Fields DEF PollerWrites, TypeOK, jobs, history
<1>11. CASE PollerFails
    BY <1>11, Fields DEF PollerFails, TypeOK, jobs
<1>12. CASE PollKillSwitch
  <2>1. file.kill \in BOOLEAN
    BY <1>12, <1>a, Fields DEF PollKillSwitch, Files
  <2> QED
    BY <1>12, <2>1 DEF PollKillSwitch, TypeOK, jobs, history
<1>13. CASE Crash
    BY <1>13, <1>a, Fields, UpsetType DEF Crash, TypeOK, jobs
<1>14. CASE Startup
    BY <1>14 DEF Startup, TypeOK, jobs, history
<1>15. CASE UNCHANGED vars
    BY <1>15 DEF vars, TypeOK, jobs, bot, history
<1> QED
    BY <1>1, <1>2, <1>3, <1>4, <1>5, <1>6, <1>7, <1>8, <1>9, <1>10, <1>11,
       <1>12, <1>13, <1>14, <1>15
    DEF Next

-----------------------------------------------------------------------------
(* Turns and file *)

LEMMA InitTurns == Init => TurnsInv /\ UpdatesKept
BY MarksDiffer, Fields, FileConstants
DEF Init, TurnsInv, RunInv, ConfirmInv, DashboardInv, PollerInv, Loaded,
    SwitchKept, UpdatesKept, Expected, Parsed, Blank

(* A turn that is not Crossed has read a whole file, which is the present  *)
(* one, so the poller is not writing.                                      *)
LEMMA NotCrossed ==
    ASSUME FileInv, ~upset, NEW turn \in Turn, ~Crossed(turn)
    PROVE  /\ turn.read = file /\ file # Torn
           /\ Parsed(turn.read) = Expected
           /\ poller.step # "ready"
BY DEF FileInv, TurnsInv, PollerInv, UpdatesKept, Crossed

(* A step that leaves the file and the history alone disturbs only the     *)
(* turn it takes.                                                          *)
LEMMA FileAlone ==
    ASSUME FileInv, UNCHANGED << file, wanted, newest, upset >>,
           \/ UNCHANGED poller
           \/ poller.step # "ready" /\ poller'.step # "ready" /\ Loaded(poller)'
    PROVE  PollerInv' /\ UpdatesKept'
BY DEF FileInv, TurnsInv, PollerInv, UpdatesKept, Expected, Loaded, Parsed

(* A step that may upset but changes no turn of a job.                     *)
LEMMA JobsAlone ==
    ASSUME FileInv, UNCHANGED jobs, upset => upset'
    PROVE  RunInv' /\ ConfirmInv' /\ DashboardInv'
BY DEF FileInv, TurnsInv, RunInv, ConfirmInv, DashboardInv, Loaded,
       SwitchKept, Parsed, jobs

(* The program that replaces the file with what is expected keeps it.      *)
LEMMA Replaced ==
    ASSUME FileInv, NEW turn \in Turn, file' = turn.write,
           upset' = (upset \/ Crossed(turn)), UNCHANGED poller,
           ~upset' => turn.write = Expected'
    PROVE  PollerInv' /\ UpdatesKept'
<1>1. turn.write \in Content
    BY DEF Turn
<1>2. UpdatesKept'
    BY <1>1, MarksDiffer, ParsedFile DEF UpdatesKept, Parsed
<1>3. ~upset' => poller.step # "ready"
    BY NotCrossed
<1>4. PollerInv'
    BY <1>3 DEF FileInv, TurnsInv, PollerInv, Loaded
<1> QED
    BY <1>2, <1>4

LEMMA NextTurns == FileInv /\ [Next]_vars => TurnsInv' /\ UpdatesKept'
<1> SUFFICES ASSUME FileInv, [Next]_vars PROVE TurnsInv' /\ UpdatesKept'
    OBVIOUS
<1>a. /\ file \in Files /\ run \in Turn /\ confirm \in Turn
      /\ dashboard \in Turn /\ poller \in Turn
    BY DEF FileInv, TypeOK
<1>b. \A t \in Turn : t.write \in Content
    BY DEF Turn
<1>c. RunInv /\ ConfirmInv /\ DashboardInv /\ PollerInv
    BY DEF FileInv, TurnsInv
<1>d. \A c \in Content : c = [kill |-> c.kill, signal |-> c.signal]
    BY DEF Content
<1>1. CASE RunReads
  <2>1. PollerInv' /\ UpdatesKept'
    BY <1>1, FileAlone DEF RunReads, bot, history
  <2>2. RunInv'
    BY <1>1 DEF RunReads, RunInv, SwitchKept, WithSignal, Parsed
  <2>3. ConfirmInv' /\ DashboardInv'
    BY <1>1, <1>c DEF RunReads, history, ConfirmInv, DashboardInv, Loaded,
                      SwitchKept, Parsed
  <2> QED
    BY <2>1, <2>2, <2>3 DEF TurnsInv
<1>2. CASE RunReplaces
  <2>1. ASSUME ~upset' PROVE run.write = Expected'
    <3>1. ~upset /\ ~Crossed(run)
      BY <1>2, <2>1 DEF RunReplaces
    <3>2. run.write.kill = wanted
      BY <1>2, <1>a, <1>c, <3>1, NotCrossed
      DEF RunReplaces, RunInv, SwitchKept, Expected
    <3> QED
      BY <1>2, <1>a, <1>b, <1>d, <3>2 DEF RunReplaces, Expected
  <2>2. PollerInv' /\ UpdatesKept'
    BY <1>2, <1>a, <2>1, Replaced DEF RunReplaces, bot
  <2>3. RunInv'
    BY <1>2, Fields DEF RunReplaces, RunInv, SwitchKept
  <2>4. ConfirmInv' /\ DashboardInv'
    BY <1>2, <1>c DEF RunReplaces, ConfirmInv, DashboardInv, Loaded,
                      SwitchKept, Parsed
  <2> QED
    BY <2>2, <2>3, <2>4 DEF TurnsInv
<1>3. CASE ConfirmLoads
  <2>1. PollerInv' /\ UpdatesKept'
    BY <1>3, FileAlone DEF ConfirmLoads, bot, history
  <2>2. ConfirmInv'
    BY <1>3 DEF ConfirmLoads, ConfirmInv, Loaded, SwitchKept
  <2>3. RunInv' /\ DashboardInv'
    BY <1>3, <1>c DEF ConfirmLoads, RunInv, DashboardInv, SwitchKept, Parsed
  <2> QED
    BY <2>1, <2>2, <2>3 DEF TurnsInv
<1>4. CASE ConfirmReads
  <2>1. UpdatesKept' /\ PollerInv'
    BY <1>4, <1>c DEF ConfirmReads, bot, FileInv, UpdatesKept, PollerInv,
                      Loaded, Expected, Parsed
  <2>2. ASSUME ~upset'
        PROVE  confirm.write.signal = Parsed(file).signal
    <3>1. confirm.write = confirm.read /\ confirm.read = file
      BY <1>4, <1>a, <1>c, <2>2, NotCrossed
      DEF ConfirmReads, ConfirmInv, Loaded
    <3> QED
      BY <1>a, <1>b, <3>1, ParsedFile
  <2>3. ConfirmInv'
    BY <1>4, <2>2
    DEF ConfirmReads, ConfirmInv, Loaded, SwitchKept, WithSignal, Parsed
  <2>4. RunInv' /\ DashboardInv'
    BY <1>4, <1>c DEF ConfirmReads, RunInv, DashboardInv, SwitchKept, Parsed
  <2> QED
    BY <2>1, <2>3, <2>4 DEF TurnsInv
<1>5. CASE ConfirmReplaces
  <2>1. ASSUME ~upset' PROVE confirm.write = Expected'
    <3>1. ~upset /\ ~Crossed(confirm) /\ confirm.step = "ready"
      BY <1>5, <2>1 DEF ConfirmReplaces
    <3>2. confirm.write.kill = wanted /\ confirm.write.signal = newest
      BY <1>a, <1>c, <3>1, NotCrossed DEF ConfirmInv, SwitchKept, Expected
    <3> QED
      BY <1>5, <1>a, <1>b, <1>d, <3>2 DEF ConfirmReplaces, Expected
  <2>2. PollerInv' /\ UpdatesKept'
    BY <1>5, <1>a, <2>1, Replaced DEF ConfirmReplaces, bot
  <2>3. ConfirmInv'
    BY <1>5, Fields DEF ConfirmReplaces, ConfirmInv, SwitchKept, Loaded
  <2>4. RunInv' /\ DashboardInv'
    BY <1>5, <1>c DEF ConfirmReplaces, RunInv, DashboardInv, SwitchKept,
                      Parsed
  <2> QED
    BY <2>2, <2>3, <2>4 DEF TurnsInv
<1>6. CASE DashboardReads
  <2>1. PollerInv' /\ UpdatesKept'
    BY <1>6, FileAlone DEF DashboardReads, bot, history
  <2>2. DashboardInv'
    BY <1>6 DEF DashboardReads, DashboardInv, Toggled
  <2>3. RunInv' /\ ConfirmInv'
    BY <1>6, <1>c DEF DashboardReads, history, RunInv, ConfirmInv, Loaded,
                      SwitchKept, Parsed
  <2> QED
    BY <2>1, <2>2, <2>3 DEF TurnsInv
<1>7. CASE DashboardReplaces
  <2>1. dashboard.write = Expected'
    BY <1>7, <1>a, <1>b, <1>c, <1>d
    DEF DashboardReplaces, DashboardInv, Expected
  <2>2. PollerInv' /\ UpdatesKept'
    BY <1>7, <1>a, <2>1, Replaced DEF DashboardReplaces, bot
  <2>3. DashboardInv'
    BY <1>7 DEF DashboardReplaces, DashboardInv
  <2>4. RunInv' /\ ConfirmInv'
    BY <1>7, <1>c DEF DashboardReplaces, RunInv, ConfirmInv, Loaded,
                      SwitchKept, Parsed
  <2> QED
    BY <2>2, <2>3, <2>4 DEF TurnsInv
<1>8. CASE PollerReads
  <2>1. PollerInv' /\ UpdatesKept'
    BY <1>8, Fields, FileAlone DEF PollerReads, history, Loaded
  <2>2. RunInv' /\ ConfirmInv' /\ DashboardInv'
    BY <1>8, JobsAlone DEF PollerReads, history
  <2> QED
    BY <2>1, <2>2 DEF TurnsInv
<1>9. CASE PollerTruncates
  <2>1. ASSUME ~upset' PROVE poller.write = Expected
    <3>1. poller.write = file /\ Parsed(file) = Expected
      BY <1>9, <1>a, <1>c, <2>1, NotCrossed
      DEF PollerTruncates, PollerInv, Loaded
    <3> QED
      BY <1>a, <1>b, <3>1, ParsedFile
  <2>2. /\ file' = Torn /\ poller'.step = "ready"
        /\ poller'.write = poller.write
        /\ Expected' = Expected
    BY <1>9, <1>a DEF PollerTruncates, Turn, Expected
  <2>3. PollerInv' /\ UpdatesKept'
    BY <2>1, <2>2 DEF PollerInv, UpdatesKept, Loaded
  <2>4. RunInv' /\ ConfirmInv' /\ DashboardInv'
    BY <1>9, JobsAlone DEF PollerTruncates
  <2> QED
    BY <2>3, <2>4 DEF TurnsInv
<1>10. CASE PollerWrites
  <2>1. ASSUME ~upset' PROVE file' = Expected /\ file' \in Content
    BY <1>10, <1>a, <1>b, <1>c, <2>1 DEF PollerWrites, PollerInv, history
  <2>2. UpdatesKept'
    BY <1>10, <2>1, MarksDiffer, ParsedFile
    DEF PollerWrites, UpdatesKept, Expected, history, Parsed
  <2>3. PollerInv'
    BY <1>10, Fields DEF PollerWrites, PollerInv, Loaded
  <2>4. RunInv' /\ ConfirmInv' /\ DashboardInv'
    BY <1>10, JobsAlone DEF PollerWrites, history
  <2> QED
    BY <2>2, <2>3, <2>4 DEF TurnsInv
<1>11. CASE PollerFails
  <2>1. PollerInv' /\ UpdatesKept'
    BY <1>11, Fields DEF PollerFails, PollerInv, UpdatesKept, Loaded
  <2>2. RunInv' /\ ConfirmInv' /\ DashboardInv'
    BY <1>11, JobsAlone DEF PollerFails
  <2> QED
    BY <2>1, <2>2 DEF TurnsInv
<1>12. CASE PollKillSwitch
    BY <1>12, FileAlone, JobsAlone DEF PollKillSwitch, history, TurnsInv
<1>13. CASE Crash
  <2>1. PollerInv'
    BY <1>13, Fields DEF Crash, PollerInv, Loaded
  <2>2. UpdatesKept'
    BY <1>13 DEF Crash, FileInv, UpdatesKept, Expected, Parsed
  <2>3. RunInv' /\ ConfirmInv' /\ DashboardInv'
    BY <1>13, JobsAlone DEF Crash
  <2> QED
    BY <2>1, <2>2, <2>3 DEF TurnsInv
<1>14. CASE Startup
    BY <1>14, FileAlone, JobsAlone DEF Startup, history, TurnsInv
<1>15. CASE UNCHANGED vars
    BY <1>15, FileAlone, JobsAlone DEF vars, bot, history, TurnsInv
<1> QED
    BY <1>1, <1>2, <1>3, <1>4, <1>5, <1>6, <1>7, <1>8, <1>9, <1>10, <1>11,
       <1>12, <1>13, <1>14, <1>15
    DEF Next

-----------------------------------------------------------------------------
(* Theorems *)

(* The inductive invariant: types, what each turn will write, and the file *)
(* that is kept as long as no turn has crossed another.                    *)
THEOREM FileInvariant == Spec => []FileInv
<1>1. Init => FileInv
    BY InitTypes, InitTurns DEF FileInv
<1>2. FileInv /\ [Next]_vars => FileInv'
    BY NextTypes, NextTurns DEF FileInv
<1> QED
    BY <1>1, <1>2, PTL DEF Spec

(* cmd.json, the turns of its four writers and the bot are well typed: the *)
(* poller never writes back a file that was missing or torn.               *)
THEOREM FileTypes == Spec => []TypeOK
<1>1. FileInv => TypeOK
    BY DEF FileInv
<1> QED
    BY <1>1, FileInvariant, PTL

(* For any number of signals: while no turn has crossed another, cmd.json  *)
(* holds the operator's switch and the newest signal.                      *)
THEOREM UpdatesAreKept == Spec => []UpdatesKept
<1>1. FileInv => UpdatesKept
    BY DEF FileInv
<1> QED
    BY <1>1, FileInvariant, PTL
=============================================================================
