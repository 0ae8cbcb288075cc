------------------------------ MODULE SignalJob ------------------------------
(***************************************************************************)
(* The signal job (signal/run.py): a process that fetches the market       *)
(* snapshot, asks the models, applies the directional lock, writes the     *)
(* brief, archives the run, publishes the signal in cmd.json and books its *)
(* cost.  It is started by timers and by hand, and it can die between any  *)
(* two of those steps.  What it leaves behind, the lock file and the       *)
(* archives, is what the next run reads: rows of an archive stand in for   *)
(* series that cannot be fetched.                                          *)
(*                                                                         *)
(* Sources outside the program: FRED, the H.15 release, the FOMC calendar  *)
(* and the models.  What cmd.json goes through after the write is in       *)
(* CommandFile.                                                            *)
(***************************************************************************)
EXTENDS SignalRules

CONSTANTS
    Modes,      \* decision modes of the deployments
    Starts,     \* window label and dry-run flag a run may have
    News,       \* series that may be published while the model runs
    Tracked,    \* series of the macro signature
    Changes,    \* one-day changes a series may show
    Outages,    \* sets of series FRED may fail to deliver in one run
    Views,      \* price histories in state.json
    Texts,      \* bullish and bearish words of the report
    Answers,    \* what the parser model may answer
    Graphs,     \* what the candidate graph may produce
    Reviews,    \* what the validator may answer, NONE if it fails
    FirstDays,  \* days on which the model starts
    LastDay,    \* bound: last day
    Sources,    \* what FRED may have published before
    Releases,   \* what the H.15 release may carry
    MaxRuns,    \* bound: runs of the job
    MaxNews     \* bound: observations published after the start

Observation == [seen : Nat, change : Changes, via : {"fred"}]
Numeric(a) == a.confidence \in Int /\ a.stop \in Int /\ a.target \in Int

(* What a model answers for a number is one, NaN included, and what FRED   *)
(* publishes is of the past.                                               *)
ASSUME JobConfig ==
    /\ Tracked \subseteq Series /\ News \subseteq Series
    /\ LastDay \in Nat /\ FirstDays \subseteq 0..LastDay
    /\ Outages \subseteq SUBSET Series
    /\ Changes \subseteq Int
    /\ Sources \subseteq [Series -> Observation]
    /\ \A f \in Sources, s \in Series, d \in FirstDays : f[s].seen <= d
    /\ Releases \subseteq [Treasury -> Observation]
    /\ \A w \in Texts : w.bull \in Nat /\ w.bear \in Nat
    /\ \A a \in Answers : Numeric(a)
    /\ \A g \in Graphs : Numeric(g.final) /\ g.risk.adjustment \in Int
    /\ \A r \in Reviews : r.adjustment \in Int
    /\ MaxRuns \in Nat /\ MaxNews \in Nat

Active == {"morning", "midday", "us_open"}

VARIABLES
    mode,       \* config.decision_mode
    day,        \* the present day
    source,     \* what FRED publishes, a row for each series
    release,    \* what the H.15 release carries, a row for each of its series
    lock,       \* the directional state file
    archives,   \* prediction_payload rows of the archived runs, newest first
    ledger,     \* lines in the cost ledger
    job,        \* the running process
    (* bounds and history *)
    runs,       \* runs started
    news,       \* observations published
    lockRows    \* the snapshot rows behind the lock

world == << mode, source, release >>
jobVars == << world, day, lock, archives, ledger, job, runs, news, lockRows >>
outside == << world, day, runs, news >>

NoLock == [day |-> None, side |-> "NEUTRAL", signature |-> [s \in Tracked |-> 0]]
NoJob == [at |-> "idle"]

JobInit ==
    /\ mode \in Modes
    /\ day \in FirstDays
    /\ source \in Sources
    /\ release \in Releases
    /\ lock = NoLock /\ lockRows = << >>
    /\ archives = << >>
    /\ ledger = 0 /\ runs = 0 /\ news = 0
    /\ job = NoJob

-----------------------------------------------------------------------------
(* the world outside *)

NewDay ==
    /\ day < LastDay
    /\ day' = day + 1
    /\ UNCHANGED << world, lock, archives, ledger, job, runs, news, lockRows >>

(* FRED publishes a newer observation of a series.                         *)
Publishes(s) ==
    /\ news < MaxNews
    /\ news' = news + 1
    /\ \E change \in Changes :
         source' = [source EXCEPT ![s] = [seen |-> day, change |-> change,
                                          via |-> "fred"]]
    /\ source[s].seen < day
    /\ UNCHANGED << mode, day, release, lock, archives, ledger, job, runs, lockRows >>

(* The H.15 release does, before FRED or after it.                         *)
Appears(s) ==
    /\ news < MaxNews
    /\ news' = news + 1
    /\ \E change \in Changes :
         release' = [release EXCEPT ![s] = [seen |-> day, change |-> change,
                                            via |-> "fred"]]
    /\ release[s].seen < day
    /\ UNCHANGED << mode, day, source, lock, archives, ledger, job, runs, lockRows >>

-----------------------------------------------------------------------------
(* the job *)

(* main: a run by hand may be a dry run, which has no directional state    *)
(* path.                                                                   *)
Start ==
    /\ job.at = "idle" /\ runs < MaxRuns
    /\ runs' = runs + 1
    /\ \E s \in Starts :
         job' = [at |-> "started", window |-> s.window, dry |-> s.dry]
    /\ UNCHANGED << world, day, lock, archives, ledger, news, lockRows >>

(* A timer outside the window's schedule, or too little context.           *)
Leaves ==
    /\ job.at = "started"
    /\ job' = NoJob
    /\ UNCHANGED << outside, lock, archives, ledger, lockRows >>

(* The guards of parse_signal before any model is asked.                   *)
Refused(fresh) == fresh.blocker \/ HardStale(fresh.age)

(* fetch_policy_context: the calendar page may be unreadable, which makes  *)
(* a difference on the day of a decision only.                             *)
CalendarRead(d) == IF d \in Meetings THEN BOOLEAN ELSE {TRUE}

(* build_direct_prediction_artifacts and the guards of parse_signal.       *)
Fetch ==
    /\ job.at = "started"
    /\ \E down \in Outages, h15 \in BOOLEAN, known \in CalendarRead(day) :
         LET rows == SnapshotRows(source, release, down, h15, archives)
             fresh == Freshness(rows, day, job.window \in Active, known)
         IN  job' = [ at |-> IF Refused(fresh) THEN "parsed" ELSE "fetched",
                      window |-> job.window, dry |-> job.dry, made |-> day,
                      rows |-> rows, fresh |-> fresh,
                      lean |-> OverallBias(rows, 0, 0),
                      asked |-> "nothing", signal |-> HoldSignal("skipped") ]
    /\ UNCHANGED << outside, lock, archives, ledger, lockRows >>

(* parse_signal with the parser model's answer.                            *)
AskParser ==
    /\ job.at = "fetched"
    /\ \E words \in Texts, a \in Answers :
         job' = [job EXCEPT
                   !.at = "answered", !.asked = a.action,
                   !.signal = Normalized(a, UsableFallback(words, job.fresh), TRUE)]
    /\ UNCHANGED << outside, lock, archives, ledger, lockRows >>

(* run_tradingagents_candidate: the graph decides if all its stages        *)
(* answered; if one did not, the parser model is asked as in other modes.  *)
AskGraph ==
    /\ job.at = "fetched" /\ mode = "tradingagents_candidate"
    /\ \E words \in Texts, g \in Graphs :
         job' = [job EXCEPT
                   !.at = "answered", !.asked = "graph",
                   !.signal = Normalized(CandidateAnswer(g),
                                         UsableFallback(words, job.fresh), FALSE)]
    /\ UNCHANGED << outside, lock, archives, ledger, lockRows >>

(* _request_json_completion brings no JSON after its retry: HOLD, without  *)
(* a validator.                                                            *)
NoAnswer ==
    /\ job.at = "fetched"
    /\ job' = [job EXCEPT !.at = "parsed", !.signal = HoldSignal("pending")]
    /\ UNCHANGED << outside, lock, archives, ledger, lockRows >>

(* The validator, the price guard and the lock, which applies on the day   *)
(* of this step; its file may fail to be written.  The prices were read    *)
(* with the snapshot and are used here for the first time.                 *)
Review ==
    /\ job.at = "answered"
    /\ \E r \in Reviews, view \in Views :
         LET signal == Guarded(Reviewed(job.signal, r), Side(PriceBias(view)))
             signature == Signature(job.rows, Tracked)
             policy == LockPolicy(lock, signal, signature, day)
             next == [day |-> day, side |-> signal.action, signature |-> signature]
         IN  IF job.dry
             THEN /\ job' = [job EXCEPT !.at = "parsed", !.signal = signal]
                  /\ UNCHANGED << lock, lockRows >>
             ELSE /\ job' = [job EXCEPT !.at = "parsed",
                                        !.signal = Persisted(signal, policy)]
                  /\ \/ Locks(policy) /\ lock' = next /\ lockRows' = job.rows
                     \/ UNCHANGED << lock, lockRows >>
    /\ UNCHANGED << outside, archives, ledger >>

(* A dry run ends here; write_brief raises when its model cannot be        *)
(* reached, which ends the run with the lock set and nothing published.    *)
Stops ==
    /\ job.at = "parsed"
    /\ job' = NoJob
    /\ UNCHANGED << outside, lock, archives, ledger, lockRows >>

(* write_brief, write_evidence_pack, and _archive_signal_run in the        *)
(* baseline mode only.                                                     *)
Archive ==
    /\ job.at = "parsed" /\ ~job.dry
    /\ job' = [job EXCEPT !.at = "archived"]
    /\ archives' = IF mode = "baseline" THEN << job.rows >> \o archives ELSE archives
    /\ UNCHANGED << outside, lock, ledger, lockRows >>

(* write_signal.                                                           *)
Publish ==
    /\ job.at = "archived"
    /\ job' = [job EXCEPT !.at = "published"]
    /\ UNCHANGED << outside, lock, archives, ledger, lockRows >>

(* _append_cost_ledger_entry.                                              *)
BookCost ==
    /\ job.at = "published"
    /\ ledger' = ledger + 1
    /\ job' = NoJob
    /\ UNCHANGED << outside, lock, archives, lockRows >>

JobDies ==
    /\ job.at # "idle"
    /\ job' = NoJob
    /\ UNCHANGED << outside, lock, archives, ledger, lockRows >>

JobNext ==
    \/ NewDay
    \/ \E s \in News : Publishes(s)
    \/ \E s \in News \cap Treasury : Appears(s)
    \/ Start \/ Leaves \/ Fetch \/ AskParser \/ AskGraph \/ NoAnswer
    \/ Review \/ Stops \/ Archive \/ Publish \/ BookCost \/ JobDies

JobSpec == JobInit /\ [][JobNext]_jobVars

-----------------------------------------------------------------------------
(* properties *)

Decided == job.at \in {"answered", "parsed", "archived", "published"}
Row == [seen : Nat, change : Changes, via : {"fred", "h15", "archive"}]
Rows(f) == DOMAIN f \subseteq Series /\ \A s \in DOMAIN f : f[s] \in Row

(* What the files and a decided run hold: a HOLD has no distances, a       *)
(* direction has the asset's geometry, a confidence is a share.            *)
JobTypes ==
    /\ day \in 0..LastDay /\ ledger \in 0..runs /\ runs \in 0..MaxRuns
    /\ lock.day \in 0..LastDay \cup {None}
    /\ lock.side \in Directions \cup {"NEUTRAL"}
    /\ \A k \in DOMAIN archives : Rows(archives[k])
    /\ Decided =>
         LET g == job.signal
         IN  /\ Rows(job.rows)
             /\ g.confidence \in 0..100
             /\ g.action = "HOLD" => g.stop = 0 /\ g.target = 0
             /\ g.action # "HOLD" =>
                  /\ g.action \in Directions
                  /\ g.stop \in MinStop..MaxStop
                  /\ 2 * g.target \in 3 * g.stop - 1..5 * g.stop

(* Weekdays after a and up to b, counted one by one.                       *)
WeekdaysBetween(a, b) == Cardinality({ d \in a + 1..b : d % 7 < 5 })

(* A run decides for a direction only on inputs that carry it: in a live   *)
(* window at most one series is missing and fewer than three daily ones    *)
(* are a week old, whatever mix of FRED, H.15 and archives they came from; *)
(* no daily row that was fetched is more than two business days old; the   *)
(* calendar, if it was read, shows no decision today; and where the model  *)
(* said HOLD every row is fresh from FRED.                                 *)
DirectionHasFreshInputs ==
    Decided /\ job.signal.action # "HOLD" =>
      LET rows == job.rows
          daily == DOMAIN rows \cap Daily
      IN  /\ job.window \in Active =>
               /\ Cardinality(Series \ DOMAIN rows) <= 1
               /\ Cardinality({ s \in daily : job.made - rows[s].seen >= 7 }) <= 2
          /\ \A s \in daily : rows[s].via # "archive" =>
               WeekdaysBetween(rows[s].seen, job.made) <= 2
          /\ job.made \in Meetings => job.fresh.meeting = "unknown"
          /\ job.asked = "HOLD" =>
               DOMAIN rows = Series /\ \A s \in Series : rows[s].via = "fred"

(* The direction of a day turns only on news: the lock changes sides       *)
(* within a day only if a tracked series that the lock had read has turned *)
(* in an observation newer than the lock's, in a row of the other          *)
(* publisher, which may be ahead or behind, or in one an archive supplied. *)
LockFollowsMacro ==
    [][ (lock'.day = lock.day /\ lock'.side # lock.side) =>
          \E s \in Tracked \cap DOMAIN lockRows \cap DOMAIN lockRows' :
            /\ Sign(lockRows'[s].change) = -Sign(lockRows[s].change)
            /\ Sign(lockRows[s].change) # 0
            /\ \/ lockRows'[s].seen > lockRows[s].seen
               \/ lockRows'[s].via # lockRows[s].via
               \/ lockRows'[s].via = "archive" ]_jobVars
=============================================================================
