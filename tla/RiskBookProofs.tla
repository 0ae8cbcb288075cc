--------------------------- MODULE RiskBookProofs ---------------------------
(***************************************************************************)
(* Proofs about RiskBook for every account, every limit, every length of a *)
(* week and every number of days and trades.                               *)
(***************************************************************************)
EXTENDS RiskBook, TLAPS

-----------------------------------------------------------------------------
(* What the operators of RiskRules return. *)

(* _week_start_utc of a day is a day.                                      *)
LEMMA WeekStartType ==
    ASSUME NEW d \in Int PROVE WeekStart(d) \in Int
  BY RiskConfig DEF WeekStart

(* record_week_start changes the week's four fields and nothing else.      *)
LEMMA WeekStartFields ==
    ASSUME NEW s \in RiskState, NEW b \in Int, NEW d \in Int
    PROVE  LET r == record_week_start(s, b, d)
           IN  /\ r \in RiskState
               /\ r.week_start_balance = b
               /\ r.week_start_date_utc = d
               /\ r.weekly_pnl = 0
               /\ r.weekly_halted = FALSE
               /\ r.day_start_balance = s.day_start_balance
               /\ r.day_start_date_utc = s.day_start_date_utc
               /\ r.daily_pnl = s.daily_pnl
               /\ r.daily_halted = s.daily_halted
               /\ r.consecutive_losses_today = s.consecutive_losses_today
               /\ r.losses_date_utc = s.losses_date_utc
  <1> DEFINE r == record_week_start(s, b, d)
             r1 == [s EXCEPT !.week_start_balance = b]
             r2 == [r1 EXCEPT !.week_start_date_utc = d]
             r3 == [r2 EXCEPT !.weekly_pnl = 0]
             r4 == [r3 EXCEPT !.weekly_halted = FALSE]
  <1>1. r = r4
    BY Zenon DEF record_week_start
  <1>2. r1 \in RiskState
    BY DEF RiskState, Date
  <1> HIDE DEF r1
  <1>3. r2 \in RiskState
    BY <1>2 DEF RiskState, Date
  <1> HIDE DEF r2
  <1>4. r3 \in RiskState
    BY <1>3 DEF RiskState, Date
  <1> HIDE DEF r3
  <1>5. r4 \in RiskState
    BY <1>4 DEF RiskState, Date
  <1>6. /\ r.week_start_balance = b
        /\ r.week_start_date_utc = d
        /\ r.weekly_pnl = 0
        /\ r.weekly_halted = FALSE
        /\ r.day_start_balance = s.day_start_balance
        /\ r.day_start_date_utc = s.day_start_date_utc
        /\ r.daily_pnl = s.daily_pnl
        /\ r.daily_halted = s.daily_halted
        /\ r.consecutive_losses_today = s.consecutive_losses_today
        /\ r.losses_date_utc = s.losses_date_utc
    BY DEF record_week_start, RiskState, Date
  <1> QED BY <1>1, <1>5, <1>6

(* record_day_start changes the day's six fields and nothing else.         *)
LEMMA DayStartFields ==
    ASSUME NEW s \in RiskState, NEW b \in Int, NEW d \in Int
    PROVE  LET r == record_day_start(s, b, d)
           IN  /\ r \in RiskState
               /\ r.day_start_balance = b
               /\ r.day_start_date_utc = d
               /\ r.daily_pnl = 0
               /\ r.daily_halted = FALSE
               /\ r.consecutive_losses_today = 0
               /\ r.losses_date_utc = d
               /\ r.week_start_balance = s.week_start_balance
               /\ r.week_start_date_utc = s.week_start_date_utc
               /\ r.weekly_pnl = s.weekly_pnl
               /\ r.weekly_halted = s.weekly_halted
  <1> DEFINE r == record_day_start(s, b, d)
             r1 == [s EXCEPT !.day_start_balance = b]
             r2 == [r1 EXCEPT !.day_start_date_utc = d]
             r3 == [r2 EXCEPT !.daily_pnl = 0]
             r4 == [r3 EXCEPT !.daily_halted = FALSE]
             r5 == [r4 EXCEPT !.consecutive_losses_today = 0]
             r6 == [r5 EXCEPT !.losses_date_utc = d]
  <1>1. r = r6
    BY Zenon DEF record_day_start
  <1>2. r1 \in RiskState
    BY DEF RiskState, Date
  <1> HIDE DEF r1
  <1>3. r2 \in RiskState
    BY <1>2 DEF RiskState, Date
  <1> HIDE DEF r2
  <1>4. r3 \in RiskState
    BY <1>3 DEF RiskState, Date
  <1> HIDE DEF r3
  <1>5. r4 \in RiskState
    BY <1>4 DEF RiskState, Date
  <1> HIDE DEF r4
  <1>6. r5 \in RiskState
    BY <1>5 DEF RiskState, Date
  <1> HIDE DEF r5
  <1>7. r6 \in RiskState
    BY <1>6 DEF RiskState, Date
  <1>8. /\ r.day_start_balance = b
        /\ r.day_start_date_utc = d
        /\ r.daily_pnl = 0
        /\ r.daily_halted = FALSE
        /\ r.consecutive_losses_today = 0
        /\ r.losses_date_utc = d
        /\ r.week_start_balance = s.week_start_balance
        /\ r.week_start_date_utc = s.week_start_date_utc
        /\ r.weekly_pnl = s.weekly_pnl
        /\ r.weekly_halted = s.weekly_halted
    BY DEF record_day_start, RiskState, Date
  <1> QED BY <1>1, <1>7, <1>8

(* r is s with its week, and with its day, rolled to the day d: a period   *)
(* that is over starts again from the balance b, one that is not is left   *)
(* as it is.                                                               *)
WeekIsOver(s, d) ==
    \/ s.week_start_date_utc # WeekStart(d)
    \/ s.week_start_balance <= 0

WeekRolled(s, b, d, r) ==
    /\ WeekIsOver(s, d) =>
         /\ r.week_start_balance = b
         /\ r.week_start_date_utc = WeekStart(d)
         /\ r.weekly_pnl = 0
         /\ r.weekly_halted = FALSE
    /\ ~WeekIsOver(s, d) =>
         /\ r.week_start_balance = s.week_start_balance
         /\ r.week_start_date_utc = s.week_start_date_utc
         /\ r.weekly_pnl = s.weekly_pnl
         /\ r.weekly_halted = s.weekly_halted

DayRolled(s, b, d, r) ==
    /\ DayIsOver(s, d) =>
         /\ r.day_start_balance = b
         /\ r.day_start_date_utc = d
         /\ r.daily_pnl = 0
         /\ r.daily_halted = FALSE
         /\ r.consecutive_losses_today = 0
         /\ r.losses_date_utc = d
    /\ ~DayIsOver(s, d) =>
         /\ r.day_start_balance = s.day_start_balance
         /\ r.day_start_date_utc = s.day_start_date_utc
         /\ r.daily_pnl = s.daily_pnl
         /\ r.daily_halted = s.daily_halted
         /\ r.consecutive_losses_today = s.consecutive_losses_today
         /\ r.losses_date_utc = s.losses_date_utc

(* ensure_period_baselines rolls the two periods independently.            *)
LEMMA EnsureFields ==
    ASSUME NEW s \in RiskState, NEW b \in Int, NEW d \in Int
    PROVE  /\ ensure_period_baselines(s, b, d) \in RiskState
           /\ WeekRolled(s, b, d, ensure_period_baselines(s, b, d))
           /\ DayRolled(s, b, d, ensure_period_baselines(s, b, d))
  <1> DEFINE w == RollWeek(s, b, d)
             r == RollDay(w, b, d)
  <1>1. /\ w \in RiskState
        /\ WeekIsOver(s, d) =>
             /\ w.week_start_balance = b
             /\ w.week_start_date_utc = WeekStart(d)
             /\ w.weekly_pnl = 0
             /\ w.weekly_halted = FALSE
        /\ ~WeekIsOver(s, d) => w = s
        /\ w.day_start_balance = s.day_start_balance
        /\ w.day_start_date_utc = s.day_start_date_utc
        /\ w.daily_pnl = s.daily_pnl
        /\ w.daily_halted = s.daily_halted
        /\ w.consecutive_losses_today = s.consecutive_losses_today
        /\ w.losses_date_utc = s.losses_date_utc
    <2> DEFINE n == record_week_start(s, b, WeekStart(d))
    <2>1. /\ n \in RiskState
          /\ n.week_start_balance = b
          /\ n.week_start_date_utc = WeekStart(d)
          /\ n.weekly_pnl = 0
          /\ n.weekly_halted = FALSE
          /\ n.day_start_balance = s.day_start_balance
          /\ n.day_start_date_utc = s.day_start_date_utc
          /\ n.daily_pnl = s.daily_pnl
          /\ n.daily_halted = s.daily_halted
          /\ n.consecutive_losses_today = s.consecutive_losses_today
          /\ n.losses_date_utc = s.losses_date_utc
      BY WeekStartType, WeekStartFields
    <2>2. w = IF WeekIsOver(s, d) THEN n ELSE s
      BY Zenon DEF RollWeek, WeekIsOver
    <2> HIDE DEF n, w
    <2> QED BY Zenon, <2>1, <2>2
  <1> HIDE DEF w
  <1>2. DayIsOver(w, d) = DayIsOver(s, d)
    BY <1>1 DEF DayIsOver
  <1>3. /\ r \in RiskState
        /\ DayIsOver(w, d) =>
             /\ r.day_start_balance = b
             /\ r.day_start_date_utc = d
             /\ r.daily_pnl = 0
             /\ r.daily_halted = FALSE
             /\ r.consecutive_losses_today = 0
             /\ r.losses_date_utc = d
        /\ ~DayIsOver(w, d) => r = w
        /\ r.week_start_balance = w.week_start_balance
        /\ r.week_start_date_utc = w.week_start_date_utc
        /\ r.weekly_pnl = w.weekly_pnl
        /\ r.weekly_halted = w.weekly_halted
    BY <1>1, DayStartFields DEF RollDay
  <1>4. ensure_period_baselines(s, b, d) = r
    BY Zenon DEF ensure_period_baselines, w
  <1> HIDE DEF r
  <1> QED BY Zenon, <1>1, <1>2, <1>3, <1>4 DEF WeekRolled, DayRolled

(* record_trade_closed moves the day's fields to today and leaves the      *)
(* week's halt, balances and date alone.                                   *)
LEMMA CloseFields ==
    ASSUME NEW s \in RiskState, NEW pnl \in Int, NEW d \in Int,
           s.losses_date_utc # NoDate,
           s.losses_date_utc = s.day_start_date_utc
    PROVE  LET r == record_trade_closed(s, pnl, d)
               pnlBefore == IF s.losses_date_utc = d THEN s.daily_pnl ELSE 0
               runBefore == IF s.losses_date_utc = d
                            THEN s.consecutive_losses_today ELSE 0
           IN  /\ r \in RiskState
               /\ r.day_start_date_utc = d
               /\ r.losses_date_utc = d
               /\ r.daily_pnl = pnlBefore + pnl
               /\ r.consecutive_losses_today =
                    IF pnl <= 0 THEN runBefore + 1 ELSE 0
               /\ r.day_start_balance = s.day_start_balance
               /\ r.week_start_balance = s.week_start_balance
               /\ r.week_start_date_utc = s.week_start_date_utc
               /\ r.weekly_halted = s.weekly_halted
  <1> DEFINE m == maybe_reset_daily(s, d)
             m1 == [s EXCEPT !.consecutive_losses_today = 0]
             m2 == [m1 EXCEPT !.daily_halted = FALSE]
             m3 == [m2 EXCEPT !.daily_pnl = 0]
             m4 == [m3 EXCEPT !.day_start_date_utc = d]
             m5 == [m4 EXCEPT !.losses_date_utc = d]
  <1>1. m = IF s.losses_date_utc # d THEN m5 ELSE s
    BY Zenon DEF maybe_reset_daily
  <1>2. m5 \in RiskState
    <2>1. m1 \in RiskState
      BY DEF RiskState, Date
    <2> HIDE DEF m1
    <2>2. m2 \in RiskState
      BY <2>1 DEF RiskState, Date
    <2> HIDE DEF m2
    <2>3. m3 \in RiskState
      BY <2>2 DEF RiskState, Date
    <2> HIDE DEF m3
    <2>4. m4 \in RiskState
      BY <2>3 DEF RiskState, Date
    <2> HIDE DEF m4
    <2> QED BY <2>4 DEF RiskState, Date
  <1>3. /\ m5.day_start_date_utc = d
        /\ m5.losses_date_utc = d
        /\ m5.daily_pnl = 0
        /\ m5.consecutive_losses_today = 0
        /\ m5.day_start_balance = s.day_start_balance
        /\ m5.week_start_balance = s.week_start_balance
        /\ m5.week_start_date_utc = s.week_start_date_utc
        /\ m5.weekly_halted = s.weekly_halted
    BY DEF RiskState, Date
  <1> HIDE DEF m5
  <1>4. /\ m \in RiskState
        /\ m.day_start_date_utc = d
        /\ m.losses_date_utc = d
        /\ m.daily_pnl = IF s.losses_date_utc = d THEN s.daily_pnl ELSE 0
        /\ m.consecutive_losses_today =
             IF s.losses_date_utc = d THEN s.consecutive_losses_today ELSE 0
        /\ m.day_start_balance = s.day_start_balance
        /\ m.week_start_balance = s.week_start_balance
        /\ m.week_start_date_utc = s.week_start_date_utc
        /\ m.weekly_halted = s.weekly_halted
    <2> HIDE DEF m
    <2> QED BY Zenon, <1>1, <1>2, <1>3
  <1> HIDE DEF m
  <1> DEFINE r == AddClose(m, pnl, d)
             streak == IF pnl <= 0 THEN m.consecutive_losses_today + 1 ELSE 0
             halt == m.daily_halted /\ pnl <= 0
             r1 == [m EXCEPT !.weekly_pnl = @ + pnl]
             r2 == [r1 EXCEPT !.daily_pnl = @ + pnl]
             r3 == [r2 EXCEPT !.consecutive_losses_today =
                                 IF pnl <= 0 THEN @ + 1 ELSE 0]
             r4 == [r3 EXCEPT !.daily_halted = @ /\ pnl <= 0]
             r5 == [r4 EXCEPT !.losses_date_utc = d]
  <1>5. r = r5
    BY Zenon DEF AddClose
  <1>6. r5 \in RiskState
    <2>1. r1 \in RiskState
      BY <1>4 DEF RiskState, Date
    <2> HIDE DEF r1
    <2>2. r2 \in RiskState
      BY <2>1 DEF RiskState, Date
    <2> HIDE DEF r2
    <2>3. r3 \in RiskState
      BY <2>2 DEF RiskState, Date
    <2> HIDE DEF r3
    <2>4. r4 \in RiskState
      BY <2>3 DEF RiskState, Date
    <2> HIDE DEF r4
    <2> QED BY <2>4 DEF RiskState, Date
  <1>7. /\ r.day_start_date_utc = m.day_start_date_utc
        /\ r.losses_date_utc = d
        /\ r.daily_pnl = m.daily_pnl + pnl
        /\ r.consecutive_losses_today = streak
        /\ r.day_start_balance = m.day_start_balance
        /\ r.week_start_balance = m.week_start_balance
        /\ r.week_start_date_utc = m.week_start_date_utc
        /\ r.weekly_halted = m.weekly_halted
    BY <1>4 DEF AddClose, RiskState, Date
  <1>8. record_trade_closed(s, pnl, d) = r
    BY Zenon DEF record_trade_closed, m
  <1> HIDE DEF r, r5
  <1> QED BY Zenon, <1>4, <1>5, <1>6, <1>7, <1>8

(* LatchHalts only ever raises the two halts.                              *)
LEMMA LatchFields ==
    ASSUME NEW s \in RiskState
    PROVE  LET r == LatchHalts(s)
           IN  /\ r \in RiskState
               /\ r.weekly_halted = (s.weekly_halted \/ WeeklyLimitHit(s))
               /\ s.daily_halted => r.daily_halted
               /\ r.week_start_balance = s.week_start_balance
               /\ r.week_start_date_utc = s.week_start_date_utc
               /\ r.weekly_pnl = s.weekly_pnl
               /\ r.day_start_balance = s.day_start_balance
               /\ r.day_start_date_utc = s.day_start_date_utc
               /\ r.daily_pnl = s.daily_pnl
               /\ r.consecutive_losses_today = s.consecutive_losses_today
               /\ r.losses_date_utc = s.losses_date_utc
  <1> DEFINE w == s.weekly_halted \/ WeeklyLimitHit(s)
             d == \/ s.daily_halted
                  \/ /\ ~(WeeklyLimitHit(s) \/ s.weekly_halted)
                     /\ DailyLimitHit(s) \/ LossStreakHit(s)
             r == LatchHalts(s)
  <1>1. w \in BOOLEAN
    BY Zenon DEF RiskState, WeeklyLimitHit
  <1>2. d \in BOOLEAN
    BY Zenon DEF RiskState, DailyLimitHit
  <1>3. r = [s EXCEPT !.weekly_halted = w, !.daily_halted = d]
    BY Zenon DEF LatchHalts
  <1>4. s.daily_halted => d
    BY Zenon
  <1> HIDE DEF w, d, r
  <1>5. /\ r \in RiskState
        /\ r.weekly_halted = w
        /\ r.daily_halted = d
        /\ r.week_start_balance = s.week_start_balance
        /\ r.week_start_date_utc = s.week_start_date_utc
        /\ r.weekly_pnl = s.weekly_pnl
        /\ r.day_start_balance = s.day_start_balance
        /\ r.day_start_date_utc = s.day_start_date_utc
        /\ r.daily_pnl = s.daily_pnl
        /\ r.consecutive_losses_today = s.consecutive_losses_today
        /\ r.losses_date_utc = s.losses_date_utc
    BY <1>1, <1>2, <1>3 DEF RiskState
  <1> QED BY Zenon, <1>4, <1>5 DEF w, d, r
-----------------------------------------------------------------------------
(* When a rolled book is over a limit. *)

(* A period that has just been rolled is within its limits whatever the    *)
(* balance it starts from, so being over a limit is a fact about the book  *)
(* and the day alone.                                                      *)
LEMMA FundsDoNotMatter ==
    ASSUME NEW s \in RiskState, NEW d \in Int,
           NEW f \in Nat \ {0}, NEW g \in Nat \ {0}, OverLimit(s, f, d)
    PROVE  OverLimit(s, g, d)
  <1> DEFINE p == ensure_period_baselines(s, f, d)
             q == ensure_period_baselines(s, g, d)
  <1>1. /\ p \in RiskState /\ WeekRolled(s, f, d, p) /\ DayRolled(s, f, d, p)
        /\ q \in RiskState /\ WeekRolled(s, g, d, q) /\ DayRolled(s, g, d, q)
    BY EnsureFields
  <1>4. LossStop(p)
    BY DEF OverLimit
  <1>6. LossStop(q) => OverLimit(s, g, d)
    BY DEF OverLimit
  <1> HIDE DEF p, q
  <1>2. WeeklyLimitHit(p) \/ p.weekly_halted
          => WeeklyLimitHit(q) \/ q.weekly_halted
    <2>1. CASE WeekIsOver(s, d)
      <3>1. p.weekly_pnl = 0 /\ p.weekly_halted = FALSE
        BY Zenon, <1>1, <2>1 DEF WeekRolled
      <3>2. ~(WeeklyLimitHit(p) \/ p.weekly_halted)
        BY <3>1 DEF WeeklyLimitHit
      <3> QED BY <3>2
    <2>2. CASE ~WeekIsOver(s, d)
      <3>1. /\ p.week_start_balance = s.week_start_balance
            /\ p.weekly_pnl = s.weekly_pnl
            /\ p.weekly_halted = s.weekly_halted
        BY Zenon, <1>1, <2>2 DEF WeekRolled
      <3>2. /\ q.week_start_balance = s.week_start_balance
            /\ q.weekly_pnl = s.weekly_pnl
            /\ q.weekly_halted = s.weekly_halted
        BY Zenon, <1>1, <2>2 DEF WeekRolled
      <3> QED BY Zenon, <3>1, <3>2 DEF WeeklyLimitHit
    <2> QED BY <2>1, <2>2
  <1>3. DailyLimitHit(p) \/ p.daily_halted \/ LossStreakHit(p)
          => DailyLimitHit(q) \/ q.daily_halted \/ LossStreakHit(q)
    <2>1. CASE DayIsOver(s, d)
      <3>1. /\ p.daily_pnl = 0 /\ p.daily_halted = FALSE
            /\ p.consecutive_losses_today = 0
        BY Zenon, <1>1, <2>1 DEF DayRolled
      <3>2. ~(DailyLimitHit(p) \/ p.daily_halted \/ LossStreakHit(p))
        BY <3>1, RiskConfig DEF DailyLimitHit, LossStreakHit
      <3> QED BY <3>2
    <2>2. CASE ~DayIsOver(s, d)
      <3>1. /\ p.day_start_balance = s.day_start_balance
            /\ p.daily_pnl = s.daily_pnl
            /\ p.daily_halted = s.daily_halted
            /\ p.consecutive_losses_today = s.consecutive_losses_today
        BY Zenon, <1>1, <2>2 DEF DayRolled
      <3>2. /\ q.day_start_balance = s.day_start_balance
            /\ q.daily_pnl = s.daily_pnl
            /\ q.daily_halted = s.daily_halted
            /\ q.consecutive_losses_today = s.consecutive_losses_today
        BY Zenon, <1>1, <2>2 DEF DayRolled
      <3> QED BY Zenon, <3>1, <3>2 DEF DailyLimitHit, LossStreakHit
    <2> QED BY <2>1, <2>2
  <1> QED BY Zenon, <1>2, <1>3, <1>4, <1>6 DEF LossStop

(* What can_trade leaves behind is still over a limit if the book was: a   *)
(* gate that refused keeps refusing.                                       *)
LEMMA GateKeepsStop ==
    ASSUME NEW s \in RiskState, NEW d \in Int, NEW f \in Nat \ {0},
           NEW c \in Nat, OverLimit(s, f, d)
    PROVE  LET v == can_trade(s, f, c, d)
           IN  v.reason # "OK" /\ OverLimit(v.state, f, d)
  <1> DEFINE r == ensure_period_baselines(s, f, d)
             h == LatchHalts(r)
             e == ensure_period_baselines(h, f, d)
  <1>1. /\ r \in RiskState
        /\ r.week_start_date_utc = WeekStart(d)
        /\ r.week_start_balance > 0
        /\ r.day_start_date_utc = d
        /\ r.day_start_balance > 0
    <2>1. r \in RiskState /\ WeekRolled(s, f, d, r) /\ DayRolled(s, f, d, r)
      BY EnsureFields
    <2> HIDE DEF r
    <2>2. r.week_start_date_utc = WeekStart(d) /\ r.week_start_balance > 0
      BY <2>1 DEF WeekRolled, WeekIsOver, RiskState
    <2>3. r.day_start_date_utc = d /\ r.day_start_balance > 0
      BY <2>1 DEF DayRolled, DayIsOver, RiskState
    <2> QED BY <2>1, <2>2, <2>3
  <1>2. LossStop(r)
    BY DEF OverLimit
  <1>3. GateReason(r, c) # "OK"
    <2> HIDE DEF r
    <2> QED BY <1>2 DEF GateReason, LossStop
  <1>4. /\ h \in RiskState
        /\ h.weekly_halted = (r.weekly_halted \/ WeeklyLimitHit(r))
        /\ r.daily_halted => h.daily_halted
        /\ h.week_start_balance = r.week_start_balance
        /\ h.week_start_date_utc = r.week_start_date_utc
        /\ h.weekly_pnl = r.weekly_pnl
        /\ h.day_start_balance = r.day_start_balance
        /\ h.day_start_date_utc = r.day_start_date_utc
        /\ h.daily_pnl = r.daily_pnl
        /\ h.consecutive_losses_today = r.consecutive_losses_today
    <2> HIDE DEF r
    <2> QED BY <1>1, LatchFields
  <1> HIDE DEF r
  <1>5. LossStop(h)
    <2> HIDE DEF h
    <2> QED BY Zenon, <1>2, <1>4
            DEF LossStop, WeeklyLimitHit, DailyLimitHit, LossStreakHit
  <1> HIDE DEF h
  <1>6. /\ e \in RiskState
        /\ e.weekly_halted = h.weekly_halted
        /\ e.daily_halted = h.daily_halted
        /\ e.week_start_balance = h.week_start_balance
        /\ e.weekly_pnl = h.weekly_pnl
        /\ e.day_start_balance = h.day_start_balance
        /\ e.daily_pnl = h.daily_pnl
        /\ e.consecutive_losses_today = h.consecutive_losses_today
    <2>1. /\ ~DayIsOver(h, d)
          /\ ~WeekIsOver(h, d)
      BY <1>1, <1>4 DEF DayIsOver, WeekIsOver, RiskState
    <2>2. e \in RiskState /\ WeekRolled(h, f, d, e) /\ DayRolled(h, f, d, e)
      BY <1>4, EnsureFields
    <2> HIDE DEF e
    <2> QED BY Zenon, <2>1, <2>2 DEF WeekRolled, DayRolled
  <1>7. LossStop(e)
    <2> HIDE DEF e
    <2> QED BY Zenon, <1>5, <1>6
            DEF LossStop, WeeklyLimitHit, DailyLimitHit, LossStreakHit
  <1>8. can_trade(s, f, c, d) = [reason |-> GateReason(r, c), state |-> h]
    BY Zenon DEF can_trade, r, h
  <1> QED BY <1>3, <1>7, <1>8 DEF OverLimit

-----------------------------------------------------------------------------
(* The tally of a day. *)

(* The book r agrees with the history h up to the day t: the strengthening *)
(* of DailyTally that a step preserves.  A book may be days old, in memory *)
(* or on disk, so the history must be empty after its day, and a baseline  *)
(* is always positive, or the next gate would restart the day.             *)
Tally(r, h, t) ==
    /\ r.day_start_date_utc \in Days
    /\ r.day_start_date_utc <= t
    /\ r.losses_date_utc = r.day_start_date_utc
    /\ r.day_start_balance > 0
    /\ r.week_start_balance > 0
    /\ r.daily_pnl = h.pnl[r.day_start_date_utc]
    /\ r.consecutive_losses_today = h.run[r.day_start_date_utc]
    /\ \A d \in Days : d > r.day_start_date_utc => h.pnl[d] = 0 /\ h.run[d] = 0

(* A day of the instance is a date, and "" is not one.                     *)
LEMMA DaysAreInts == Days \subseteq Int /\ NoDate \notin Days
  BY BookConstants DEF Days, NoDate

(* Nothing is recorded for a day that has not come.                        *)
LEMMA QuietAhead ==
    ASSUME NEW s \in RiskState, NEW h \in History, NEW t \in Days,
           Tally(s, h, t), NEW d \in Days, d > t
    PROVE  h.pnl[d] = 0 /\ h.run[d] = 0
  <1>1. d > s.day_start_date_utc
    BY DaysAreInts DEF Tally, RiskState, Date
  <1> QED BY <1>1 DEF Tally

(* Rolling the periods keeps the tally ...                                 *)
LEMMA RollTally ==
    ASSUME NEW s \in RiskState, NEW h \in History, today \in Days,
           NEW b \in Nat \ {0}, Tally(s, h, today)
    PROVE  LET r == ensure_period_baselines(s, b, today)
           IN  r \in RiskState /\ SeeRoll(h, s) \in History
               /\ Tally(r, SeeRoll(h, s), today)
  <1> DEFINE r == ensure_period_baselines(s, b, today)
             g == SeeRoll(h, s)
  <1>1. g \in History /\ g.pnl = h.pnl /\ g.run = h.run
    BY DEF SeeRoll, History
  <1>2. today \in Int
    BY DaysAreInts
  <1>3. /\ r \in RiskState
        /\ WeekRolled(s, b, today, r) /\ DayRolled(s, b, today, r)
    BY <1>2, EnsureFields
  <1> HIDE DEF r
  <1>4. r.week_start_balance > 0
    BY <1>3 DEF WeekRolled, WeekIsOver, RiskState
  <1>5. Tally(r, h, today)
    <2>1. CASE DayIsOver(s, today)
      <3>1. /\ r.day_start_balance = b
            /\ r.day_start_date_utc = today
            /\ r.daily_pnl = 0
            /\ r.consecutive_losses_today = 0
            /\ r.losses_date_utc = today
        BY Zenon, <1>3, <2>1 DEF DayRolled
      <3>2. s.day_start_date_utc < today
        BY <1>2, <2>1, DaysAreInts DEF DayIsOver, Tally, RiskState, Date
      <3>3. h.pnl[today] = 0 /\ h.run[today] = 0
        BY <3>2 DEF Tally
      <3>4. \A d \in Days : d > today => h.pnl[d] = 0 /\ h.run[d] = 0
        BY QuietAhead
      <3> QED BY <1>2, <1>4, <3>1, <3>3, <3>4 DEF Tally
    <2>2. CASE ~DayIsOver(s, today)
      <3>1. /\ r.day_start_balance = s.day_start_balance
            /\ r.day_start_date_utc = s.day_start_date_utc
            /\ r.daily_pnl = s.daily_pnl
            /\ r.consecutive_losses_today = s.consecutive_losses_today
            /\ r.losses_date_utc = s.losses_date_utc
        BY Zenon, <1>3, <2>2 DEF DayRolled
      <3> QED BY <1>4, <3>1 DEF Tally
    <2> QED BY <2>1, <2>2
  <1> HIDE DEF g
  <1>6. Tally(r, g, today)
    BY Zenon, <1>1, <1>5 DEF Tally
  <1> QED BY <1>1, <1>3, <1>6 DEF r, g

(* ... starting a new book establishes it ...                              *)
LEMMA NewTally ==
    ASSUME today \in Days, NEW b \in Nat \ {0}
    PROVE  LET r == ensure_period_baselines(NewRiskState, b, today)
               h == SeeRoll(NothingSeen, NewRiskState)
           IN  r \in RiskState /\ h \in History /\ Tally(r, h, today)
  <1> DEFINE r == ensure_period_baselines(NewRiskState, b, today)
             h == SeeRoll(NothingSeen, NewRiskState)
  <1>1. today \in Int /\ 0 \in Days
    BY DaysAreInts, BookConstants DEF Days
  <1>2. NewRiskState \in RiskState
    BY DEF NewRiskState, RiskState, Date, NoDate
  <1>3. NothingSeen \in History
    BY <1>1 DEF NothingSeen, History
  <1>4. h = [NothingSeen EXCEPT !.based = today]
    BY DEF SeeRoll, DayIsOver, NewRiskState, NoDate
  <1>5. h \in History /\ h.pnl = NothingSeen.pnl /\ h.run = NothingSeen.run
    BY <1>3, <1>4 DEF History
  <1>6. DayIsOver(NewRiskState, today)
    BY DEF DayIsOver, NewRiskState
  <1>7. WeekIsOver(NewRiskState, today)
    BY DEF WeekIsOver, NewRiskState
  <1>8. /\ r \in RiskState
        /\ WeekRolled(NewRiskState, b, today, r)
        /\ DayRolled(NewRiskState, b, today, r)
    BY <1>1, <1>2, EnsureFields
  <1> HIDE DEF r, h
  <1>9. /\ r.day_start_balance = b
        /\ r.day_start_date_utc = today
        /\ r.daily_pnl = 0
        /\ r.consecutive_losses_today = 0
        /\ r.losses_date_utc = today
        /\ r.week_start_balance = b
    BY Zenon, <1>6, <1>7, <1>8 DEF WeekRolled, DayRolled
  <1>10. Tally(r, h, today)
    BY <1>1, <1>5, <1>9 DEF Tally, NothingSeen
  <1> QED BY <1>5, <1>8, <1>10 DEF r, h

(* ... and so does recording a close, on the book's day or a later one.    *)
LEMMA CloseTally ==
    ASSUME NEW s \in RiskState, NEW h \in History, today \in Days,
           NEW pnl \in Int, Tally(s, h, today)
    PROVE  LET r == record_trade_closed(s, pnl, today)
           IN  r \in RiskState /\ SeeClose(h, pnl) \in History
               /\ Tally(r, SeeClose(h, pnl), today)
               /\ r.weekly_halted = s.weekly_halted
  <1> DEFINE r == record_trade_closed(s, pnl, today)
             g == SeeClose(h, pnl)
             before == IF s.losses_date_utc = today THEN s.daily_pnl ELSE 0
             streak == IF s.losses_date_utc = today
                       THEN s.consecutive_losses_today ELSE 0
  <1>1. today \in Int /\ s.losses_date_utc # NoDate
        /\ s.losses_date_utc = s.day_start_date_utc
    BY DaysAreInts DEF Tally
  <1>2. /\ r \in RiskState
        /\ r.day_start_date_utc = today
        /\ r.losses_date_utc = today
        /\ r.daily_pnl = before + pnl
        /\ r.consecutive_losses_today = IF pnl <= 0 THEN streak + 1 ELSE 0
        /\ r.day_start_balance = s.day_start_balance
        /\ r.week_start_balance = s.week_start_balance
        /\ r.weekly_halted = s.weekly_halted
    BY <1>1, CloseFields
  <1>3. before = h.pnl[today] /\ streak = h.run[today]
    BY <1>1, DaysAreInts DEF Tally, RiskState, Date
  <1>4. h.pnl \in [Days -> Int] /\ h.run \in [Days -> Nat]
    BY DEF History
  <1>5. /\ g.pnl = [h.pnl EXCEPT ![today] = @ + pnl]
        /\ g.run = [h.run EXCEPT ![today] = IF pnl <= 0 THEN @ + 1 ELSE 0]
        /\ g.based = h.based
    BY DEF SeeClose, History
  <1>6. g.pnl \in [Days -> Int] /\ g.run \in [Days -> Nat]
    BY <1>4, <1>5
  <1>7. g \in History
    <2> DEFINE g1 == [h EXCEPT !.pnl = g.pnl]
               g2 == [g1 EXCEPT !.run = g.run]
    <2>1. g = g2
      BY <1>5 DEF SeeClose, History
    <2> HIDE DEF g
    <2>2. g1 \in History
      BY <1>6 DEF History
    <2> HIDE DEF g1
    <2>3. g2 \in History
      BY <1>6, <2>2 DEF History
    <2> QED BY <2>1, <2>3
  <1>8. \A d \in Days : d > today => g.pnl[d] = 0 /\ g.run[d] = 0
    <2> HIDE DEF g
    <2> TAKE d \in Days
    <2> HAVE d > today
    <2>1. h.pnl[d] = 0 /\ h.run[d] = 0
      BY QuietAhead
    <2>2. d # today
      BY <1>1, DaysAreInts
    <2> QED BY <1>4, <1>5, <2>1, <2>2
  <1>9. g.pnl[today] = before + pnl
        /\ g.run[today] = IF pnl <= 0 THEN streak + 1 ELSE 0
    BY <1>3, <1>4, <1>5
  <1> HIDE DEF r, g, before, streak
  <1>10. Tally(r, g, today)
    BY <1>1, <1>2, <1>8, <1>9 DEF Tally
  <1> QED BY <1>2, <1>7, <1>10 DEF r, g

-----------------------------------------------------------------------------
(* The inductive invariant. *)

(* The books in memory, in a save in flight and on disk each agree with    *)
(* the history that travels with them.                                     *)
Tallies ==
    /\ Tally(book, seen, today)
    /\ copy # NoFile => Tally(copy.risk, copy.seen, today)
    /\ disk # NoFile => Tally(disk.risk, disk.seen, today)

(* After an order sent over a limit no entry is approved: the book is      *)
(* still over it and the poller waits for nothing.                         *)
LateStops ==
    /\ ~up => poller = "idle"
    /\ late <= 1
    /\ late >= 1 => OverLimit(book, account, today) /\ poller = "idle"

BookInv == TypeOK /\ Tallies /\ LateStops

(* What a save copies is a well-formed file holding the book.             *)
LEMMA CopiedType ==
    ASSUME TypeOK
    PROVE  /\ Copied \in Saved
           /\ Copied.risk = book
           /\ Copied.seen = seen
  BY DEF TypeOK, Copied, Saved

(* A file that exists holds a risk state and its history.                 *)
LEMMA SavedParts ==
    ASSUME NEW f \in Saved, f # NoFile
    PROVE  f.risk \in RiskState /\ f.seen \in History
  BY DEF Saved

(* A tally of a day is a tally of every later day.                         *)
LEMMA TallyLater ==
    ASSUME NEW r \in RiskState, NEW h \in History, NEW t \in Days,
           NEW u \in Days, t <= u, Tally(r, h, t)
    PROVE  Tally(r, h, u)
  BY DaysAreInts DEF Tally, RiskState, Date

(* startup on an empty directory establishes the invariant.                *)
LEMMA InitInv == Init => BookInv
  <1> SUFFICES ASSUME Init PROVE BookInv
    OBVIOUS
  <1>1. today \in Days /\ today = 0
    BY BookConstants DEF Init, Days
  <1>2. balance \in Nat \ {0}
    BY BookConstants DEF Init
  <1>3. SeeRoll(NothingSeen, NewRiskState) = NothingSeen
    BY <1>1 DEF SeeRoll, NothingSeen
  <1>4. book \in RiskState /\ seen \in History /\ Tally(book, seen, today)
    BY <1>1, <1>2, <1>3, NewTally DEF Init
  <1>5. TypeOK
    BY <1>1, <1>2, <1>4 DEF Init, TypeOK, Saved
  <1>6. Tallies
    BY <1>4 DEF Tallies, Init
  <1>7. LateStops
    BY DEF LateStops, Init
  <1> QED BY <1>5, <1>6, <1>7 DEF BookInv

(* Steps that leave the book, its history, its copies and the day alone    *)
(* keep the tallies.                                                       *)
LEMMA TalliesUnchanged ==
    ASSUME Tallies, UNCHANGED << book, seen, today, copy, disk >>
    PROVE  Tallies'
  BY DEF Tallies, Tally

(* The account changes to another positive balance, nothing else does.     *)
LEMMA LateUnchanged ==
    ASSUME TypeOK, TypeOK', LateStops,
           UNCHANGED << book, today, up, poller, late >>
    PROVE  LateStops'
  <1>1. today \in Int
    BY DaysAreInts DEF TypeOK
  <1>2. OverLimit(book, account, today) => OverLimit(book, account', today)
    BY <1>1, FundsDoNotMatter DEF TypeOK
  <1>3. OverLimit(book, account', today) => OverLimit(book, account, today)'
    BY DEF OverLimit, LossStop, WeeklyLimitHit, DailyLimitHit, LossStreakHit
  <1> QED BY <1>2, <1>3 DEF LateStops

(* NextDay preserves the invariant: the books only grow older.             *)
LEMMA NextDayInv ==
    ASSUME BookInv, NextDay PROVE BookInv'
  <1> USE DEF BookInv
  <1>1. TypeOK'
    BY DaysAreInts, BookConstants DEF NextDay, TypeOK, Days, tasks, file
  <1>2. Tallies'
    <2>1. today \in Days /\ today' \in Days /\ today <= today'
      BY <1>1, DaysAreInts DEF TypeOK, NextDay
    <2>2. Tally(book, seen, today')
      BY <2>1, TallyLater DEF TypeOK, Tallies
    <2>3. copy # NoFile => Tally(copy.risk, copy.seen, today')
      BY <2>1, TallyLater, SavedParts DEF TypeOK, Tallies
    <2>4. disk # NoFile => Tally(disk.risk, disk.seen, today')
      BY <2>1, TallyLater, SavedParts DEF TypeOK, Tallies
    <2> QED BY <2>2, <2>3, <2>4 DEF Tallies, Tally, NextDay, file
  <1>3. LateStops'
    BY DEF LateStops, NextDay, TypeOK, OverLimit, tasks
  <1> QED BY <1>1, <1>2, <1>3

(* HandleClose preserves the invariant: record_trade_closed and the        *)
(* history move together.                                                  *)
LEMMA HandleCloseInv ==
    ASSUME BookInv, HandleClose PROVE BookInv'
  <1> USE DEF BookInv
  <1>1. Head(events) \in Int /\ Tail(events) \in Seq(Int)
    BY DEF TypeOK, HandleClose
  <1>2. /\ book' \in RiskState /\ seen' \in History
        /\ Tally(book', seen', today)
    BY <1>1, CloseTally DEF TypeOK, Tallies, HandleClose
  <1>3. TypeOK'
    BY <1>1, <1>2 DEF TypeOK, HandleClose, file
  <1>4. Tallies'
    BY <1>2 DEF Tallies, Tally, HandleClose, file
  <1>5. LateStops'
    BY DEF LateStops, HandleClose, TypeOK, OverLimit
  <1> QED BY <1>3, <1>4, <1>5

(* Latching a halt does not touch what the tally reads.                    *)
LEMMA LatchTally ==
    ASSUME NEW r \in RiskState, NEW h, NEW t, Tally(r, h, t)
    PROVE  Tally(LatchHalts(r), h, t)
  <1> DEFINE l == LatchHalts(r)
  <1>1. /\ l.week_start_balance = r.week_start_balance
        /\ l.day_start_balance = r.day_start_balance
        /\ l.day_start_date_utc = r.day_start_date_utc
        /\ l.daily_pnl = r.daily_pnl
        /\ l.consecutive_losses_today = r.consecutive_losses_today
        /\ l.losses_date_utc = r.losses_date_utc
    BY LatchFields
  <1> HIDE DEF l
  <1>2. Tally(l, h, t)
    BY Zenon, <1>1 DEF Tally
  <1> QED BY <1>2 DEF l

(* EnvironmentGate preserves the invariant: after a late order the gate    *)
(* refuses and the book stays over its limit.                              *)
LEMMA EnvironmentGateInv ==
    ASSUME BookInv, EnvironmentGate PROVE BookInv'
  <1> USE DEF BookInv
  <1> DEFINE r == ensure_period_baselines(book, account, today)
             v == can_trade(book, account, open_position_count, today)
  <1>1. /\ r \in RiskState /\ SeeRoll(seen, book) \in History
        /\ Tally(r, SeeRoll(seen, book), today)
    BY RollTally DEF TypeOK, Tallies
  <1>2. v = [ reason |-> GateReason(r, open_position_count),
              state  |-> LatchHalts(r) ]
    BY Zenon DEF can_trade
  <1>3. /\ book' = v.state
        /\ poller' = IF v.reason = "OK" THEN "news" ELSE "idle"
        /\ seen' = SeeRoll(seen, book)
    BY DEF EnvironmentGate
  <1> HIDE DEF r
  <1>4. book' = LatchHalts(r)
    BY <1>2, <1>3
  <1>5. book' \in RiskState /\ seen' \in History /\ Tally(book', seen', today)
    BY <1>1, <1>3, <1>4, LatchFields, LatchTally
  <1>6. TypeOK'
    BY <1>3, <1>5 DEF TypeOK, EnvironmentGate, file
  <1>7. Tallies'
    BY <1>5 DEF Tallies, Tally, EnvironmentGate, file
  <1>8. LateStops'
    <2>1. late >= 1 => v.reason # "OK" /\ OverLimit(v.state, account, today)
      BY GateKeepsStop, DaysAreInts DEF LateStops, TypeOK
    <2> HIDE DEF v
    <2>2. late >= 1 => poller' = "idle" /\ OverLimit(book', account, today)
      BY <1>3, <2>1
    <2>3. OverLimit(book', account, today) => OverLimit(book, account, today)'
      BY DEF EnvironmentGate, OverLimit
    <2> QED BY <2>2, <2>3 DEF LateStops, EnvironmentGate
  <1> QED BY <1>6, <1>7, <1>8

(* PlaceOrder preserves the invariant: an approved entry means that no     *)
(* late order was sent before.                                             *)
LEMMA PlaceOrderInv ==
    ASSUME BookInv, PlaceOrder PROVE BookInv'
  <1> USE DEF BookInv
  <1>1. TypeOK'
    BY DEF TypeOK, PlaceOrder, file
  <1>2. Tallies'
    BY TalliesUnchanged DEF PlaceOrder, file
  <1>3. late = 0
    BY DEF LateStops, PlaceOrder, TypeOK
  <1>4. LateStops'
    BY <1>3 DEF LateStops, PlaceOrder, OverLimit
  <1> QED BY <1>1, <1>2, <1>4

(* Restart preserves the invariant: the file's book is older but whole.    *)
LEMMA RestartInv ==
    ASSUME BookInv, Restart PROVE BookInv'
  <1> USE DEF BookInv
  <1>1. /\ book' \in RiskState /\ seen' \in History
        /\ Tally(book', seen', today)
    <2>1. CASE disk = NoFile
      <3>1. Restored.risk = NewRiskState /\ Restored.seen = NothingSeen
        BY <2>1 DEF Restored
      <3> QED BY <3>1, NewTally DEF TypeOK, Restart
    <2>2. CASE disk # NoFile
      <3>1. Restored = disk
        BY <2>2 DEF Restored
      <3>2. /\ disk.risk \in RiskState /\ disk.seen \in History
            /\ Tally(disk.risk, disk.seen, today)
        BY <2>2, SavedParts DEF TypeOK, Tallies
      <3> QED BY <3>1, <3>2, RollTally DEF TypeOK, Restart
    <2> QED BY <2>1, <2>2
  <1>2. /\ disk' \in Saved
        /\ disk' # NoFile =>
              disk' = disk \/ (disk'.risk = book' /\ disk'.seen = seen')
    BY <1>1 DEF TypeOK, Restart, Saved
  <1>3. TypeOK'
    BY <1>1, <1>2 DEF TypeOK, Restart, tasks
  <1>4. Tallies'
    <2>1. disk' # NoFile => Tally(disk'.risk, disk'.seen, today)
      BY <1>1, <1>2 DEF Tallies
    <2> QED BY <1>1, <2>1 DEF Tallies, Tally, Restart
  <1>5. LateStops'
    BY DEF LateStops, Restart, OverLimit, TypeOK, tasks
  <1> QED BY <1>3, <1>4, <1>5

(* The steps that only move a copy of the book.                            *)
LEMMA SaveInv ==
    ASSUME BookInv, BeginSave \/ EndSave \/ SaveFails \/ QuickSave
    PROVE  BookInv'
  <1> USE DEF BookInv
  <1>1. Copied \in Saved /\ Copied.risk = book /\ Copied.seen = seen
    BY CopiedType
  <1>2. /\ copy' \in {copy, NoFile, Copied}
        /\ disk' \in {disk, copy, Copied}
        /\ UNCHANGED << today, balance, live, events, up, account, book,
                        open_position_count, tasks, seen, sent, late >>
    BY DEF BeginSave, EndSave, SaveFails, QuickSave
  <1>3. TypeOK'
    BY <1>1, <1>2 DEF TypeOK, tasks, Saved
  <1>4. Tallies'
    <2>1. copy' # NoFile => Tally(copy'.risk, copy'.seen, today)
      BY <1>1, <1>2 DEF Tallies
    <2>2. disk' # NoFile => Tally(disk'.risk, disk'.seen, today)
      BY <1>1, <1>2 DEF Tallies
    <2> QED BY <1>2, <2>1, <2>2 DEF Tallies, Tally
  <1>5. LateStops'
    BY <1>2, <1>3, LateUnchanged DEF tasks
  <1> QED BY <1>3, <1>4, <1>5

(* Every step preserves the invariant.                                     *)
LEMMA NextInv == BookInv /\ [Next]_vars => BookInv'
  <1> SUFFICES ASSUME BookInv, [Next]_vars PROVE BookInv'
    OBVIOUS
  <1>1. CASE NextDay
    BY <1>1, NextDayInv
  <1>2. ASSUME NEW pnl \in Pnls, BrokerClose(pnl) PROVE BookInv'
    <2>1. pnl \in Int
      BY <1>2, BookConstants
    <2>2. TypeOK'
      BY <1>2, <2>1 DEF BookInv, TypeOK, BrokerClose, tasks, file
    <2>3. Tallies'
      BY <1>2, TalliesUnchanged DEF BookInv, BrokerClose, file
    <2>4. LateStops'
      BY <1>2, <2>2, LateUnchanged DEF BookInv, BrokerClose, tasks
    <2> QED BY <2>2, <2>3, <2>4 DEF BookInv
  <1>3. CASE HandleClose
    BY <1>3, HandleCloseInv
  <1>4. CASE \/ HandlerRefresh \/ HandlerRefreshFails
             \/ AccountRefresh \/ MonitorCount
    <2>1. TypeOK'
      BY <1>4 DEF BookInv, TypeOK, HandlerRefresh, HandlerRefreshFails,
                  AccountRefresh, MonitorCount, Tracked, OwnedInBrokerList,
                  tasks, file
    <2>2. Tallies'
      BY <1>4, TalliesUnchanged DEF BookInv, HandlerRefresh,
                  HandlerRefreshFails, AccountRefresh, MonitorCount, file
    <2>3. LateStops'
      BY <1>4, <2>1, LateUnchanged DEF BookInv, HandlerRefresh,
                  HandlerRefreshFails, AccountRefresh, MonitorCount, tasks
    <2> QED BY <2>1, <2>2, <2>3 DEF BookInv
  <1>5. CASE EnvironmentGate
    BY <1>5, EnvironmentGateInv
  <1>6. CASE DropEntry
    <2>1. TypeOK'
      BY <1>6 DEF BookInv, TypeOK, DropEntry, file
    <2>2. Tallies'
      BY <1>6, TalliesUnchanged DEF BookInv, DropEntry, file
    <2>3. LateStops'
      BY <1>6 DEF BookInv, LateStops, DropEntry, OverLimit
    <2> QED BY <2>1, <2>2, <2>3 DEF BookInv
  <1>7. CASE PlaceOrder
    BY <1>7, PlaceOrderInv
  <1>8. CASE BeginSave \/ EndSave \/ SaveFails \/ QuickSave
    BY <1>8, SaveInv
  <1>9. CASE Crash
    <2>1. TypeOK'
      <3>1. copy' \in Saved /\ events' \in Seq(Int)
        BY <1>9 DEF Crash, Saved
      <3> QED BY <1>9, <3>1 DEF BookInv, TypeOK, Crash
    <2>2. Tallies'
      BY <1>9 DEF BookInv, Tallies, Tally, Crash
    <2>3. LateStops'
      BY <1>9 DEF BookInv, LateStops, Crash, OverLimit
    <2> QED BY <2>1, <2>2, <2>3 DEF BookInv
  <1>10. CASE Restart
    BY <1>10, RestartInv
  <1>11. CASE UNCHANGED vars
    <2>1. TypeOK'
      BY <1>11 DEF BookInv, TypeOK, vars, tasks, file
    <2>2. Tallies'
      BY <1>11, TalliesUnchanged DEF BookInv, vars, file
    <2>3. LateStops'
      BY <1>11, <2>1, LateUnchanged DEF BookInv, vars, tasks
    <2> QED BY <2>1, <2>2, <2>3 DEF BookInv
  <1> QED BY <1>1, <1>2, <1>3, <1>4, <1>5, <1>6, <1>7, <1>8, <1>9, <1>10,
             <1>11 DEF Next

(* The books agree with their histories and a late order stops the poller, *)
(* in every reachable state.                                               *)
THEOREM BookInvariant == Spec => []BookInv
  BY InitInv, NextInv, PTL DEF Spec

(* Every variable of the book keeps its type.                              *)
THEOREM TypeCorrect == Spec => []TypeOK
  <1>1. BookInv => TypeOK
    BY DEF BookInv
  <1> QED BY <1>1, BookInvariant, PTL

(* However day rolls at the gate and at a close, saves, crashes and        *)
(* restarts interleave, the book's daily result and losing streak are      *)
(* those of the closes recorded on its day.                                *)
THEOREM DailyTallyHolds == Spec => []DailyTally
  <1>1. BookInv => DailyTally
    BY DEF BookInv, Tallies, Tally, DailyTally
  <1> QED BY <1>1, BookInvariant, PTL

(* The gate lets at most one order out after the book went over a limit.   *)
THEOREM OneLateOrderHolds == Spec => []OneLateOrder
  <1>1. BookInv => OneLateOrder
    BY DEF BookInv, LateStops, OneLateOrder
  <1> QED BY <1>1, BookInvariant, PTL

(* No step of a running bot lifts a weekly halt within its week.           *)
THEOREM WeeklyHaltIsSticky == Spec => WeeklyHaltHolds
  <1> DEFINE Kept ==
         (up /\ up' /\ book.weekly_halted
             /\ book.week_start_date_utc = WeekStart(today))
         => book'.weekly_halted
  <1>1. BookInv /\ [Next]_vars => [Kept]_vars
    <2> SUFFICES ASSUME BookInv, Next, up, up', book.weekly_halted,
                        book.week_start_date_utc = WeekStart(today)
                 PROVE  book'.weekly_halted
      BY DEF vars
    <2>1. CASE HandleClose
      <3>1. Head(events) \in Int
        BY <2>1 DEF BookInv, TypeOK, HandleClose
      <3>2. book'.weekly_halted = book.weekly_halted
        BY <2>1, <3>1, CloseTally DEF BookInv, TypeOK, Tallies, HandleClose
      <3> QED BY <3>2
    <2>2. CASE EnvironmentGate
      <3> DEFINE r == ensure_period_baselines(book, account, today)
      <3>1. ~WeekIsOver(book, today)
        BY DEF BookInv, TypeOK, Tallies, Tally, WeekIsOver, RiskState
      <3>2. r \in RiskState /\ WeekRolled(book, account, today, r)
        BY EnsureFields, DaysAreInts DEF BookInv, TypeOK
      <3> HIDE DEF r
      <3>3. r.weekly_halted
        BY Zenon, <3>1, <3>2 DEF WeekRolled
      <3>4. book' = LatchHalts(r)
        BY <2>2 DEF EnvironmentGate, can_trade, r
      <3>5. book'.weekly_halted = (r.weekly_halted \/ WeeklyLimitHit(r))
        BY <3>2, <3>4, LatchFields
      <3> QED BY Zenon, <3>3, <3>5
    <2>3. CASE ~HandleClose /\ ~EnvironmentGate
      <3>1. book' = book
        BY <2>3 DEF Next, NextDay, BrokerClose, HandlerRefresh,
              HandlerRefreshFails, DropEntry, PlaceOrder, AccountRefresh,
              MonitorCount, BeginSave, EndSave, SaveFails, QuickSave, Crash,
              Restart
      <3> QED BY <3>1
    <2> QED BY <2>1, <2>2, <2>3
  <1>2. [][Kept]_vars => WeeklyHaltHolds
    BY DEF WeeklyHaltHolds
  <1> HIDE DEF Kept
  <1> QED BY <1>1, <1>2, BookInvariant, PTL DEF Spec
=============================================================================
