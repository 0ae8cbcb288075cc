----------------------------- MODULE RiskRules -----------------------------
(***************************************************************************)
(* The arithmetic of xauex/bot/risk/gates.py: RiskState as a record with   *)
(* the source's field names, and each method of RiskGates as an operator   *)
(* from a state to a state.  Money is an integer number of account         *)
(* currency units, a date is a day number, and the empty date string "" is *)
(* NoDate.                                                                 *)
(*                                                                         *)
(* DaysPerWeek is 7 in the code (a week starts on the UTC Monday); it is a *)
(* constant so that small instances can cross a week boundary.             *)
(***************************************************************************)
EXTENDS Integers

CONSTANTS
    WeeklyStopPct,          \* config.weekly_stop_pct
    DailyStopPct,           \* config.daily_stop_pct
    MaxConsecutiveLosses,   \* config.max_consecutive_losses
    MaxOpenTrades,          \* config.max_open_trades
    DaysPerWeek

ASSUME RiskConfig ==
    /\ WeeklyStopPct \in Nat \ {0}
    /\ DailyStopPct \in Nat \ {0}
    /\ MaxConsecutiveLosses \in Nat \ {0}
    /\ MaxOpenTrades \in Nat \ {0}
    /\ DaysPerWeek \in Nat \ {0}

NoDate == -1

Date == Int

(* The account fields of RiskState; the xauex_* fields belong to the       *)
(* signal poller.                                                          *)
RiskState ==
    [ consecutive_losses_today : Nat,
      losses_date_utc          : Date,
      weekly_pnl               : Int,
      week_start_balance       : Int,
      week_start_date_utc      : Date,
      daily_pnl                : Int,
      day_start_balance        : Int,
      day_start_date_utc       : Date,
      weekly_halted            : BOOLEAN,
      daily_halted             : BOOLEAN ]

NewRiskState ==
    [ consecutive_losses_today |-> 0,
      losses_date_utc          |-> NoDate,
      weekly_pnl               |-> 0,
      week_start_balance       |-> 0,
      week_start_date_utc      |-> NoDate,
      daily_pnl                |-> 0,
      day_start_balance        |-> 0,
      day_start_date_utc       |-> NoDate,
      weekly_halted            |-> FALSE,
      daily_halted             |-> FALSE ]

(* _week_start_utc: the first day of the week that holds the day d.        *)
WeekStart(d) == d - (d % DaysPerWeek)

record_week_start(s, balance, week) ==
    [s EXCEPT !.week_start_balance  = balance,
              !.week_start_date_utc = week,
              !.weekly_pnl          = 0,
              !.weekly_halted       = FALSE]

record_day_start(s, balance, day) ==
    [s EXCEPT !.day_start_balance        = balance,
              !.day_start_date_utc       = day,
              !.daily_pnl                = 0,
              !.daily_halted             = FALSE,
              !.consecutive_losses_today = 0,
              !.losses_date_utc          = day]

RollWeek(s, balance, today) ==
    IF \/ s.week_start_date_utc # WeekStart(today)
       \/ s.week_start_balance <= 0
    THEN record_week_start(s, balance, WeekStart(today))
    ELSE s

(* The three branches of the code that call record_day_start: no date, a   *)
(* date other than today (NoDate is one), no balance.                      *)
DayIsOver(s, today) ==
    \/ s.day_start_date_utc # today
    \/ s.day_start_balance <= 0

RollDay(s, balance, today) ==
    IF DayIsOver(s, today) THEN record_day_start(s, balance, today) ELSE s

ensure_period_baselines(s, balance, today) ==
    RollDay(RollWeek(s, balance, today), balance, today)

(* Slip: the daily result is left out of the reset.                        *)
maybe_reset_daily_keeps_pnl(s, today) ==
    IF s.losses_date_utc # NoDate /\ s.losses_date_utc # today
    THEN [s EXCEPT !.consecutive_losses_today = 0,
                   !.daily_halted             = FALSE,
                   !.day_start_date_utc       = today,
                   !.losses_date_utc          = today]
    ELSE s

maybe_reset_daily(s, today) ==
    IF s.losses_date_utc # NoDate /\ s.losses_date_utc # today
    THEN [s EXCEPT !.consecutive_losses_today = 0,
                   !.daily_halted             = FALSE,
                   !.daily_pnl                = 0,
                   !.day_start_date_utc       = today,
                   !.losses_date_utc          = today]
    ELSE s

(* Slip: a win takes one loss off the streak instead of ending it.         *)
AddCloseCountsDown(s, pnl, today) ==
    [s EXCEPT !.weekly_pnl = @ + pnl,
              !.daily_pnl  = @ + pnl,
              !.consecutive_losses_today = IF pnl <= 0 THEN @ + 1 ELSE @ - 1,
              !.daily_halted    = @ /\ pnl <= 0,
              !.losses_date_utc = today]

(* The body of record_trade_closed after its daily reset.                  *)
AddClose(s, pnl, today) ==
    [s EXCEPT !.weekly_pnl = @ + pnl,
              !.daily_pnl  = @ + pnl,
              !.consecutive_losses_today = IF pnl <= 0 THEN @ + 1 ELSE 0,
              !.daily_halted    = @ /\ pnl <= 0,
              !.losses_date_utc = today]

record_trade_closed(s, pnl, today) ==
    AddClose(maybe_reset_daily(s, today), pnl, today)

WeeklyLimitHit(s) ==
    /\ s.week_start_balance > 0
    /\ s.weekly_pnl < 0
    /\ (-s.weekly_pnl) * 100 >= WeeklyStopPct * s.week_start_balance

DailyLimitHit(s) ==
    /\ s.day_start_balance > 0
    /\ s.daily_pnl < 0
    /\ (-s.daily_pnl) * 100 >= DailyStopPct * s.day_start_balance

LossStreakHit(s) == s.consecutive_losses_today >= MaxConsecutiveLosses

(* Slip: the weekly gate is left out.                                      *)
GateReasonNoWeekly(s, open_position_count) ==
    IF DailyLimitHit(s) \/ s.daily_halted THEN "DAILY_DRAWDOWN_LIMIT"
    ELSE IF LossStreakHit(s) THEN "DAILY_CONSECUTIVE_LOSS_LIMIT"
    ELSE IF open_position_count >= MaxOpenTrades THEN "MAX_POSITIONS_REACHED"
    ELSE "OK"

(* The gates of can_trade in their order: what a state with its baselines  *)
(* rolled is refused for, and ...                                          *)
GateReason(s, open_position_count) ==
    IF WeeklyLimitHit(s) \/ s.weekly_halted THEN "WEEKLY_DRAWDOWN_LIMIT"
    ELSE IF DailyLimitHit(s) \/ s.daily_halted THEN "DAILY_DRAWDOWN_LIMIT"
    ELSE IF LossStreakHit(s) THEN "DAILY_CONSECUTIVE_LOSS_LIMIT"
    ELSE IF open_position_count >= MaxOpenTrades THEN "MAX_POSITIONS_REACHED"
    ELSE "OK"

(* Slip: the weekly halt follows the drawdown instead of latching.         *)
LatchHaltsForgets(s) ==
    [s EXCEPT !.weekly_halted = WeeklyLimitHit(s),
              !.daily_halted  = @ \/ DailyLimitHit(s) \/ LossStreakHit(s)]

(* ... the halts that the gates latch on the way.                          *)
LatchHalts(s) ==
    [s EXCEPT !.weekly_halted = @ \/ WeeklyLimitHit(s),
              !.daily_halted  =
                  \/ @
                  \/ /\ ~(WeeklyLimitHit(s) \/ s.weekly_halted)
                     /\ DailyLimitHit(s) \/ LossStreakHit(s)]

(* can_trade(balance): the refusal, "OK" when there is none, and the state *)
(* the call leaves behind.                                                 *)
can_trade(s, balance, open_position_count, today) ==
    LET rolled == ensure_period_baselines(s, balance, today)
    IN  [ reason |-> GateReason(rolled, open_position_count),
          state  |-> LatchHalts(rolled) ]

(* A loss limit of the state is reached or a halt stands.                  *)
LossStop(s) ==
    \/ WeeklyLimitHit(s) \/ s.weekly_halted
    \/ DailyLimitHit(s) \/ s.daily_halted
    \/ LossStreakHit(s)
=============================================================================
