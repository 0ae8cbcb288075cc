SPECIFICATION Spec
CONSTANTS
    WeeklyStopPct = 20
    DailyStopPct = 15
    MaxConsecutiveLosses = 1
    MaxOpenTrades = 1
    DaysPerWeek = 2
    Pnls <- MCPnls
    InitialBalance = 10
    MaxLive = 2
    MaxDay = 1
    MaxTrades = 3
INVARIANTS
    TypeOK
    DailyTally
    OneLateOrder
PROPERTIES
    WeeklyHaltHolds
    FileCatchesUp
CHECK_DEADLOCK TRUE
