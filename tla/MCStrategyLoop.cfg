SPECIFICATION Spec
CONSTANTS
    DailyFast = 1
    DailySlow = 2
    ExecFast = 2
    ExecSlow = 3
    ScalpFast = 2
    ScalpSlow = 3
    AtrPeriod = 2
    SlopeLookback = 1
    HourLength = 2
    FileMaxAge = 10
    RiskMoney = 4000
    Setups <- MCSetups
    Charts <- MCCharts
    Corpus <- MCCorpus
    Cap <- MCCap
    Cooldown <- MCCooldown
    Expiry = 1
    DayLength = 2
    MaxTime = 4
    MaxCandles = 3
INVARIANTS
    TypeOK
    EntriesSpaced
    StopOrdersExpire
    BlockedFeedIsRetried
    RulesSound
CHECK_DEADLOCK FALSE
