SPECIFICATION Spec
CONSTANTS
    Balance = 400000
    DailyLimit = 8000
    CashStop = 5000
    SpreadGuard = 100
    CounterEnabled = TRUE
    CounterOnly = TRUE
    CounterLimit = 1
    CanaryLimit = 1
    MinSteps = 1
    MaxSteps = 10
    StepOunces = 1
    Signals <- MCSignals
    Markets <- MCMarkets
INVARIANTS TypeOK WorstCaseWithinLimit AddonRidesProtected CanariesCapped CautionNeverRisksMore
CHECK_DEADLOCK FALSE
