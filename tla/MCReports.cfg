SPECIFICATION ReportsSpec
CONSTANTS
    Positions = {1, 2}
    OwnersOf <- MCOwnersOf
    Slots = {1, 2}
    RunKinds <- MCRunKinds
    MinRuns = 2
    NoTradeDays = 2
    Scopes <- MCScopes
    MaxFaults = 1
INVARIANTS
    SummaryIsComplete
    MarkedIsDone
    RepeatsNeedFaults
PROPERTY
    EverythingReported
