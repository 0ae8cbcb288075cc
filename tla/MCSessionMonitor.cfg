SPECIFICATION Spec
CONSTANTS
    a = a
    b = b
    Positions <- MCPositions
    Addons <- MCAddons
    Prices <- MCPrices
    Stops <- MCStops
    EntryStops <- MCStops
    LockStops <- MCLockStops
    ProtectAt = 2
    TrailAt = 3
    HoldPasses = 2
    MaxWire = 2
INVARIANTS TypeOK CloseIsRetried StopsInStep
PROPERTY LoosensOnlyToOrder
