SPECIFICATION Spec
CONSTANTS
    LastSlot = 2
    MaxTrades = 2
    MaxDay = 2
    MaxSignals = 2
    MaxRaises = 1
INVARIANTS TypeOK SlotTradedOnce DailyCapHolds
PROPERTY SavedSlotFreedOnlyByOldCopy
