SPECIFICATION Spec
CONSTANT MaxSignals = 2
INVARIANTS TypeOK UpdatesKept
PROPERTY SwitchReachesBot
