SPECIFICATION Spec
CONSTANT MaxSignals = 1
PROPERTY WritersPreserveSwitch
