CONSTANTS
    Configs <- AllModes
    Second = 10
    MaxStreams = 3
    MaxTime = 10
    MaxPackets = 4
    MaxEchoes = 3
SPECIFICATION Spec
INVARIANTS FailuresShiftNothing NeverAhead ElapsedTrue 
PROPERTIES DeadlinesInOrder
CHECK_DEADLOCK FALSE
