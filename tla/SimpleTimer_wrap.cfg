SPECIFICATION Spec
CONSTANTS
    TICKS = 16
    TIMES = 64
    Waits = {3, 5}
    MaxGap = 4
    MaxSince = 21
INVARIANTS
    TypeOK
    NeverEarly
    OneShotOnce
    NeverLate
CHECK_DEADLOCK FALSE
