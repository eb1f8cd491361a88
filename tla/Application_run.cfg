SPECIFICATION AppSpec
CONSTANTS
    UART_BUFFER_SIZE = 4
    MaxBytes = 5
    TICKS = 5
    TIMES = 20
    STEP_TICKS = 2
    DUTY_MAX = 1
    MaxSince = 3
INVARIANTS
    TypeOK
    AppTypeOK
    RepeatsStandForLost
PROPERTIES
    ImplementsFifo
    StepsApart
    KeepsFading
    BytesAreAnswered
CHECK_DEADLOCK FALSE
