SPECIFICATION Spec
CONSTANTS
    AlignTicks = 8
    CommandTimeout = 2
    StatusPeriod = 1
    RxDepth = 2
    ReportPeriod = 4
    Deadline <- MCDeadline
    Pace <- MCPace
    Iwdg = 12
    BringUp = 2
    WheelTimeout = 4
    WheelAcquire = 12
    WheelDebounce = 3
    MaxHangs = 1
    MaxResets = 1
    MaxEscRestarts = 1
    MaxLost = 1
INVARIANTS HungTaskBites HealthyNotBitten CauseTold WheelCoasts WheelDropoutSound
