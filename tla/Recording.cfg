\* Pauses of 1..2, 2..4 and then 2..5, so that three attempts fit into five units
\* and four do not.
SPECIFICATION Spec
CONSTANTS
    Base = 2
    Cap = 5
    MinStable = 4
    IdleTimeout = 3
    Window = 5
    MostAttempts = 3
    MaxAttempts = 5
    MaxTapedAttempts = 2
    MaxFrames = 3
    FlushEvery = 2
    Grace = 1
INVARIANTS
    Inv
    AttemptRateIsBounded
    SilenceIsNoticed
PROPERTY StopIsObeyed
CHECK_DEADLOCK FALSE
