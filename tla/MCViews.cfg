SPECIFICATION Spec
CONSTANTS
    Resolution = 2
    Spans <- TwoSpans
    Contents <- AllKinds
    MaxTime = 8
    MaxMessages = 3
    MaxQueue = 1
    MaxDelay = 2
    Skew = 1
    Stall = 6
INVARIANTS
    Inv
    AccountsAgree
PROPERTIES
    RingKeepsTheHistory
CHECK_DEADLOCK FALSE
