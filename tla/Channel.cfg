\* Two producers over a channel of two.
CONSTANTS
    Producers = {p1, p2}
    Main = main
    Replayer = p1
    Capacity = 2
    MaxItems = 3
SPECIFICATION FairSpec
INVARIANTS Inv NoLostWakeup CloseDrains
PROPERTIES IsLossyQueue ReplayEnds
