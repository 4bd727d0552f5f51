CONSTANTS
    a = a
    b = b
    s1 = s1
    s2 = s2
    btc = btc
    Nodes <- MCNodes
    Streams <- MCStreams
    Symbols <- MCSymbols
    Symbol <- MCSymbol
    FirstOwner <- AOwnsAll
    Rank <- MCRank
    Hour = 3
    MaxOpen = 2
    MaxDelay = 1
    MaxTime = 4
    MaxEvents = 3
    Skew <- NoSkew
    Budget <- EachOnce
SPECIFICATION Spec
INVARIANTS Inv ReadsInOrder
PROPERTIES NothingIsOverwritten
CHECK_DEADLOCK FALSE
