CONSTANTS
    Venues = {"coinbase", "kraken", "bitstamp"}
    Capacity = 3
    MaxWire = 2
    MaxVersion = 3
    Budget <- OneEviction
SPECIFICATION Spec
INVARIANTS
    SomeoneIsFixingIt
CHECK_DEADLOCK FALSE
