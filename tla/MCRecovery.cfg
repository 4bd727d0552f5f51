CONSTANTS
    Venues = {"coinbase", "kraken", "bitstamp"}
    Capacity = 2
    MaxWire = 2
    MaxVersion = 3
    Budget <- OneOfEach
SPECIFICATION FairSpec
INVARIANTS
    Inv
    TrustMatchesIntegrity
    NoFalseAlarm
    FixUnderWay
PROPERTIES
    Recovers
CHECK_DEADLOCK FALSE
