SPECIFICATION Spec
CONSTANTS
    Names <- TwoNodes
    VenueOrder <- OneVenue
    Home <- AtA
    Quote <- Quotes
    Capacity = 2
    MaxAge = 1
    MaxNodeAge = 1
    Disturbances = 2
INVARIANTS
    Inv
    LegsAreRecent
PROPERTY NodesComeBack
