SPECIFICATION Spec
CONSTANTS
  MaxAge = 2
  MaxQuotes = 3
  MaxItems = 4
  MaxEvents = 3
  MaxInt = 100
  Depth = 2
  TopPrice = 5
  FirstDay <- DaysTo1896
  LastDay = 49000
  FirstDate <- FirstOf1896
  Back = 6
  Writers = {1, 2}
  MaxLease = 3
INVARIANTS
  VenuesMakeOneView RecordIsFaithful ReplayKeepsTime HashedAsByTheVenue
  ReadsMissNoMember
CHECK_DEADLOCK FALSE
