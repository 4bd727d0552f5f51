SPECIFICATION AuditSpec
CONSTANTS
  BidPrices <- MCBids
  AskPrices <- MCAsks
  MaxQty = 2
  Openings <- MCOpenings
  GuardBps = 1
  BpsUnit = 10
  MaxLevels = 1
  MaxFindings = 1
  Consecutive = 2
  MaxUpdates = 3
  MaxLosses = 1
  MaxBreaks = 1
  MaxWire = 1
INVARIANTS
  AuditInv ConvictedByTheSamePrice
PROPERTIES
  DamageDoesNotLast
