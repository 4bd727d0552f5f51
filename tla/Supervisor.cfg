SPECIFICATION Spec
CONSTANTS
  Streams = {a, b}
  Unbuildable = {}
  Capacity = 2
  MaxChanges = 3
  MaxSessions = 2
INVARIANTS
  Inv LiveBookIsFed
PROPERTIES
  SocketsFollowOwnership StopClosesEverything
