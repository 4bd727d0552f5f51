SPECIFICATION FailoverSpec
CONSTANTS
  a = a
  b = b
  s1 = s1
  s2 = s2
  Node <- MCNode
  Stream <- MCStream
  Weight <- MCWeight
  Id <- MCId
  Ttl <- Ttl4
  Renew = 2
  Guard = 1
  StepMax = 0
  Offset <- BIsAhead
  MaxSkew = 1
  SkipsUnreadable = TRUE
  Horizon = 300
VIEW CalmView
INVARIANTS
  HoldEndsSoon OverlapIsBrief IInv
  ConvergesWhenCalm SurvivorsTakeOver
