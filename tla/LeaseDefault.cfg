SPECIFICATION FailoverSpec
CONSTANTS
  a = a
  b = b
  s1 = s1
  s2 = s2
  Node <- MCNode
  Stream <- MCStream
  Weight <- MCWeight
  Id <- MCId
  Ttl <- Ttl5
  Renew = 1
  Guard = 1
  StepMax = 1
  Offset <- NoSkew
  MaxSkew = 0
  SkipsUnreadable = FALSE
  Horizon = 60
VIEW RelativeView
INVARIANTS
  AtMostOneOwner
