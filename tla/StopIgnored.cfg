SPECIFICATION RunningSpec
CONSTANTS
  P = P
  S = S
  T = T
  c1 = c1
  c2 = c2
  Server <- ThreeServers
  Proposer = P
  Client <- OneClient
  MaxBreak = 1
  MaxOver = 1
  MaxReg = 0
PROPERTY StopIsHeeded
CHECK_DEADLOCK FALSE
