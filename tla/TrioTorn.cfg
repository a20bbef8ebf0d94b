SPECIFICATION TornSpec
CONSTANTS
  P = P
  S = S
  T = T
  c1 = c1
  c2 = c2
  Server <- ThreeServers
  Proposer = P
  Client <- OneClient
  MaxBreak = 1
  MaxOver = 0
  MaxReg = 2
INVARIANT CertifiedRoster
CHECK_DEADLOCK FALSE
