SPECIFICATION PairSpec
CONSTANTS
  P = P
  S = S
  T = T
  c1 = c1
  c2 = c2
  Server <- TwoServers
  Proposer = P
  Client <- OneClient
  MaxBreak = 1
  MaxOver = 0
  MaxReg = 1
INVARIANT TypeOK
INVARIANT CertifiedRound
INVARIANT OneRoundPerInit
INVARIANT KeyCustody
INVARIANT RosterAgreement
PROPERTY RoundOrder
PROPERTY ServiceSpec
CHECK_DEADLOCK FALSE
