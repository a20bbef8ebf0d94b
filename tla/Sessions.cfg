SPECIFICATION SessionsSpec
CONSTANTS
  P = P
  S = S
  T = T
  c1 = c1
  c2 = c2
  Server <- TwoServers
  MaxAttempt = 2
  MaxBreak = 1
  MaxStop = 1
  Prompt = FALSE
INVARIANT RosterOfRound
INVARIANT KeyInRoster
PROPERTY FormsRound
PROPERTY StartIsHeeded
PROPERTY JoinsEveryRound
CHECK_DEADLOCK FALSE
