SPECIFICATION FairSpec
CONSTANTS
  NServers = 2
  NClients = 2
  MaxSink = 2
  MaxLies = 2
INVARIANT OneVerdict
PROPERTY VerdictReached
CHECK_DEADLOCK FALSE
