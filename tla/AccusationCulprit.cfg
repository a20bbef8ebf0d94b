SPECIFICATION Spec
CONSTANTS
  NServers = 2
  NClients = 1
  MaxSink = 1
  MaxLies = 0
INVARIANT VerdictNamesCulprit
CHECK_DEADLOCK FALSE
