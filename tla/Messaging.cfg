SPECIFICATION PartSpec
CONSTANTS
  A = A
  B = B
  C = C
  x = x
  y = y
  Node = {A, B}
  Caller = {A}
  Method = {"m"}
  Initial = {"m"}
  MaxId = 3
  MaxLost = 1
INVARIANT RightAnswer
INVARIANT Faithful
PROPERTY HeardOnce
PROPERTY AlarmSpec
PROPERTY EventsRun
PROPERTY Arrives
CHECK_DEADLOCK FALSE
