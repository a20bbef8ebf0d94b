SPECIFICATION PartSpec
CONSTANTS
  A = A
  B = B
  x = x
  y = y
  Server = {A, B}
  Client = {x, y}
  Home <- MCHome
  MaxMsg = 2
  MaxPhase = 6
  MaxLate = 2
  MaxNoise = 0
  MaxLeave = 0
INVARIANT PadsCancel
INVARIANT SameCleartext
INVARIANT CommitBeforeReveal
INVARIANT InOrder
PROPERTY BroadcastSpec
PROPERTY WideWindowsDeliver
CHECK_DEADLOCK FALSE
