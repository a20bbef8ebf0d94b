SPECIFICATION PartSpec
CONSTANTS
  Node = {2, 3}
  Server = {2, 3}
  Remote <- Both
  Slot = {1, 2, 3, 4}
  MaxBreak = 2
  MaxRefuse = 1
  MayBreak = "any"
  MayStop = {2}
INVARIANT TableConsistent
INVARIANT EndsAgree
PROPERTY Connects
CHECK_DEADLOCK FALSE
