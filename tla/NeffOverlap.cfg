SPECIFICATION PartSpec
CONSTANTS
  A = A
  B = B
  C = C
  x = x
  y = y
  z = z
  N = 2
  Client = {y}
  Home <- MCHome
  Parts = {"overlap"}
INVARIANT PushedIsSigned
CHECK_DEADLOCK FALSE
