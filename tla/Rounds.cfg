SPECIFICATION FairSpec
CONSTANTS
  A = A
  B = B
  C = C
  x = x
  y = y
  z = z
  N = 2
  Client = {x, y}
  Home <- MCHome
  Parts = {"shuffle", "trio", "pair", "views", "open"}
INVARIANT SignedOutput
INVARIANT SameCleartext
INVARIANT OneText
INVARIANT NoStall
PROPERTY AllEnd
PROPERTY ViewsConverge
CHECK_DEADLOCK FALSE
