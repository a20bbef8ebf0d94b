---------------------------- MODULE CppECGroup ----------------------------
(***************************************************************************)
(* CppECGroup: a prime-order elliptic curve and how bytes become points: a *)
(* string between two 0xff bytes is a number r, and the first x of         *)
(* r*k .. r*k + k - 1 that is on the curve stands for it (Koblitz).  The   *)
(* arithmetic of points is Crypto++'s.                                     *)
(***************************************************************************)
EXTENDS Integers, Sequences, FiniteSets, SequencesExt

CONSTANTS
  FieldSize,   \* the prime of the field
  CurveA, CurveB,
  Byte,        \* the values of a byte, 256 in the code; also _k
  MaxLen,      \* the longest string a caller encodes
  Blinds       \* the x coordinates of points that callers blind with

F == 0..(FieldSize - 1)

Identity == [x |-> 0, y |-> 0]   \* as Crypto++ makes it; no point of a curve with CurveB # 0
Mod(n) == n % FieldSize
Divide(n, d) == Mod(n * (CHOOSE i \in F : Mod(i * d) = 1))
Curve(x) == Mod(Mod(Mod(x * x) + CurveA) * Mod(x) + CurveB)

\* Crypto++: addition, inverse, and the square root of SolveForY.
Add(a, b) ==
  IF a = Identity THEN b ELSE IF b = Identity THEN a
  ELSE IF Mod(a.x) = Mod(b.x) /\ Mod(a.y + b.y) = 0 THEN Identity
  ELSE LET l == IF Mod(a.x) = Mod(b.x)
                  THEN Divide(Mod(3 * Mod(a.x * a.x) + CurveA), Mod(2 * a.y))
                  ELSE Divide(Mod(b.y - a.y), Mod(b.x - a.x))
           x == Mod(l * l - a.x - b.x)
       IN [x |-> x, y |-> Mod(l * (a.x - x) - a.y)]
Multiply(a, b) == Add(a, b)
InverseOf(a) == IF a = Identity THEN a ELSE [x |-> a.x, y |-> Mod(-a.y)]
IsSquare(n) == n # 0 /\ \E y \in F : Mod(y * y) = n

IsIdentity(a) == a = Identity
IsElement(a) == IsIdentity(a) \/ (a.x \in F /\ a.y \in F /\ Mod(a.y * a.y) = Curve(a.x))

-----------------------------------------------------------------------------
(* Bytes *)

ToBytes(n) ==
  LET f[k \in Nat] == IF k < Byte THEN <<k>> ELSE Append(f[k \div Byte], k % Byte)
  IN f[n]
FromBytes(s) == FoldLeft(LAMBDA v, d : v * Byte + d, 0, s)
FF == Byte - 1
FieldBytes == Len(ToBytes(FieldSize))
BytesPerElement == FieldBytes - 1 - 2
Fatal == [x |-> -2, y |-> -2]

OnCurve(x) == IsSquare(Curve(x))
SolveForY(x) == [x |-> x, y |-> CHOOSE y \in F : Mod(y * y) = Curve(x)]

\* The x that EncodeBytes tries, in this order; it asserts that they are below
\* the size of the field, and goes on where assertions are off.
Tried(s) ==
  LET r == FromBytes(<<FF>> \o s \o <<FF>>)
      good == {i \in 0..(Byte - 1) : OnCurve(r * Byte + i)}
  IN IF good = {} THEN (r * Byte)..(r * Byte + Byte - 1)
     ELSE (r * Byte)..(r * Byte + (CHOOSE i \in good : \A j \in good : i <= j))
EncodeBytes(s) ==
  LET last == CHOOSE x \in Tried(s) : \A y \in Tried(s) : y <= x
  IN IF Len(s) > BytesPerElement \/ ~OnCurve(last) THEN Fatal ELSE SolveForY(last)

Quotient(a) == ToBytes(a.x \div Byte)
DecodeBytes(a) ==
  LET data == Quotient(a)
  IN IF Len(data) < 2 \/ data[1] # FF \/ data[Len(data)] # FF
       THEN [ok |-> FALSE, out |-> <<>>]
       ELSE [ok |-> TRUE, out |-> SubSeq(data, 2, Len(data) - 1)]

-----------------------------------------------------------------------------
(* A caller encodes a string, multiplies by an element and by its inverse,  *)
(* as ciphertexts do, and decodes.                                          *)

VARIABLES str, point, blind
vars == <<str, point, blind>>

Init == str \in UNION {[1..n -> 0..FF] : n \in 0..MaxLen} /\ point = Fatal /\ blind = Identity
Encode == point = Fatal /\ point' = EncodeBytes(str) /\ point' # Fatal /\ UNCHANGED <<str, blind>>
Blind == \E x \in Blinds :
  /\ point # Fatal /\ blind = Identity /\ OnCurve(x)
  /\ blind' = SolveForY(x) /\ point' = Multiply(point, blind') /\ UNCHANGED str
Unblind ==
  /\ blind # Identity
  /\ point' = Multiply(point, InverseOf(blind)) /\ blind' = Identity /\ UNCHANGED str
Next == Encode \/ Blind \/ Unblind
Spec == Init /\ [][Next]_vars

-----------------------------------------------------------------------------
(* Properties *)

\* Points are on the curve, and the string comes back from an encoding and from
\* an encoding that was blinded and unblinded (EncodeBytes, DecodeBytes).
StringComesBack ==
  point # Fatal => /\ IsElement(point)
                   /\ blind = Identity => DecodeBytes(point) = [ok |-> TRUE, out |-> str]

=============================================================================
