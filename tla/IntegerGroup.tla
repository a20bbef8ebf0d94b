--------------------------- MODULE IntegerGroup ---------------------------
(***************************************************************************)
(* IntegerGroup: the squares modulo a safe prime, and how bytes become     *)
(* elements: a string between 0xff bytes with one byte of padding that is  *)
(* counted up until the number is a square.                                *)
(***************************************************************************)
EXTENDS BigInteger, FiniteSets

CONSTANTS
  P,      \* a safe prime, 2q + 1, above 5
  G       \* a generator of the squares

Q == (P - 1) \div 2

-----------------------------------------------------------------------------
(* The group *)

Element == 1..(P - 1)
Multiply(a, b) == (a * b) % P
Exponentiate(a, e) == PowMod(a, e, P)
CascadeExponentiate(a1, e1, a2, e2) == PowCascade(a1, e1, a2, e2, P)
InverseOf(a) == InverseMod(a, P)
IsElement(a) == Exponentiate(a, Q) = 1
IsIdentity(a) == a = 1
IsGenerator(a) == IsElement(a) /\ Exponentiate(a, Q) = 1 /\ Exponentiate(a, 2) # 1
RandomExponent == 1..Q   \* Crypto++ includes the upper bound
IsProbablyValid == G \notin {0, 1, P - 1} /\ Exponentiate(G, Q) = 1

BytesPerElement == Len(ToBytes(Q)) - 4
Fatal == 0   \* where the code ends in qFatal

Padded(s, pad) == <<FF>> \o s \o <<pad, FF>>
AnyPad(s) == 0..FF   \* mutant: the padding is not tried for a square
Pads(s) == {pad \in 0..(FF - 1) : IsElement(FromBytes(Padded(s, pad)))}
EncodeBytes(s) ==
  IF BytesPerElement < 1 \/ Len(s) > BytesPerElement \/ Pads(s) = {} THEN Fatal
  ELSE FromBytes(Padded(s, CHOOSE pad \in Pads(s) : \A x \in Pads(s) : pad <= x))

DecodeBytes(a) ==
  LET data == ToBytes(a)
  IN IF Len(data) < 3 \/ data[1] # FF \/ data[Len(data)] # FF
       THEN [ok |-> FALSE, out |-> <<>>]
       ELSE [ok |-> TRUE, out |-> SubSeq(data, 2, Len(data) - 2)]

\* The sizes of the fixed groups; the case of 2048 has no break.
Sizes == {256, 512, 768, 1024, 1536, 2048, 2560, 3072, 3584, 4096}
GetGroup(size) == IF size = 2048 THEN 2560 ELSE size

-----------------------------------------------------------------------------
(* What callers rely on *)

Encodable == UNION {[1..n -> 0..FF] : n \in 0..BytesPerElement}

\* What EncodeBytes returns for a string s is an element, and DecodeBytes gives
\* the string back.
Roundtrip(s) ==
  LET e == EncodeBytes(s)
  IN e # Fatal => IsElement(e) /\ DecodeBytes(e) = [ok |-> TRUE, out |-> s]

\* IsElement, the q-th power, accepts exactly the powers of the generator, and
\* IsGenerator exactly those that generate all of them.
Subgroup(num) ==
  LET powers(a) == {Exponentiate(a, e) : e \in RandomExponent}
  IN num # Fatal =>
       /\ IsProbablyValid
       /\ IsElement(num) <=> num \in powers(G)
       /\ IsGenerator(num) <=> powers(num) = powers(G)
       /\ Multiply(num, InverseOf(num)) = 1

=============================================================================
