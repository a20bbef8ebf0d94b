---------------------------- MODULE BigInteger ----------------------------
(***************************************************************************)
(* Integer: the arithmetic that the groups, keys and proofs rest on, and   *)
(* the bytes of a number.  A byte is a digit in base Byte, 256 in the code. *)
(***************************************************************************)
EXTENDS Integers, Sequences, SequencesExt

CONSTANT Byte    \* the values of a byte

FF == Byte - 1

PowMod(a, e, m) ==
  LET f[n \in Nat] == IF n = 0 THEN 1 % m
                      ELSE LET h == f[n \div 2]
                               s == (h * h) % m
                           IN IF n % 2 = 1 THEN (s * a) % m ELSE s
  IN f[e]
InverseMod(a, m) ==   \* 0 where there is none
  IF \E x \in 1..(m - 1) : (a * x) % m = 1 THEN CHOOSE x \in 1..(m - 1) : (a * x) % m = 1 ELSE 0
PowCascade(a1, e1, a2, e2, m) == (PowMod(a1, e1, m) * PowMod(a2, e2, m)) % m

\* GetByteArray and the constructor from bytes.
ToBytes(n) ==
  LET f[k \in Nat] == IF k < Byte THEN <<k>> ELSE Append(f[k \div Byte], k % Byte)
  IN f[n]
FromBytes(s) == FoldLeft(LAMBDA v, d : v * Byte + d, 0, s)
BitCount(n) ==
  LET f[k \in Nat] == IF k = 0 THEN 0 ELSE 1 + f[k \div 2]
  IN f[n]

=============================================================================
