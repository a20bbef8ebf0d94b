------------------------------ MODULE DsaKeys ------------------------------
(***************************************************************************)
(* DsaPublicKey and DsaPrivateKey: ElGamal encryption with a DSA key, for  *)
(* one owner and for a series of them.  A message is a number of the group; *)
(* where the modulus is a safe prime, any short string between 0xff bytes. *)
(* Signatures with these keys are the library's.                           *)
(***************************************************************************)
EXTENDS BigInteger

CONSTANTS
  Modulus, Subgroup,   \* a prime, and the prime order of the subgroup
  Generator            \* a generator of it

Pow(a, e) == PowMod(a, e, Modulus)
Times(a, b) == (a * b) % Modulus
ModSub(n) == n % Subgroup
GetPublicElement(x) == Pow(Generator, x)
None == 0   \* the empty byte array, no element of the group

InGroup(a) == a < Modulus /\ Pow(a, Subgroup) = 1
SafePrime == 2 * Subgroup + 1 = Modulus
CanStore == Len(ToBytes(Subgroup)) - 4

\* The smallest padding that gives an element.
Encode(s) ==
  LET value(pad) == FromBytes(<<FF>> \o s \o <<pad, FF>>)
      fit == {pad \in 0..(FF - 1) : InGroup(value(pad))}
  IN IF ~SafePrime THEN IF InGroup(FromBytes(s)) THEN FromBytes(s) ELSE None
     ELSE IF CanStore < Len(s) \/ fit = {} THEN None
     ELSE value(CHOOSE pad \in fit : \A x \in fit : pad <= x)

Framed(s) == Len(s) >= 3 /\ s[1] = FF /\ s[Len(s)] = FF
Decode(a) ==
  LET data == ToBytes(a)
  IN IF ~InGroup(a) THEN <<>> ELSE IF Framed(data) THEN SubSeq(data, 2, Len(data) - 2) ELSE data

-----------------------------------------------------------------------------
(* Ciphertexts: the shared element and the encrypted one *)

KeyProduct(pubs) == FoldLeft(Times, 1, pubs)
Sealed(h, encoded, secret) == <<Pow(Generator, secret), Times(encoded, Pow(h, secret))>>
Refused == <<None, None>>

DefaultEncrypt(pub, s, secret) ==
  IF Encode(s) = None THEN Refused ELSE Sealed(pub, Encode(s), secret)

\* A key outside the group is only reported.
SeriesEncrypt(pubs, s, secret) ==
  IF pubs = <<>> \/ Encode(s) = None THEN Refused ELSE Sealed(KeyProduct(pubs), Encode(s), secret)

\* A number of bytes against a number of bits.
TooLarge(box) == \E i \in 1..2 : Len(ToBytes(box[i])) > BitCount(Modulus)
Opened(x, box) == Times(box[2], InverseMod(Pow(box[1], x), Modulus))

DefaultDecrypt(x, box) == IF TooLarge(box) THEN <<>> ELSE Decode(Opened(x, box))
SeriesDecrypt(x, box) == IF TooLarge(box) THEN Refused ELSE <<box[1], Opened(x, box)>>
SeriesDecryptFinish(box) == Decode(box[2])

=============================================================================
