----------------------------- MODULE KeyCaller -----------------------------
(***************************************************************************)
(* Two callers of the keys.  One encrypts a string for the owner of a key  *)
(* or for a series of them, who take their layers off in any order.  The   *)
(* other, in DiffieHellman, proves which secret it shares with a peer, as  *)
(* in the rebuttal of an accusation; a liar proves another secret.  The    *)
(* hash is an oracle: any number for what the prover hashed.               *)
(***************************************************************************)
EXTENDS DsaKeys, FiniteSets

CONSTANTS
  Strings,    \* what is encrypted
  Keys,       \* private keys
  Rand,       \* what is drawn
  Hashes,     \* what a hash may give
  MaxKeys     \* owners of a series

VARIABLES
  data, keys, box, out,   \* the string, the owners left, the ciphertext, the result
  phase, stmt             \* what was done; the statement that is proved

vars == <<data, keys, box, out, phase, stmt>>

Init == data = <<>> /\ keys = <<>> /\ box = <<>> /\ out = <<>> /\ phase = "idle" /\ stmt = <<>>

-----------------------------------------------------------------------------
(* Encryption *)

Encrypt == \E s \in Strings, k \in Keys, v \in Rand :
  /\ phase = "idle" /\ phase' = "sealed"
  /\ data' = s /\ keys' = <<k>> /\ box' = DefaultEncrypt(GetPublicElement(k), s, v)
  /\ UNCHANGED <<out, stmt>>
Decrypt ==
  /\ phase = "sealed" /\ phase' = "open"
  /\ out' = IF box = Refused THEN <<>> ELSE DefaultDecrypt(keys[1], box)
  /\ UNCHANGED <<data, keys, box, stmt>>

EncryptSeries == \E s \in Strings, n \in 0..MaxKeys, v \in Rand : \E ks \in [1..n -> Keys] :
  /\ phase = "idle" /\ phase' = "series"
  /\ data' = s /\ keys' = ks
  /\ box' = SeriesEncrypt([i \in 1..n |-> GetPublicElement(ks[i])], s, v)
  /\ UNCHANGED <<out, stmt>>
Peel == \E i \in DOMAIN keys :
  /\ phase = "series" /\ box # Refused
  /\ box' = SeriesDecrypt(keys[i], box) /\ keys' = RemoveAt(keys, i)
  /\ UNCHANGED <<data, out, phase, stmt>>
Finish ==
  /\ phase = "series" /\ (keys = <<>> \/ box = Refused) /\ phase' = "open"
  /\ out' = IF box = Refused THEN <<>> ELSE SeriesDecryptFinish(box)
  /\ UNCHANGED <<data, keys, box, stmt>>

-----------------------------------------------------------------------------
(* DiffieHellman.  Crypto++ gives elements with all bytes of the modulus;  *)
(* GetByteArray drops the zeros in front.                                  *)

Width == Len(ToBytes(Modulus))
Fixed(a) == [i \in 1..(Width - Len(ToBytes(a))) |-> 0] \o ToBytes(a)
phi == Modulus - 1

\* Agree refuses what is no element of the group, or one.
GetPublicComponent(k) == Fixed(Pow(Generator, k))
GetSharedSecret(k, pub) ==
  LET a == FromBytes(pub) IN IF InGroup(a) /\ a # 1 THEN Fixed(Pow(a, k)) ELSE <<>>

\* The statement with the commitments, the hash and the answer.
ProveSharedSecret(k, pub, v, challenge) ==
  [hashed |-> <<GetPublicComponent(k), pub, GetSharedSecret(k, pub),
                GetPublicComponent(v), GetSharedSecret(v, pub)>>,
   hash |-> challenge,
   secret |-> GetSharedSecret(k, pub),
   response |-> (v - ((k * challenge) % phi)) % phi]

VerifyHashes(prover, pub, secret, challenge, response) ==
  <<prover, pub, secret,
    ToBytes(PowCascade(Generator, response, FromBytes(prover), challenge, Modulus)),
    ToBytes(PowCascade(FromBytes(pub), response, FromBytes(secret), challenge, Modulus))>>
VerifySharedSecret(prover, pub, p) ==
  IF VerifyHashes(prover, pub, p.secret, p.hash, p.response) = p.hashed THEN p.secret ELSE <<>>

Prove == \E k, peer \in Keys, v \in Rand, h \in Hashes :
  /\ phase = "idle" /\ phase' = "claim"
  /\ keys' = <<k, peer>>
  /\ stmt' = ProveSharedSecret(k, GetPublicComponent(peer), v, h)
  /\ UNCHANGED <<data, box, out>>
\* Another secret, in the statement that is hashed too.  Nothing tests whether it
\* is an element of the group.
Lie == \E f \in Keys \cup {0}, sign \in {1, Modulus - 1} :
  LET factor == Times(Pow(Generator, f), sign)
      lie == Fixed(Times(FromBytes(stmt.secret), factor))
  IN /\ phase = "claim" /\ phase' = "lie" /\ factor # 1
     /\ stmt' = [stmt EXCEPT !.secret = lie, !.hashed[3] = lie]
     /\ UNCHANGED <<data, keys, box, out>>
Check ==
  /\ phase \in {"claim", "lie"} /\ phase' = IF phase = "lie" THEN "lied" ELSE "checked"
  /\ out' = VerifySharedSecret(GetPublicComponent(keys[1]), GetPublicComponent(keys[2]), stmt)
  /\ UNCHANGED <<data, keys, box, stmt>>

Next == Encrypt \/ Decrypt \/ EncryptSeries \/ Peel \/ Finish \/ Prove \/ Lie \/ Check
Spec == Init /\ [][Next]_vars

-----------------------------------------------------------------------------
(* Properties *)

\* What was encrypted comes back, unless the number of a raw message looks like
\* a framed one: then Decode cuts the frame off.
StringComesBack == phase = "open" /\ box # Refused => out = data \/ (~SafePrime /\ Framed(data))

\* A true secret is accepted, unless a commitment starts with a zero byte: then
\* the prover hashes it with the zero and the verifier without.
SecretProved == phase = "checked" =>
  out = stmt.secret \/ \E i \in 4..5 : stmt.hashed[i][1] = 0

\* A wrong one only where the hash is a multiple of the order, but for the true
\* secret times -1: it passes wherever the hash is even (VerifySharedSecret).
TrueSecret == FromBytes(GetSharedSecret(keys[1], GetPublicComponent(keys[2])))
LieRefused == phase = "lied" /\ out # <<>> =>
  \/ ModSub(stmt.hash) = 0
  \/ FromBytes(out) = Modulus - TrueSecret /\ stmt.hash % 2 = 0

=============================================================================
