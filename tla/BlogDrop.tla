------------------------------ MODULE BlogDrop ------------------------------
(***************************************************************************)
(* The ciphertexts of BlogDrop and their proofs.  A client proves that its *)
(* ciphertext carries nothing or that it knows the author's key; a server  *)
(* proves that it removed its share.  ElGamal ciphertexts have a one-time  *)
(* key per element, those with a hashed generator use the client's key.    *)
(*                                                                         *)
(* The proofs are made non-interactive by a hash of the statement and the  *)
(* commitments.  The hash is an oracle: any value for what the prover      *)
(* hashed, and no value it could have wanted for anything else.  But for a *)
(* client's ElGamal ciphertext the hash is read a second time, when it has *)
(* been restarted: the challenge is the hash of nothing, one constant.     *)
(***************************************************************************)
EXTENDS IntegerGroup, TLC

CONSTANTS
  ProofType,   \* "ElGamal" or "HashingGenerator"
  NElements,   \* elements of a ciphertext
  Generator,   \* Generator[i]: GetHashedGenerator of this phase, a generator
  Keys,        \* private keys
  EmptyHash,   \* the hash of nothing, modulo the order
  Digest,      \* Digest[a]: the hash of an element, as a number
  Rand,        \* what RandomExponent may give
  Messages     \* plaintext elements

Idx == 1..NElements

ModQ(n) == n % Q
PublicKey(x) == Exponentiate(G, x)
PublicKeySet(keys) == FoldLeft(Multiply, 1, keys)
Plain(ms) == \A i \in Idx : IsIdentity(ms[i])
ElGamal == ProofType = "ElGamal"
Flatten(ss) == FoldLeft(LAMBDA s, t : s \o t, <<>>, ss)

-----------------------------------------------------------------------------
(* Client ciphertexts: challenges, elements, keys (one-time keys for ElGamal, *)
(* the client's own otherwise) and responses                                 *)

Commit(l, ts, h) == [l |-> l, ts |-> ts, h |-> h]   \* what is hashed, and to what
ElGamalCommit == EmptyHash                          \* ElGamalClientCiphertext::Commit
Challenges == IF ElGamal THEN {ElGamalCommit} ELSE 0..(Q - 1)

\* Both constructors of a ciphertext, with and without its bytes.
ElGamalElements(xs, spk) == [i \in Idx |-> Exponentiate(spk, xs[i])]
InitCiphertext(x) == [i \in Idx |-> Exponentiate(Generator[i], x)]
WithMessage(els, ms) == [i \in Idx |-> Multiply(els[i], ms[i])]
ElGamalFromBytes(s) ==
  LET n == NElements
  IN [c1 |-> s[1], c2 |-> s[2], els |-> SubSeq(s, 3, 2 + n), pubs |-> SubSeq(s, 3 + n, 2 + 2 * n),
      rs |-> SubSeq(s, 3 + 2 * n, Len(s)), ok |-> Len(s) = 2 + n + n + (1 + n)]
ElGamalGetByteArray(c) == <<c.c1, c.c2>> \o c.els \o c.pubs \o c.rs
ChangingGenFromBytes(s, pubs) ==
  [c1 |-> s[1], c2 |-> s[2], rs |-> SubSeq(s, 3, 4), els |-> SubSeq(s, 5, Len(s)),
   pubs |-> pubs, ok |-> Len(s) = 4 + NElements]
ChangingGenGetByteArray(c) == <<c.c1, c.c2>> \o c.rs \o c.els

\* InitializeLists: bases and values; the first pair is the author's key.
ElGamalLists(els, pubs, spk, author) ==
  [gs |-> <<G>> \o Flatten([i \in Idx |-> <<G, spk>>]),
   ys |-> <<author>> \o Flatten([i \in Idx |-> <<pubs[i], els[i]>>])]
ChangingGenLists(els, pubs, author) == [gs |-> <<G, G>> \o Generator, ys |-> <<author>> \o pubs \o els]
Lists(els, pubs, spk, author) ==
  IF ElGamal THEN ElGamalLists(els, pubs, spk, author) ELSE ChangingGenLists(els, pubs, author)
SecretOf(j) == IF ElGamal THEN j \div 2 ELSE 1   \* the secret that pair j is about

\* SetAuthorProof: the client's part is simulated with w.
AuthorCommit(l, w, vs, va) ==
  <<Exponentiate(G, va)>> \o
  [k \in 1..(Len(l.gs) - 1) |-> CascadeExponentiate(l.ys[k + 1], w, l.gs[k + 1], vs[SecretOf(k + 1)])]
BareAnswer(a, w, vs, va, h) ==   \* mutant: the answer is for the whole hash
  [c1 |-> ModQ(h - w), c2 |-> w, rs |-> <<ModQ(va - h * a)>> \o vs]
AuthorAnswer(a, w, vs, va, h) ==
  [c1 |-> ModQ(h - w), c2 |-> w, rs |-> <<ModQ(va - ModQ(h - w) * a)>> \o vs]

\* SetProof: the author's part is simulated with w.
CoverCommit(l, w, vs, va) ==
  <<CascadeExponentiate(l.ys[1], w, G, va)>> \o
  [k \in 1..(Len(l.gs) - 1) |-> Exponentiate(l.gs[k + 1], vs[SecretOf(k + 1)])]
CoverAnswer(xs, w, vs, va, h) ==
  [c1 |-> w, c2 |-> ModQ(h - w),
   rs |-> <<va>> \o [i \in DOMAIN vs |-> ModQ(vs[i] - ModQ(h - w) * xs[i])]]

\* VerifyProof: the commitments that the answer belongs to.
KeyCommits(l, c) ==   \* mutant: nothing about the elements
  [j \in 1..Len(l.gs) |->
     IF j = 1 \/ l.gs[j] # G THEN 1
     ELSE CascadeExponentiate(l.ys[j], c.c2, l.gs[j], c.rs[1 + SecretOf(j)])]
VerifyCommit(l, c) ==
  [j \in 1..Len(l.gs) |->
     IF j = 1 THEN CascadeExponentiate(l.ys[1], c.c1, G, c.rs[1])
     ELSE CascadeExponentiate(l.ys[j], c.c2, l.gs[j], c.rs[1 + SecretOf(j)])]
ElGamalVerifyProof(c) ==   \* the commitments have no part in the challenge
  /\ c.ok /\ \A i \in Idx : IsElement(c.pubs[i]) /\ IsElement(c.els[i])
  /\ ModQ(c.c1 + c.c2) = ElGamalCommit
ChangingGenVerifyProof(c, author, o) ==
  /\ c.ok /\ \A i \in Idx : IsElement(c.els[i])
  /\ LET l == ChangingGenLists(c.els, c.pubs, author)
     IN o = Commit(l, VerifyCommit(l, c), ModQ(c.c1 + c.c2))

-----------------------------------------------------------------------------
(* Server ciphertexts: the inverse of the base of every element, which is   *)
(* the product of the clients' one-time keys or the hashed generator, to    *)
(* the power of the server's key                                            *)

CreateClientKeySets(pubs) == [i \in Idx |-> PublicKeySet([c \in DOMAIN pubs |-> pubs[c][i]])]
Bases(pubs) == IF ElGamal THEN CreateClientKeySets(pubs) ELSE Generator
Share(bases, s) == [i \in Idx |-> InverseOf(Exponentiate(bases[i], s))]
ServerCommit(bases, v) == <<Exponentiate(G, v)>> \o [i \in Idx |-> InverseOf(Exponentiate(bases[i], v))]
ServerAnswer(s, v, h) == [c |-> h, r |-> ModQ(v - ModQ(h * s))]
ServerLists(bases, els, pub) == [gs |-> <<G>> \o bases, ys |-> <<pub>> \o els]
ServerVerifyCommit(bases, els, pub, a) ==
  <<CascadeExponentiate(G, a.r, pub, a.c)>> \o
  [i \in Idx |-> Multiply(InverseOf(Exponentiate(bases[i], a.r)), Exponentiate(els[i], a.c))]
\* The element is looked at only where the key is no element.
ElGamalServerVerifyProof(bases, els, pub, a, o) ==
  /\ IsElement(pub) /\ \A i \in Idx : IsElement(bases[i]) \/ ~IsElement(els[i])
  /\ o = Commit(ServerLists(bases, els, pub), ServerVerifyCommit(bases, els, pub, a), a.c)
ChangingGenServerVerifyProof(bases, els, pub, a, o) ==
  /\ IsElement(pub) /\ \A i \in Idx : IsElement(els[i])
  /\ o = Commit(ServerLists(bases, els, pub), ServerVerifyCommit(bases, els, pub, a), a.c)

GetMasterSharedSecrets(x, pubs) ==
  FoldLeft(LAMBDA n, p : ModQ(n + Digest[Exponentiate(p, x)]), 0, pubs)

\* PublicKey::ProveKnowledge and VerifyKnowledge.
KnowledgeAnswer(x, v, h) == [c |-> h, r |-> ModQ(v - h * x)]
VerifyKnowledge(pub, a, o) == o = Commit(pub, CascadeExponentiate(G, a.r, pub, a.c), a.c)

-----------------------------------------------------------------------------
(* Two clients, the second of them the author, and two servers: the author's *)
(* ciphertext is made, sent and checked, the first server closes the bin and *)
(* the second checks its share and reveals.                                  *)

VARIABLES
  step, ser,      \* what was done last; the servers' private keys
  cover, xs,      \* the other client's keys, and this client's
  auth, ms,       \* the author's key, what this client sends
  msg, oracle, ok \* what is sent, what was hashed for it, the verdict

vars == <<step, ser, cover, xs, auth, ms, msg, oracle, ok>>
spkey == PublicKeySet(<<PublicKey(ser[1]), PublicKey(ser[2])>>)
apub == PublicKey(auth)
Pubs(ks) == [i \in DOMAIN ks |-> PublicKey(ks[i])]
Elements(ks) == IF ElGamal THEN ElGamalElements(ks, spkey) ELSE InitCiphertext(ks[1])
bin == Bases(<<Pubs(cover), Pubs(xs)>>)

\* ElGamal clients draw a key per element; the others and the servers use the
\* sum of what they share with each other.
Init ==
  /\ step = "keys" /\ auth \in Keys /\ ms \in [Idx -> Messages]
  /\ \/ ElGamal /\ ser \in [1..2 -> Keys] /\ xs \in [Idx -> Keys] /\ cover \in [Idx -> Keys]
     \/ /\ ~ElGamal
        /\ \E s \in [1..2 -> Keys], x \in [1..2 -> Keys] :
             /\ ser = [j \in 1..2 |-> GetMasterSharedSecrets(s[j], Pubs(x))]
             /\ cover = <<GetMasterSharedSecrets(x[1], Pubs(s))>>
             /\ xs = <<GetMasterSharedSecrets(x[2], Pubs(s))>>
  /\ msg = <<>> /\ oracle = <<>> /\ ok = FALSE

\* A key is published with a proof that its owner knows it.
ProveKnowledge == \E v \in Rand, h \in 0..(Q - 1) :
  /\ step = "keys" /\ step' = "known"
  /\ ok' = VerifyKnowledge(apub, KnowledgeAnswer(auth, v, h), Commit(apub, Exponentiate(G, v), h))
  /\ UNCHANGED <<ser, cover, xs, auth, ms, msg, oracle>>

\* GenerateCoverCiphertext: SetProof.
GenerateCoverCiphertext == \E w \in Rand, va \in Rand, h \in Challenges : \E vs \in [DOMAIN xs -> Rand] :
  LET els == Elements(xs)
      l == Lists(els, Pubs(xs), spkey, apub)
      c == [els |-> els, pubs |-> Pubs(xs)] @@ CoverAnswer(xs, w, vs, va, h)
  IN /\ step = "known" /\ step' = "made" /\ Plain(ms)
     /\ msg' = IF ElGamal THEN ElGamalGetByteArray(c) ELSE ChangingGenGetByteArray(c)
     /\ oracle' = Commit(l, CoverCommit(l, w, vs, va), h)
     /\ UNCHANGED <<ser, cover, xs, auth, ms, ok>>

\* GenerateAuthorCiphertext: SetAuthorProof.
GenerateAuthorCiphertext == \E w \in Rand, va \in Rand, h \in Challenges : \E vs \in [DOMAIN xs -> Rand] :
  LET els == WithMessage(Elements(xs), ms)
      l == Lists(els, Pubs(xs), spkey, apub)
      c == [els |-> els, pubs |-> Pubs(xs)] @@ AuthorAnswer(auth, w, vs, va, h)
  IN /\ step = "known" /\ step' = "made" /\ ~Plain(ms)
     /\ msg' = IF ElGamal THEN ElGamalGetByteArray(c) ELSE ChangingGenGetByteArray(c)
     /\ oracle' = Commit(l, AuthorCommit(l, w, vs, va), h)
     /\ UNCHANGED <<ser, cover, xs, auth, ms, ok>>

CheckClient ==
  LET c == IF ElGamal THEN ElGamalFromBytes(msg) ELSE ChangingGenFromBytes(msg, Pubs(xs))
  IN /\ step = "made" /\ step' = "checked"
     /\ ok' = IF ElGamal THEN ElGamalVerifyProof(c)
              ELSE ChangingGenVerifyProof(c, apub, oracle)
     /\ msg' = c.els /\ oracle' = <<>>
     /\ UNCHANGED <<ser, cover, xs, auth, ms>>

\* Plaintext::Reveal of all ciphertexts.
Reveal(cs) == FoldLeft(WithMessage, [i \in Idx |-> 1], cs)

\* CloseBin at the first server, AddServerCiphertext and RevealPlaintext at the
\* second.
CloseBin == \E v \in Rand, h \in 0..(Q - 1) :
  LET els == Share(bin, ser[1])
      pub == PublicKey(ser[1])
      o == Commit(ServerLists(bin, els, pub), ServerCommit(bin, v), h)
      a == ServerAnswer(ser[1], v, h)
  IN /\ step = "checked" /\ step' = "revealed"
     /\ ok' = IF ElGamal THEN ElGamalServerVerifyProof(bin, els, pub, a, o)
              ELSE ChangingGenServerVerifyProof(bin, els, pub, a, o)
     /\ msg' = Reveal(<<Elements(cover), msg, els, Share(bin, ser[2])>>)
     /\ UNCHANGED <<ser, cover, xs, auth, ms, oracle>>

Next == ProveKnowledge \/ GenerateCoverCiphertext \/ GenerateAuthorCiphertext \/ CheckClient \/ CloseBin
Spec == Init /\ [][Next]_vars

-----------------------------------------------------------------------------
(* Properties *)

\* Whatever is drawn and hashed, honest ciphertexts pass VerifyProof after their
\* trip through bytes: covers, authors' and servers' alike, and so do the proofs
\* that come with keys.
HonestPass == step \in {"known", "checked", "revealed"} => ok

\* What the servers reveal is exactly the author's message: the keys of all
\* clients and servers cancel (Plaintext::Reveal), also those that are sums of
\* shared secrets.
Revealed == step = "revealed" => msg = ms

\* With hashed generators a ciphertext that carries something is accepted for at
\* most one second challenge: whoever cannot give the author's answer is caught by
\* the hash.  An ElGamal ciphertext has no such property, its challenge being a
\* constant (ChangingGenClientCiphertext::VerifyProof, ElGamalCommit).
ClientCaught ==
  LET l == Lists(WithMessage(Elements(xs), ms), Pubs(xs), spkey, apub)
      fits == {<<c2, VerifyCommit(l, [c1 |-> 0, c2 |-> c2, rs |-> <<0>> \o rs])>> :
                 c2 \in 0..(Q - 1), rs \in [DOMAIN xs -> 0..(Q - 1)]}
  IN \A a, b \in fits : a[2] = b[2] => a[1] = b[1]

\* A server's wrong share, which may lie outside the group of squares, is accepted
\* for at most one challenge; an ElGamal share that is true up to its sign, which
\* no test of the element keeps out, for those of one parity (VerifyProof).
ServerCaught ==
  LET true == Share(bin, ser[1])
      pub == PublicKey(ser[1])
      Verify(els, a, o) == IF ElGamal THEN ElGamalServerVerifyProof(bin, els, pub, a, o)
                           ELSE ChangingGenServerVerifyProof(bin, els, pub, a, o)
      Hashed(els, a) == Commit(ServerLists(bin, els, pub), ServerVerifyCommit(bin, els, pub, a), a.c)
      Fits(els) == {o \in {Hashed(els, [c |-> c, r |-> r]) : c \in 0..(Q - 1), r \in 0..(Q - 1)} :
                      \E r \in 0..(Q - 1) : Verify(els, [c |-> o.h, r |-> r], o)}
  IN \A m \in {ms, [i \in Idx |-> 1]}, sign \in [Idx -> {1, P - 1}] :
       LET els == WithMessage(WithMessage(true, m), sign)
       IN els # true => \A a, b \in Fits(els) : a.ts = b.ts =>
            a.h = b.h \/ (ElGamal /\ Plain(m) /\ a.h % 2 = b.h % 2)

OneChallenge ==
  (step = "keys" /\ ~Plain(ms) /\ \A i \in DOMAIN xs : xs[i] # 0) =>
    (ElGamal \/ ClientCaught) /\ ServerCaught
=============================================================================
