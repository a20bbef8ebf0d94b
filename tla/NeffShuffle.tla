---------------------------- MODULE NeffShuffle ----------------------------
(***************************************************************************)
(* NeffShuffle: each server in turn encrypts the ciphertexts anew, sorts   *)
(* them, takes its layer off, and proves all that; the others verify.  The *)
(* proof is Neff's, with a shuffle of known exponents inside, and is made  *)
(* non-interactive: each challenge is drawn from a hash of all that was    *)
(* written before it.  The hash is an oracle, so a challenge is any number *)
(* once the lines before it are fixed.  Indices count from 0 as in the     *)
(* code.  A shuffler may put a changed message in, or a wrong decryption.  *)
(***************************************************************************)
EXTENDS DsaKeys, Functions

CONSTANTS
  K,            \* messages
  Privates,     \* the servers' private keys, in the order of the shuffles
  Texts,        \* elements that are sent
  Vectors,      \* what erand may give for K numbers, for one, and for the
  Scalars,      \* thetas
  Thetas,
  Challenges,   \* what a hash may give
  Factors       \* by which a shuffler changes an element, 1 for an honest one

VARIABLES
  texts, server, stage,   \* what was sent, whose turn it is, what is done
  input,                  \* its input
  sec, prf, chal,         \* its secrets, its proof, the challenges
  forged, ok              \* whether it cheats, what the others say

vars == <<texts, server, stage, input, sec, prf, chal, forged, ok>>

Idx == 0..(K - 1)
Theta0(k) == 0..(2 * k - 2)
Pubs == [i \in DOMAIN Privates |-> GetPublicElement(Privates[i])]
remaining_keys == SubSeq(Pubs, server, Len(Pubs))
h == KeyProduct(remaining_keys)   \* with the shuffler's own
x == Privates[server]
X(i) == input[i][1]
Y(i) == input[i][2]
Product(f, s) == FoldFunctionOnSet(Times, 1, f, s)
Sum(f, s) == FoldFunctionOnSet(LAMBDA a, b : ModSub(a + b), 0, f, s)
Inv(a) == InverseMod(ModSub(a), Subgroup)
Extend(r, s) == [f \in DOMAIN r \cup DOMAIN s |-> IF f \in DOMAIN s THEN s[f] ELSE r[f]]

\* A length, then the digits: the bytes of two pairs are in the order of the
\* numbers; equal ones stay in the order of the input.
Before(a, b) == a[1] < b[1] \/ (a[1] = b[1] /\ a[2] < b[2])
Order(bar) ==
  LET s == SetToSortSeq(Idx, LAMBDA i, j : Before(bar[i], bar[j]) \/ (bar[i] = bar[j] /\ i < j))
  IN [i \in Idx |-> s[i + 1]]
InvPi(pi) == [i \in Idx |-> CHOOSE j \in Idx : pi[j] = i]

-----------------------------------------------------------------------------
(* Shuffle *)

Init ==
  /\ texts \in [Idx -> Texts] /\ server = 1 /\ stage = "input"
  /\ \E v \in Vectors : input = [i \in Idx |-> SeriesEncrypt(Pubs, ToBytes(texts[i]), v[i])]
  /\ sec = <<>> /\ prf = <<>> /\ chal = <<>> /\ forged = FALSE /\ ok = TRUE

\* Reencryption and mixing.
Mix == \E beta \in Vectors, f \in Factors :
  LET bar == [i \in Idx |-> <<Times(X(i), Pow(Generator, beta[i])),
                              Times(Times(Y(i), Pow(h, beta[i])), IF i = 0 THEN f ELSE 1)>>]
      pi == Order(bar)
  IN /\ stage = "input" /\ stage' = "mixed"
     /\ sec' = [beta |-> beta, pi |-> pi]
     /\ prf' = [output |-> [i \in Idx |-> bar[pi[i]]]]
     /\ forged' = (f # 1)
     /\ UNCHANGED <<texts, server, input, chal, ok>>

DeltaSum(beta, w, pi, tau_0) == ModSub(tau_0 + Sum([i \in Idx |-> w[i] * beta[pi[i]]], Idx))
Share == \E u, w, a \in Vectors, gamma, tau_0 \in Scalars :
  LET pi == sec.pi
      inv == InvPi(pi)
      delta == DeltaSum(sec.beta, w, pi, tau_0)
      multi(z(_)) == Product([i \in Idx |-> Pow(z(i), ModSub(w[inv[i]] - u[i]))], Idx)
  IN /\ stage = "mixed" /\ stage' = "shared"
     /\ sec' = Extend(sec, [u |-> u, w |-> w, a |-> a, gamma |-> gamma, tau_0 |-> tau_0])
     /\ prf' = Extend(prf,
          [Gamma |-> Pow(Generator, gamma),
           A |-> [i \in Idx |-> Pow(Generator, a[i])],
           C |-> [i \in Idx |-> Pow(Pow(Generator, a[pi[i]]), gamma)],
           U |-> [i \in Idx |-> Pow(Generator, u[i])],
           W |-> [i \in Idx |-> Pow(Generator, ModSub(gamma * w[i]))],
           Delta_0 |-> Times(Pow(Generator, delta), multi(X)),
           Delta_1 |-> Times(Pow(h, delta), multi(Y))])
     /\ UNCHANGED <<texts, server, input, chal, forged, ok>>

\* Parts 2 and 3.
b(i) == ModSub(chal.p[i] - sec.u[i])
ChallengeP == \E p \in [Idx -> Challenges] :
  /\ stage = "shared" /\ stage' = "challenged"
  /\ chal' = [p |-> p]
  /\ UNCHANGED <<texts, server, input, sec, prf, forged, ok>>
ShareD ==
  /\ stage = "challenged" /\ stage' = "D"
  /\ prf' = Extend(prf, [D |-> [i \in Idx |-> Pow(Generator, ModSub(sec.gamma * b(sec.pi[i])))]])
  /\ UNCHANGED <<texts, server, input, sec, chal, forged, ok>>

\* Parts 4 and 5.
r(i) == ModSub(sec.a[i] + chal.lambda * b(i))
s(i) == ModSub(sec.gamma * r(sec.pi[i]))
Answer == \E lambda \in Challenges :
  /\ stage = "D" /\ stage' = "answered"
  /\ chal' = Extend(chal, [lambda |-> lambda])
  /\ prf' = Extend(prf,
       [tau |-> ModSub(Subgroup - sec.tau_0 + Sum([i \in Idx |-> b(i) * sec.beta[i]], Idx)),
        sigma |-> [i \in Idx |-> ModSub(sec.w[i] + b(sec.pi[i]))]])
  /\ UNCHANGED <<texts, server, input, sec, forged, ok>>

\* Part 6: the shuffle of known exponents, up to the last challenge.
r_t(i) == ModSub(r(i) - chal.t)
s_t(i) == ModSub(s(i) - sec.gamma * chal.t)
ChallengeT == \E t \in Challenges :
  /\ stage = "answered" /\ stage' = "t"
  /\ chal' = Extend(chal, [t |-> t])
  /\ UNCHANGED <<texts, server, input, sec, prf, forged, ok>>
ShareTheta == \E theta \in Thetas :
  LET e(i) == IF i = 0 THEN Subgroup - ModSub(theta[0] * s_t(0))
              ELSE IF i < K THEN ModSub(theta[i - 1] * r_t(i) - theta[i] * s_t(i))
              ELSE IF i < 2 * K - 1 THEN ModSub(sec.gamma * theta[i - 1] - theta[i])
              ELSE ModSub(sec.gamma * theta[2 * K - 2])
  IN /\ stage = "t" /\ stage' = "Theta"
     /\ sec' = Extend(sec, [theta |-> theta])
     /\ prf' = Extend(prf, [Theta |-> [i \in 0..(2 * K - 1) |-> Pow(Generator, e(i))]])
     /\ UNCHANGED <<texts, server, input, chal, forged, ok>>
Alpha(c) ==
  LET ratio == [i \in Idx |-> r_t(i) * Inv(s_t(i))]
      multi(i) == FoldFunctionOnSet(LAMBDA y, z : ModSub(y * z), ModSub(c), ratio, 0..i)
  IN [i \in Theta0(K) |->
        ModSub(sec.theta[i] + IF i < K THEN multi(i)
                              ELSE c * PowMod(Inv(sec.gamma), 2 * K - i - 1, Subgroup))]
AnswerAlpha == \E c \in Challenges :
  /\ stage = "Theta" /\ stage' = "alpha"
  /\ chal' = Extend(chal, [c |-> c])
  /\ prf' = Extend(prf, [alpha |-> Alpha(c)])
  /\ UNCHANGED <<texts, server, input, sec, forged, ok>>

\* Part 8: verifiable decryption.
Decrypt == \E t \in Vectors, c \in [Idx -> Challenges], f \in Factors :
  LET o == prf.output
      wrong(box, i) == <<box[1], IF i = 0 THEN Times(box[2], f) ELSE box[2]>>
  IN /\ stage = "alpha" /\ stage' = "proved"
     /\ f # 1 => ~forged
     /\ prf' = Extend(prf,
          [decrypted |-> [i \in Idx |-> wrong(SeriesDecrypt(x, o[i]), i)],
           decryption_proof |-> [i \in Idx |-> <<Pow(o[i][1], t[i]), ModSub(t[i] + c[i] * x)>>]])
     /\ chal' = Extend(chal, [d |-> c])
     /\ forged' = (forged \/ f # 1)
     /\ UNCHANGED <<texts, server, input, sec, ok>>

-----------------------------------------------------------------------------
(* Verify *)

InputsOK == \A i \in Idx : InGroup(X(i)) /\ InGroup(Y(i))
OutputOK ==
  /\ DOMAIN prf.output = Idx
  /\ \A i \in Idx \ {0} : ~Before(prf.output[i], prf.output[i - 1])
SimpleKShuffleOK ==
  LET neg(n) == Subgroup - n
      B(i) == Times(Pow(Generator, chal.p[i]), InverseMod(prf.U[i], Modulus))
      R(i) == Times(Times(prf.A[i], Pow(B(i), chal.lambda)), Pow(Generator, neg(chal.t)))
      S(i) == Times(Times(prf.C[i], Pow(prf.D[i], chal.lambda)), Pow(prf.Gamma, neg(chal.t)))
      al == prf.alpha
      expected(i) ==
        IF i = 0 THEN Times(Pow(R(0), chal.c), Pow(S(0), neg(al[0])))
        ELSE IF i < K THEN Times(Pow(R(i), al[i - 1]), Pow(S(i), neg(al[i])))
        ELSE IF i < 2 * K - 1 THEN Times(Pow(prf.Gamma, al[i - 1]), Pow(Generator, neg(al[i])))
        ELSE Times(Pow(prf.Gamma, al[2 * K - 2]), Pow(Generator, neg(chal.c)))
  IN \A i \in 0..(2 * K - 1) : prf.Theta[i] = expected(i)
IotaOK ==
  LET iota(n, z(_)) == Product([i \in Idx |-> Times(Pow(prf.output[i][n], prf.sigma[i]),
                                                    Pow(z(i), Subgroup - chal.p[i]))], Idx)
  IN /\ \A i \in Idx : Pow(prf.Gamma, prf.sigma[i]) = Times(prf.W[i], prf.D[i])
     /\ iota(1, X) = Times(prf.Delta_0, Pow(Generator, prf.tau))
     /\ iota(2, Y) = Times(prf.Delta_1, Pow(h, prf.tau))
DecryptionOK == \A i \in Idx :
  LET in == prf.output[i]
      out == prf.decrypted[i]
      pair == Times(in[2], InverseMod(out[2], Modulus))
      T == prf.decryption_proof[i][1]
  IN in[1] = out[1] /\ Pow(out[1], prf.decryption_proof[i][2]) = Times(T, Pow(pair, chal.d[i]))

Verify ==
  /\ stage = "proved" /\ stage' = "verified"
  /\ ok' = (InputsOK /\ OutputOK /\ SimpleKShuffleOK /\ IotaOK /\ DecryptionOK)
  /\ UNCHANGED <<texts, server, input, sec, prf, chal, forged>>

\* The next server shuffles what was verified.
Advance ==
  /\ stage = "verified" /\ ok /\ ~forged /\ server < Len(Privates)
  /\ server' = server + 1 /\ stage' = "input" /\ input' = prf.decrypted
  /\ sec' = <<>> /\ prf' = <<>> /\ chal' = <<>>
  /\ UNCHANGED <<texts, forged, ok>>

Next == Mix \/ Share \/ ChallengeP \/ ShareD \/ Answer \/ ChallengeT \/ ShareTheta
        \/ AnswerAlpha \/ Decrypt \/ Verify \/ Advance
Spec == Init /\ [][Next]_vars

-----------------------------------------------------------------------------
(* Properties *)

\* No inverse is missing: t meets none of the exponents, gamma is not zero.
Regular == ModSub(sec.gamma) # 0 /\ \A i \in Idx : s_t(i) # 0

\* Verify accepts what Shuffle makes, whatever is drawn, if no number that is
\* inverted on the way is zero.
HonestPass == stage = "verified" /\ ~forged /\ Regular => ok

\* A changed message or decryption passes only where one challenge has the one
\* value that takes the change out of the equation.
OneChallenge == stage = "verified" /\ forged /\ ok =>
  \/ \E i \in Idx : prf.sigma[i] = 0
  \/ \E i \in Idx : ModSub(chal.d[i]) = 0

\* What comes out of the last shuffle is what was sent, in another order.
SameTexts == stage = "verified" /\ ~forged /\ server = Len(Privates) =>
  \E pi \in Permutations(Idx) : \A i \in Idx :
    SeriesDecryptFinish(prf.decrypted[i]) = ToBytes(texts[pi[i]])

=============================================================================
