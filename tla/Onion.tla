------------------------------- MODULE Onion -------------------------------
(***************************************************************************)
(* OnionEncryptor and ThreadedOnionEncryptor: clients wrap their message   *)
(* in one layer per server, the servers take the layers off in the other   *)
(* order, mix, and publish what they have; at the end they reveal their    *)
(* keys and everyone verifies all layers.  Decryption may run on a pool of *)
(* threads.  A ciphertext is the key with what is inside; a server may put *)
(* something else in place of a message.                                   *)
(***************************************************************************)
EXTENDS Integers, Sequences, SequencesExt, FiniteSets, Functions

CONSTANTS
  Keys,       \* the servers' keys, first the innermost
  Clients,    \* a number
  Texts       \* messages; the empty one is <<>>

VARIABLES
  invalid,               \* the keys that could not be read
  texts, intermediate,   \* the messages, and each client's ciphertexts
  level, cipher,         \* layers left, the current ciphertexts
  clear, bad, swaps,     \* what the pool has decrypted, what it could not, swaps done
  onion,                 \* what was published, the cleartexts first
  replaced, verdict, stage

vars ==
  <<invalid, texts, intermediate, level, cipher, clear, bad, swaps, onion, replaced, verdict, stage>>

Empty == <<>>
Idx == 1..Clients
Layers == Len(Keys)
Pending == <<"pending">>

Encrypt1(k, m) == IF k \in invalid THEN Empty ELSE <<k, m>>
Decrypt1(k, c) == IF c # Empty /\ c[1] = k /\ k \notin invalid THEN c[2] ELSE Empty

\* Encrypt: all ciphertexts but the last of several, and the key that failed.
Wrapped(m, n) ==
  LET f[i \in 0..n] == IF i = 0 THEN m ELSE Encrypt1(Keys[i], f[i - 1]) IN f[n]
Failed(m) == {i \in 1..Layers : Wrapped(m, i) = Empty}
Intermediate(m) == [i \in 1..(IF Layers > 1 THEN Layers - 1 ELSE Layers) |-> Wrapped(m, i)]

\* ReorderRandomBits: by layer instead of by client.
Ragged(in) == \E i \in DOMAIN in : Len(in[i]) # Len(in[1])
ReorderRandomBits(in) ==
  IF in = <<>> \/ Ragged(in) THEN <<>>
  ELSE [j \in 1..Len(in[1]) |-> [i \in DOMAIN in |-> in[i][j]]]

Init ==
  /\ invalid \in {{}, {Keys[1]}, {Keys[Layers]}}
  /\ texts \in [Idx -> Texts] /\ intermediate = <<>> /\ level = Layers
  /\ cipher = <<>> /\ clear = <<>> /\ bad = <<>> /\ swaps = 0 /\ onion = <<>>
  /\ replaced = {} /\ verdict = {} /\ stage = "texts"

Encrypt ==
  /\ stage = "texts"
  /\ stage' = IF \E i \in Idx : Failed(texts[i]) # {} THEN "failed" ELSE "ready"
  /\ cipher' = [i \in Idx |-> Wrapped(texts[i], Layers)]
  /\ intermediate' = [i \in Idx |-> Intermediate(texts[i])]
  /\ onion' = <<cipher'>>
  /\ UNCHANGED <<invalid, texts, level, clear, bad, swaps, replaced, verdict>>

\* Decrypt on one thread, in the order of the vector.
BadOnes(c) == SelectSeq([i \in DOMAIN c |-> i], LAMBDA i : c[i] = Empty)
Decrypt ==
  LET out == [i \in Idx |-> Decrypt1(Keys[level], cipher[i])]
  IN /\ stage = "ready" /\ level > 0 /\ stage' = "mixing" /\ swaps' = 0
     /\ clear' = out /\ bad' = BadOnes(out)
     /\ UNCHANGED <<invalid, texts, intermediate, level, cipher, onion, replaced, verdict>>

\* On a pool: each ciphertext by some thread, in any order; the caller waits for
\* all and goes through the results by index.
StartPool ==
  /\ stage = "ready" /\ level > 0 /\ stage' = "pool" /\ clear' = [i \in Idx |-> Pending]
  /\ UNCHANGED <<invalid, texts, intermediate, level, cipher, bad, swaps, onion, replaced, verdict>>
Work == \E i \in Idx :
  /\ stage = "pool" /\ clear[i] = Pending
  /\ clear' = [clear EXCEPT ![i] = Decrypt1(Keys[level], cipher[i])]
  /\ UNCHANGED <<invalid, texts, intermediate, level, cipher, bad, swaps, onion, replaced, verdict, stage>>
Collect ==
  /\ stage = "pool" /\ \A i \in Idx : clear[i] # Pending
  /\ stage' = "mixing" /\ swaps' = 0 /\ bad' = BadOnes(clear)
  /\ UNCHANGED <<invalid, texts, intermediate, level, cipher, clear, onion, replaced, verdict>>

\* RandomPermutation: each place is swapped with any.
Swap(f, i, j) == [f EXCEPT ![i] = f[j], ![j] = f[i]]
Permute == \E j \in Idx :
  /\ stage = "mixing" /\ swaps < Clients
  /\ clear' = Swap(clear, swaps + 1, j) /\ swaps' = swaps + 1
  /\ UNCHANGED <<invalid, texts, intermediate, level, cipher, bad, onion, replaced, verdict, stage>>

\* The server publishes, with one message replaced or not.
Publish(c) ==
  /\ stage = "mixing" /\ swaps = Clients
  /\ cipher' = c /\ onion' = <<c>> \o onion /\ level' = level - 1
  /\ replaced' = IF c = clear THEN replaced ELSE replaced \cup {level}
  /\ stage' = IF level = 1 THEN "clear" ELSE "ready"
  /\ clear' = <<>> /\ swaps' = 0
  /\ UNCHANGED <<invalid, texts, intermediate, bad, verdict>>
Honest == Publish(clear)
Replace == \E i \in Idx : Publish([clear EXCEPT ![i] = <<"other">>]) /\ clear[i] # <<"other">>

\* VerifyAll: the layers that do not fit.
VerifyOne(k, c, e) == \A i \in DOMAIN e : \E j \in DOMAIN c : c[j] = Decrypt1(k, e[i])
VerifyAll ==
  /\ stage = "clear" /\ stage' = "verified"
  /\ verdict' = {i \in 1..Layers : ~VerifyOne(Keys[i], onion[i], onion[i + 1])}
  /\ UNCHANGED <<invalid, texts, intermediate, level, cipher, clear, bad, swaps, onion, replaced>>

Next == Encrypt \/ Decrypt \/ StartPool \/ Work \/ Collect \/ Permute \/ Honest \/ Replace
        \/ VerifyAll
Spec == Init /\ [][Next]_vars

-----------------------------------------------------------------------------
(* Properties *)

SameBag(a, b) == \E pi \in Permutations(Idx) : \A i \in Idx : a[i] = b[pi[i]]

\* The messages are out, each layer in between is what the clients made, and only
\* empty messages were reported as bad.
AllOut ==
  /\ SameBag(onion[1], texts) /\ verdict = {}
  /\ \A j \in 1..(Layers - 1) : SameBag(onion[j + 1], ReorderRandomBits(intermediate)[j])
  /\ Len(bad) = Cardinality({i \in Idx : texts[i] = Empty})

\* Encrypt names the first key that does not work; with keys that do, and without
\* a replacement, VerifyAll finds nothing and the messages are out.
PeelsToTexts ==
  /\ stage = "failed" => \A i \in Idx :
       \E k \in Failed(texts[i]) : Keys[k] \in invalid /\ \A j \in Failed(texts[i]) : k <= j
  /\ stage = "verified" /\ replaced = {} => AllOut

\* A server that has a distinct message disappear is found; no other is.
FindsReplacer == stage = "verified" =>
  /\ verdict \subseteq replaced
  /\ IsInjective(texts) /\ Cardinality(replaced) = 1 => verdict = replaced

=============================================================================
