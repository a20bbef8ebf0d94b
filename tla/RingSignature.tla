--------------------------- MODULE RingSignature ---------------------------
(***************************************************************************)
(* LRSPrivateKey and LRSPublicKey: a signature by one of a ring of DSA     *)
(* keys, with a tag that links the signatures of one member in a context.  *)
(* Signing goes once around the ring, from the signer's own place, and     *)
(* each step hashes the commitments of the last.  The hash is an oracle:   *)
(* any number for a new argument, the same for one it has seen.  Places    *)
(* count from 0.  The signer is a member of the ring; the code does not    *)
(* check that, and writes to place -1 otherwise.                           *)
(***************************************************************************)
EXTENDS DsaKeys, Functions

CONSTANTS
  Members,    \* private keys
  MaxRing,    \* keys of a ring
  Contexts,   \* hashes of the contexts
  Messages,
  Rand,       \* what RandomInQ may give
  Hashes      \* what a hash may give

VARIABLES
  ring, context, my_idx,        \* the private keys of the ring, the context, the signer
  data, u, commits,             \* the message, the signer's secret, the hash before each place
  signatures, at,               \* the answers, the place that is next
  oracle,                       \* what was hashed, and to what
  tags, ok                      \* the tags seen with their signers, the verdict

vars == <<ring, context, my_idx, data, u, commits, signatures, at, oracle, tags, ok>>

count == Len(ring)
Places == 0..(count - 1)
keys(i) == GetPublicElement(ring[i + 1])
group_gen == Pow(Generator, ModSub(context))
private_key == ring[my_idx + 1]
tag == Pow(group_gen, private_key)
Bind(f, k, v) == [n \in DOMAIN f \cup {k} |-> IF n = k THEN v ELSE f[n]]

\* The hash of the context, the tag and the message goes into every other one.
Query(t, m, z_p, z_pp) == <<group_gen, t, m, z_p, z_pp>>
Knows(q, n) == q \in DOMAIN oracle => oracle[q] = n

Init ==
  /\ \E n \in 1..MaxRing : ring \in {f \in [1..n -> Members] : IsInjective(f)}
  /\ context \in Contexts /\ my_idx = 0
  /\ data = <<>> /\ u = 0 /\ commits = <<>> /\ signatures = <<>> /\ at = -1
  /\ oracle = <<>> /\ tags = {} /\ ok = TRUE

\* Sign: the first hash, of the signer's own commitments.
Sign == \E i \in Places, m \in Messages, v \in Rand, c \in Hashes :
  LET q == <<group_gen, Pow(group_gen, ring[i + 1]), m, Pow(Generator, v), Pow(group_gen, v)>>
  IN /\ at = -1 /\ ok /\ Knows(q, c)
     /\ my_idx' = i /\ data' = m /\ u' = v /\ signatures' = <<>>
     /\ oracle' = Bind(oracle, q, c)
     /\ at' = (i + 1) % count /\ commits' = Bind(<<>>, (i + 1) % count, ModSub(c))
     /\ UNCHANGED <<ring, context, tags, ok>>

\* One round of the loop for the place of another member.
Step(c, sign, i) ==
  [z_p |-> Times(Pow(Generator, sign), Pow(keys(i), c)),
   z_pp |-> Times(Pow(group_gen, sign), Pow(tag, c))]
SignOther == \E sign \in Rand, c \in Hashes :
  LET z == Step(commits[at], sign, at)
      q == Query(tag, data, z.z_p, z.z_pp)
  IN /\ at \in Places \ {my_idx} /\ Knows(q, c)
     /\ signatures' = Bind(signatures, at, sign)
     /\ oracle' = Bind(oracle, q, c)
     /\ at' = (at + 1) % count /\ commits' = Bind(commits, (at + 1) % count, ModSub(c))
     /\ UNCHANGED <<ring, context, my_idx, data, u, tags, ok>>

\* Back at the signer's place.
SignOwn ==
  /\ at = my_idx
  /\ signatures' = Bind(signatures, my_idx, ModSub(u - private_key * commits[my_idx]))
  /\ at' = count
  /\ UNCHANGED <<ring, context, my_idx, data, u, commits, oracle, tags, ok>>

\* Verify: all hashes from the first commit on.  A signature of one key is not
\* taken for one when it is read.
Valid(m, t, commit_1, sigs) ==
  LET z(i, c) == Query(t, m, Times(Pow(Generator, sigs[i]), Pow(keys(i), c)),
                       Times(Pow(group_gen, sigs[i]), Pow(t, c)))
      next(c, i) == IF z(i, c) \in DOMAIN oracle THEN ModSub(oracle[z(i, c)]) ELSE Subgroup
  IN /\ count > 1 /\ DOMAIN sigs = Places
     /\ FoldLeft(next, commit_1, [i \in 1..count |-> i - 1]) = commit_1
Verify ==
  /\ at = count /\ at' = -1
  /\ ok' = Valid(data, tag, commits[0], signatures)
  /\ tags' = IF ok' THEN tags \cup {<<tag, my_idx>>} ELSE tags
  /\ signatures' = <<>> /\ commits' = <<>> /\ oracle' = <<>> /\ u' = 0 /\ data' = <<>> /\ my_idx' = 0
  /\ UNCHANGED <<ring, context>>

Next == Sign \/ SignOther \/ SignOwn \/ Verify
Spec == Init /\ [][Next]_vars

-----------------------------------------------------------------------------
(* Properties *)

\* Every member's signature is valid in a ring of two or more.
SignaturePasses == ok \/ count = 1

\* Two signatures have one tag exactly if one member made them, unless the hash
\* of the context is a multiple of the order.
Links == \A s, t \in tags : s[1] = t[1] <=> (s[2] = t[2] \/ ModSub(context) = 0)

=============================================================================
