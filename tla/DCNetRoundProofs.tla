-------------------------- MODULE DCNetRoundProofs --------------------------
(***************************************************************************)
(* What holds of the DC-net exchange for every set of servers and clients, *)
(* every assignment of clients to servers and every bound: no ciphertext   *)
(* is revealed before all commits, servers that sign sign the same         *)
(* cleartext, all pads have cancelled in it, all nodes are given one       *)
(* sequence of batches, and the messages of each client come in it in      *)
(* order, none twice and none left out.                                    *)
(***************************************************************************)
EXTENDS DCNetRound, FiniteSetTheorems, TLAPS

-----------------------------------------------------------------------------
(* Sequences of anything *)

IsSeq(q) == q \in Seq(Range(q))

LEMMA SeqOf ==
  ASSUME NEW S, NEW q \in Seq(S)
  PROVE  IsSeq(q) /\ Range(q) \subseteq S
<1>1. q = [i \in 1..Len(q) |-> q[i]] /\ Len(q) \in Nat /\ DOMAIN q = 1..Len(q)
  OBVIOUS
<1>2. \A i \in 1..Len(q) : q[i] \in Range(q)
  BY <1>1 DEF Range
<1>3. q \in Seq(Range(q))
  BY <1>1, <1>2
<1> QED
  BY <1>1, <1>3 DEF IsSeq, Range

LEMMA SeqEmpty == IsSeq(<<>>) /\ Range(<<>>) = {}
BY DEF IsSeq, Range

LEMMA SeqCat ==
  ASSUME NEW p, NEW q, IsSeq(p), IsSeq(q)
  PROVE  IsSeq(p \o q) /\ Range(p \o q) = Range(p) \cup Range(q)
<1> DEFINE S == Range(p) \cup Range(q)
<1>1. p \in Seq(S) /\ q \in Seq(S)
  <2>1. p \in Seq(Range(p)) /\ q \in Seq(Range(q))
    BY DEF IsSeq
  <2>2. Range(p) \subseteq S /\ Range(q) \subseteq S
    OBVIOUS
  <2> HIDE DEF S
  <2> QED
    BY <2>1, <2>2
<1> HIDE DEF S
<1>2. p \o q \in Seq(S)
  BY <1>1
<1>3. Range(p \o q) \subseteq S /\ IsSeq(p \o q)
  BY <1>2, SeqOf
<1>4. \A x \in Range(p) : x \in Range(p \o q)
  <2> TAKE x \in Range(p)
  <2> PICK i \in DOMAIN p : p[i] = x
    BY DEF Range
  <2>1. (p \o q)[i] = x /\ i \in DOMAIN (p \o q)
    BY <1>1
  <2> QED
    BY <2>1 DEF Range
<1>5. \A x \in Range(q) : x \in Range(p \o q)
  <2> TAKE x \in Range(q)
  <2> PICK i \in DOMAIN q : q[i] = x
    BY DEF Range
  <2>1. (p \o q)[Len(p) + i] = x /\ Len(p) + i \in DOMAIN (p \o q)
    BY <1>1
  <2> QED
    BY <2>1 DEF Range
<1> QED
  BY <1>3, <1>4, <1>5 DEF S

LEMMA SeqOne ==
  ASSUME NEW x
  PROVE  IsSeq(<<x>>) /\ Range(<<x>>) = {x}
<1>1. <<x>> \in Seq({x}) /\ DOMAIN <<x>> = 1..1 /\ <<x>>[1] = x
  OBVIOUS
<1>2. IsSeq(<<x>>) /\ Range(<<x>>) \subseteq {x}
  BY <1>1, SeqOf
<1>3. x \in Range(<<x>>)
  BY <1>1 DEF Range
<1> QED
  BY <1>2, <1>3

LEMMA SeqAppend ==
  ASSUME NEW q, NEW x, IsSeq(q)
  PROVE  /\ IsSeq(Append(q, x)) /\ Range(Append(q, x)) = Range(q) \cup {x}
         /\ Len(Append(q, x)) = Len(q) + 1 /\ Append(q, x)[Len(q) + 1] = x
         /\ \A i \in 1..Len(q) : Append(q, x)[i] = q[i]
<1> DEFINE S == Range(q) \cup {x}
<1>1. q \in Seq(S) /\ x \in S
  <2>1. q \in Seq(Range(q)) /\ Range(q) \subseteq S /\ x \in S
    BY DEF IsSeq
  <2> HIDE DEF S
  <2> QED
    BY <2>1
<1> HIDE DEF S
<1>2. /\ Append(q, x) \in Seq(S) /\ Len(Append(q, x)) = Len(q) + 1 /\ Len(q) \in Nat
      /\ DOMAIN q = 1..Len(q) /\ DOMAIN Append(q, x) = 1..Len(q) + 1
      /\ \A i \in 1..Len(q) : Append(q, x)[i] = q[i]
      /\ Append(q, x)[Len(q) + 1] = x
  BY <1>1
<1>3. IsSeq(Append(q, x)) /\ Range(Append(q, x)) \subseteq S
  BY <1>2, SeqOf
<1>4. Range(q) \subseteq Range(Append(q, x)) /\ x \in Range(Append(q, x))
  BY <1>2 DEF Range
<1> QED
  BY <1>2, <1>3, <1>4 DEF S

LEMMA SeqTail ==
  ASSUME NEW q, IsSeq(q), q # <<>>
  PROVE  /\ IsSeq(Tail(q)) /\ Range(Tail(q)) \subseteq Range(q) /\ Head(q) \in Range(q)
<1> DEFINE S == Range(q)
<1>1. q \in Seq(S)
  BY DEF IsSeq
<1> HIDE DEF S
<1>2. Tail(q) \in Seq(S) /\ Head(q) \in S
  BY <1>1
<1> QED
  BY <1>2, SeqOf DEF S

-----------------------------------------------------------------------------
(* Pads.  In every phase client c and server v share one pad; c XORs it into *)
(* its ciphertext and v into its own.                                       *)

PadsOf(b) == {x \in b : x.is = "pad"}
PhasePads(C, p) == {Pad(c, v, p) : c \in C, v \in Server}

\* The pads in what server u computes for the clients L when it has the
\* ciphertexts of G: its own of all of them, and those that came in ciphertexts.
Shares(u, p, L, G) == {x \in PhasePads(L, p) : ~((x.s = u) <=> (x.c \in G))}

LEMMA PadsOfXor ==
  ASSUME NEW a, NEW b
  PROVE  PadsOf(Xor(a, b)) = Xor(PadsOf(a), PadsOf(b))
BY DEF PadsOf, Xor, SymDiff

\* Nobody, one, or two of those that are XORed.
LEMMA Parity ==
  ASSUME NEW f, NEW x
  PROVE  /\ {i \in DOMAIN f : x \in f[i]} = {} => x \notin XorAll(f)
         /\ \A i : {j \in DOMAIN f : x \in f[j]} = {i} => x \in XorAll(f)
         /\ \A i, j : i # j /\ {k \in DOMAIN f : x \in f[k]} = {i, j} => x \notin XorAll(f)
<1> DEFINE I == {i \in DOMAIN f : x \in f[i]}
<1>1. x \in XorAll(f) <=> x \in UNION Range(f) /\ Cardinality(I) % 2 = 1
  BY DEF XorAll
<1>2. I # {} => x \in UNION Range(f)
  <2> HAVE I # {}
  <2>1. PICK i \in DOMAIN f : x \in f[i]
    OBVIOUS
  <2>2. f[i] \in Range(f)
    BY DEF Range
  <2> QED
    BY <2>1, <2>2
<1> HIDE DEF I
<1>3. I = {} => Cardinality(I) % 2 = 0
  BY FS_EmptySet
<1>4. ASSUME NEW i, I = {i} PROVE Cardinality(I) % 2 = 1
  <2>1. Cardinality({i}) = 1
    BY FS_Singleton
  <2>2. Cardinality(I) = 1
    BY <1>4, <2>1
  <2> QED
    BY <2>2
<1>5. ASSUME NEW i, NEW j, i # j, I = {i, j} PROVE Cardinality(I) % 2 = 0
  <2>1. I = {i} \cup {j}
    BY <1>5
  <2>2. Cardinality({i}) = 1 /\ IsFiniteSet({i}) /\ j \notin {i}
    BY <1>5, FS_Singleton
  <2>3. Cardinality(I) = 2
    BY <2>1, <2>2, FS_AddElement
  <2> QED
    BY <2>3
<1>6. I = {} => x \notin XorAll(f)
  BY <1>1, <1>3
<1>7. \A i : I = {i} => x \in XorAll(f)
  BY <1>1, <1>2, <1>4
<1>8. \A i, j : i # j /\ I = {i, j} => x \notin XorAll(f)
  BY <1>1, <1>5
<1> QED
  BY <1>6, <1>7, <1>8, Zenon DEF I

LEMMA PadIs ==
  ASSUME NEW c, NEW v, NEW p
  PROVE  Pad(c, v, p).is = "pad" /\ Pad(c, v, p).c = c /\ Pad(c, v, p).s = v
BY DEF Pad

\* Ciphertexts that each carry the pads of their own client.
LEMMA XorCiphertexts ==
  ASSUME NEW f, NEW p, \A c \in DOMAIN f : PadsOf(f[c]) = PhasePads({c}, p)
  PROVE  PadsOf(XorAll(f)) = PhasePads(DOMAIN f, p)
<1>1. ASSUME NEW c \in DOMAIN f, NEW v \in Server PROVE Pad(c, v, p) \in PadsOf(XorAll(f))
  <2> DEFINE x == Pad(c, v, p)
  <2>1. x.is = "pad" /\ x.c = c
    BY PadIs
  <2>2. \A i \in DOMAIN f : x \in f[i] <=> i = c
    <3> TAKE i \in DOMAIN f
    <3>1. x \in f[i] <=> x \in PhasePads({i}, p)
      BY <2>1 DEF PadsOf
    <3>2. x \in PhasePads({i}, p) => i = c
      BY <2>1, PadIs DEF PhasePads
    <3>3. i = c => x \in PhasePads({i}, p)
      BY DEF PhasePads
    <3> QED
      BY <3>1, <3>2, <3>3
  <2> HIDE DEF x
  <2>3. {i \in DOMAIN f : x \in f[i]} = {c}
    BY <2>2
  <2>4. x \in XorAll(f)
    BY <2>3, Parity
  <2> QED
    BY <2>1, <2>4 DEF PadsOf, x
<1>2. ASSUME NEW x \in PadsOf(XorAll(f)) PROVE x \in PhasePads(DOMAIN f, p)
  <2>1. x.is = "pad" /\ x \in XorAll(f)
    BY <1>2 DEF PadsOf
  <2>2. \E c \in DOMAIN f : x \in f[c]
    BY <2>1, Parity
  <2> QED
    BY <2>1, <2>2 DEF PadsOf, PhasePads
<1> QED
  BY <1>1, <1>2 DEF PhasePads

\* What a server computes has the pads of its share.
LEMMA ServerShare ==
  ASSUME NEW u \in Server, NEW p, NEW L, NEW f, DOMAIN f \subseteq L,
         \A c \in DOMAIN f : PadsOf(f[c]) = PhasePads({c}, p)
  PROVE  PadsOf(Xor({Pad(c, u, p) : c \in L}, XorAll(f))) = Shares(u, p, L, DOMAIN f)
<1> DEFINE own == {Pad(c, u, p) : c \in L} G == DOMAIN f
<1>1. PadsOf(own) = own
  BY PadIs DEF PadsOf
<1>2. PadsOf(XorAll(f)) = PhasePads(G, p)
  BY XorCiphertexts
<1>3. Xor(own, PhasePads(G, p)) = Shares(u, p, L, G)
  <2> HIDE DEF G
  <2>1. ASSUME NEW x \in PhasePads(L, p) PROVE x \in own <=> x.s = u
    <3>1. PICK c \in L, v \in Server : x = Pad(c, v, p)
      BY DEF PhasePads
    <3>2. x.c = c /\ x.s = v
      BY <3>1, PadIs
    <3>3. x \in own => v = u
      <4> HAVE x \in own
      <4>1. PICK d \in L : x = Pad(d, u, p)
        OBVIOUS
      <4> QED
        BY <3>2, <4>1, PadIs
    <3>4. v = u => x \in own
      BY <3>1
    <3> QED
      BY <3>2, <3>3, <3>4
  <2>2. \A x \in PhasePads(L, p) : x \in PhasePads(G, p) <=> x.c \in G
    BY PadIs DEF PhasePads
  <2>3. own \subseteq PhasePads(L, p) /\ PhasePads(G, p) \subseteq PhasePads(L, p)
    BY DEF PhasePads, G
  <2> HIDE DEF own
  <2> QED
    BY <2>1, <2>2, <2>3 DEF Shares, Xor, SymDiff
<1> DEFINE all == XorAll(f)
<1> HIDE DEF own, all
<1>4. PadsOf(Xor(own, all)) = Shares(u, p, L, G)
  BY <1>1, <1>2, <1>3, PadsOfXor DEF all
<1> QED
  BY <1>4 DEF own, all

\* Every client's ciphertext is at one server: each pad is in the shares of that
\* server and of the one that shares it, or of none if they are the same.
LEMMA SharesCancel ==
  ASSUME NEW p, NEW G, G = [u \in Server |-> G[u]],
         \A u \in Server : \A c \in G[u] : Home[c] = u,
         NEW L, L = UNION {G[u] : u \in Server},
         NEW f, DOMAIN f = Server, \A u \in Server : PadsOf(f[u]) = Shares(u, p, L, G[u])
  PROVE  PadsOf(XorAll(f)) = {}
<1> SUFFICES ASSUME NEW x \in PadsOf(XorAll(f)) PROVE FALSE
  OBVIOUS
<1>1. x.is = "pad" /\ x \in XorAll(f)
  BY DEF PadsOf
<1>2. \A u \in Server : x \in f[u] <=> x \in Shares(u, p, L, G[u])
  BY <1>1 DEF PadsOf
<1>3. CASE x \notin PhasePads(L, p)
  <2>1. {u \in DOMAIN f : x \in f[u]} = {}
    BY <1>2, <1>3 DEF Shares
  <2> QED
    BY <1>1, <2>1, Parity
<1>4. CASE x \in PhasePads(L, p)
  <2>1. x.c \in L /\ x.s \in Server
    BY <1>4, PadIs DEF PhasePads
  <2>2. PICK h \in Server : x.c \in G[h]
    BY <2>1
  <2>3. \A u \in Server : x.c \in G[u] <=> u = h
    BY <2>2
  <2>4. \A u \in Server : x \in f[u] <=> ~((x.s = u) <=> (u = h))
    BY <1>2, <1>4, <2>3 DEF Shares
  <2>5. CASE x.s = h
    <3>1. {u \in DOMAIN f : x \in f[u]} = {}
      BY <2>4, <2>5
    <3> QED
      BY <1>1, <3>1, Parity
  <2>6. CASE x.s # h
    <3>1. {u \in DOMAIN f : x \in f[u]} = {x.s, h}
      BY <2>1, <2>2, <2>4, <2>6
    <3> QED
      BY <1>1, <2>6, <3>1, Parity
  <2> QED
    BY <2>5, <2>6
<1> QED
  BY <1>3, <1>4

-----------------------------------------------------------------------------
(* Round objects *)

Fields ==
  {"st", "phase", "early", "todo", "slots", "text", "out", "read", "open", "next",
   "last", "taken", "accuse", "allowed", "online", "got", "heard", "commits",
   "ciphers", "mine", "sigs"}
Mailbox(r) == Range(r.early) \cup Range(r.todo)

IsRound(r) ==
  /\ r = [f \in Fields |-> r[f]]
  /\ r.phase \in Nat /\ IsSeq(r.early) /\ IsSeq(r.todo) /\ IsSeq(r.out)
  /\ r.ciphers = [s \in Server |-> r.ciphers[s]]

\* What the next cleartext makes of slots and batches.
SlotsAfter(slots, text) ==
  [c \in Client |-> NextSlot([slots |-> slots, text |-> text], c)]
OutAfter(out, slots, text) ==
  LET b == Pushed([slots |-> slots, text |-> text])
  IN IF b = {} THEN out ELSE Append(out, b)

\* out carries only messages of M.
Sends(out, M) == \A m \in Node : IsSeq(out[m]) /\ Range(out[m]) \subseteq M

LEMMA SendsNone == Sends(Silent, {})
BY SeqEmpty DEF Sends, Silent

LEMMA SendsMore ==
  ASSUME NEW out, NEW M, NEW N, Sends(out, M), M \subseteq N
  PROVE  Sends(out, N)
BY DEF Sends

LEMMA SendsSend ==
  ASSUME NEW m, NEW msg
  PROVE  Sends(VerifiableSend(m, msg), {msg})
BY SeqEmpty, SeqOne DEF Sends, VerifiableSend, Silent

LEMMA SendsServers ==
  ASSUME NEW msg
  PROVE  Sends(VerifiableBroadcastToServers(msg), {msg})
BY SeqEmpty, SeqOne DEF Sends, VerifiableBroadcastToServers

LEMMA SendsClients ==
  ASSUME NEW r, NEW msg
  PROVE  Sends(VerifiableBroadcastToClients(r, msg), {msg})
BY SeqEmpty, SeqOne DEF Sends, VerifiableBroadcastToClients

LEMMA SendsAlso ==
  ASSUME NEW out, NEW more, NEW M, NEW N, Sends(out, M), Sends(more, N)
  PROVE  Sends(Also(out, more), M \cup N)
BY SeqCat DEF Sends, Also

\* Everything but what changes with the state of the state machine.
Keeps(r, q) ==
  /\ q.phase = r.phase /\ q.slots = r.slots /\ q.out = r.out
  /\ q.got = r.got /\ q.mine = r.mine

\* A client's ciphertext has the pads of the client in its phase.
Masked(x) ==
  x.type = "CLIENT_CIPHERTEXT" =>
    /\ x.body = Text(x.body.len, x.body.bits)
    /\ PadsOf(x.body.bits) = PhasePads({x.from}, x.phase)

\* A server listens to its own clients, and has ciphertexts of this phase of them.
Padded(s, r) ==
  /\ \A c \in r.allowed : Home[c] = s
  /\ \A c \in DOMAIN r.got :
       Home[c] = s /\ PadsOf(r.got[c].bits) = PhasePads({c}, r.phase)

\* Nothing that pads depend on changes, and no ciphertext is computed.
SameShare(r, q) ==
  /\ q.text = r.text /\ q.phase = r.phase /\ q.got = r.got
  /\ q.allowed \subseteq r.allowed
  /\ q.st = "WAIT_FOR_SERVER_COMMITS" => q.st = r.st

\* What a client remembers of its own messages.
SameMessages(r, q) == q.last = r.last /\ q.next = r.next /\ q.taken = r.taken
SameOwn(r, q) ==
  /\ SameMessages(r, q) /\ q.read = r.read /\ q.open = r.open /\ q.accuse = r.accuse
  /\ q.slots = r.slots /\ q.out = r.out

LEMMA CompleteStep ==
  ASSUME NEW r, IsRound(r), NEW st, NEW q, q = Complete(r, st)
  PROVE  /\ IsRound(q) /\ Keeps(r, q) /\ SameOwn(r, q) /\ q.st = st /\ q.heard = {}
         /\ q.text = r.text /\ q.online = r.online /\ q.ciphers = r.ciphers
         /\ q.allowed = r.allowed /\ q.sigs = r.sigs
         /\ Mailbox(q) \subseteq Mailbox(r)
<1>1. /\ IsSeq(r.early \o r.todo)
      /\ Range(r.early \o r.todo) = Range(r.early) \cup Range(r.todo)
  BY SeqCat DEF IsRound
<1>2. /\ Keeps(r, q) /\ q.st = st /\ q.heard = {}
      /\ q.text = r.text /\ q.online = r.online /\ q.ciphers = r.ciphers
      /\ q.allowed = r.allowed /\ q.sigs = r.sigs
      /\ q.early = <<>> /\ q.todo = r.early \o r.todo
      /\ q = [f \in Fields |-> q[f]] /\ SameOwn(r, q)
  BY DEF IsRound, Complete, Fields, Keeps, SameOwn, SameMessages
<1> QED
  BY <1>1, <1>2, SeqEmpty DEF IsRound, Mailbox, Keeps

LEMMA ProcessStep ==
  ASSUME NEW n, NEW r, IsRound(r), NEW q, q = ProcessCleartext(n, r)
  PROVE  /\ IsRound(q) /\ q.slots = SlotsAfter(r.slots, r.text)
         /\ q.out = OutAfter(r.out, r.slots, r.text)
         /\ q.phase = r.phase /\ q.got = r.got /\ q.mine = r.mine /\ q.st = r.st
         /\ q.text = r.text /\ q.online = r.online /\ q.allowed = r.allowed
         /\ q.early = r.early /\ q.todo = r.todo
<1> DEFINE Shared(o) ==
             /\ o.phase = r.phase /\ o.got = r.got /\ o.mine = r.mine /\ o.st = r.st
             /\ o.text = r.text /\ o.online = r.online /\ o.allowed = r.allowed
             /\ o.early = r.early /\ o.todo = r.todo /\ o.ciphers = r.ciphers
             /\ o = [f \in Fields |-> o[f]]
<1> DEFINE o == OwnSlot(n, r)
<1>1. Shared(o) /\ o.slots = r.slots /\ o.out = r.out
  <2>1. CASE n \in Client /\ r.slots[n] > 0 /\ Lost(r.text, n)
    <3>1. o = [r EXCEPT !.read = FALSE, !.open = TRUE]
      BY <2>1 DEF OwnSlot, Lost
    <3> QED
      BY <3>1 DEF IsRound, Fields
  <2>2. CASE /\ ~(n \in Client /\ r.slots[n] > 0 /\ Lost(r.text, n))
             /\ n \in Client /\ r.slots[n] > 0 /\ Garbled(r.text, n) /\ ~r.accuse
    <3>1. o = [r EXCEPT !.read = FALSE, !.open = TRUE, !.accuse = Provable(r.text, n)]
      BY <2>2 DEF OwnSlot, Lost
    <3> QED
      BY <3>1 DEF IsRound, Fields
  <2>3. CASE /\ ~(n \in Client /\ r.slots[n] > 0 /\ Lost(r.text, n))
             /\ ~(n \in Client /\ r.slots[n] > 0 /\ Garbled(r.text, n) /\ ~r.accuse)
    <3>1. o = r
      BY <2>3 DEF OwnSlot
    <3> QED
      BY <3>1 DEF IsRound, Fields
  <2> QED
    BY <2>1, <2>2, <2>3
<1> DEFINE a == [slots |-> r.slots, text |-> r.text]
<1>2. Pushed(r) = Pushed(a)
  BY DEF Pushed
<1>3. \A c : NextSlot(r, c) = NextSlot(a, c)
  BY DEF NextSlot
<1> DEFINE ns == [c \in Client |-> NextSlot(r, c)]
           no == IF Pushed(r) = {} THEN r.out ELSE Append(r.out, Pushed(r))
<1>4. q = [o EXCEPT !.slots = ns, !.out = no]
  <2>1. q = [o EXCEPT !.slots = ns,
                      !.out = IF Pushed(r) = {} THEN @ ELSE Append(@, Pushed(r))]
    BY DEF ProcessCleartext
  <2> HIDE DEF o, ns
  <2> QED
    BY <1>1, <2>1 DEF Fields
<1> HIDE DEF o, ns, no
<1>5. q.slots = ns /\ q.out = no /\ Shared(q)
  BY <1>1, <1>4, ZenonT(60) DEF Fields
<1>6. q.slots = SlotsAfter(r.slots, r.text)
  BY <1>3, <1>5 DEF SlotsAfter, ns
<1>7. q.out = OutAfter(r.out, r.slots, r.text)
  BY <1>2, <1>5 DEF OutAfter, no
<1>8. IsSeq(q.out)
  BY <1>5, SeqAppend DEF IsRound, no
<1> QED
  BY <1>5, <1>6, <1>7, <1>8 DEF IsRound, Fields

-----------------------------------------------------------------------------
(* The steps of a server, in terms of what the proofs speak of: from r to q *)
(* when msg is handled.                                                     *)

Quiet(r, q) ==
  /\ Keeps(r, q) /\ q.st = r.st /\ q.text = r.text /\ q.online = r.online
  /\ q.ciphers = r.ciphers /\ q.heard = r.heard

Stops(r, q) == Keeps(r, q) /\ q.st = "FINISHED"

\* A client is heard only in the window, and online are those that were.
Collects(r, q) ==
  /\ r.st = "WAIT_FOR_CLIENT_CIPHERTEXT"
  /\ q.phase = r.phase /\ q.slots = r.slots /\ q.out = r.out /\ q.mine = r.mine
  /\ r.online = DOMAIN r.got => q.online = DOMAIN q.got
HearsClient(r, q) == Collects(r, q) /\ q.st = r.st
ClosesWindow(r, q) ==
  Collects(r, q) /\ q.st = "WAIT_FOR_CLIENT_LISTS" /\ q.heard = {}

\* One more server is heard in state st, or the last and the state changes.
Hears(r, msg, q, type, st) ==
  /\ Consumes[type] = st /\ msg.type = type /\ r.st = st /\ msg.phase = r.phase
  /\ q.st = st /\ q.heard = r.heard \cup {msg.from}
  /\ Keeps(r, q)
HearsAll(r, msg, q, type, st, next) ==
  /\ Consumes[type] = st /\ msg.type = type /\ r.st = st /\ msg.phase = r.phase
  /\ r.heard \cup {msg.from} = Server
  /\ q.st = next /\ q.heard = {}

HearsList(r, msg, q) ==
  /\ Hears(r, msg, q, "SERVER_CLIENT_LIST", "WAIT_FOR_CLIENT_LISTS")
  /\ q.online = r.online \cup msg.body
Commits(r, msg, q) ==
  /\ HearsAll(r, msg, q, "SERVER_CLIENT_LIST", "WAIT_FOR_CLIENT_LISTS",
              "WAIT_FOR_SERVER_COMMITS")
  /\ q.online = r.online \cup msg.body
  /\ q.phase = r.phase /\ q.slots = r.slots /\ q.out = r.out /\ q.got = r.got
HearsCommit(r, msg, q) ==
  /\ Hears(r, msg, q, "SERVER_COMMIT", "WAIT_FOR_SERVER_COMMITS")
  /\ q.online = r.online
Reveals(r, msg, q) ==
  /\ HearsAll(r, msg, q, "SERVER_COMMIT", "WAIT_FOR_SERVER_COMMITS",
              "WAIT_FOR_SERVER_CIPHERTEXT")
  /\ Keeps(r, q) /\ q.online = r.online
HearsCipher(r, msg, q) ==
  /\ Hears(r, msg, q, "SERVER_CIPHERTEXT", "WAIT_FOR_SERVER_CIPHERTEXT")
  /\ q.online = r.online /\ q.ciphers = [r.ciphers EXCEPT ![msg.from] = msg.body]
Xored(slots, ciphers) ==
  Text(MsgLength(slots), XorAll([t \in Server |-> ciphers[t].bits]))
Signs(r, msg, q) ==
  /\ HearsAll(r, msg, q, "SERVER_CIPHERTEXT", "WAIT_FOR_SERVER_CIPHERTEXT",
              "WAIT_FOR_SERVER_VALIDATION")
  /\ Keeps(r, q) /\ q.online = r.online
  /\ q.text = Xored(r.slots, [r.ciphers EXCEPT ![msg.from] = msg.body])
HearsSignature(r, msg, q) ==
  /\ Hears(r, msg, q, "SERVER_VALIDATION", "WAIT_FOR_SERVER_VALIDATION")
  /\ q.online = r.online /\ q.text = r.text

\* A phase begins, and ends with the next or a blame shuffle.
InWindow(q) ==
  /\ q.st \in {"WAIT_FOR_CLIENT_CIPHERTEXT", "WAIT_FOR_CLIENT_LISTS"}
  /\ q.online = DOMAIN q.got /\ q.heard = {}
Opens(r, q) ==
  /\ r.st = "SHUFFLING" /\ q.phase = r.phase /\ q.slots = r.slots /\ q.out = r.out
  /\ r.online = DOMAIN r.got => InWindow(q)
Passes(r, msg, q) ==
  /\ msg.type = "SERVER_VALIDATION" /\ msg.phase = r.phase
  /\ r.st = "WAIT_FOR_SERVER_VALIDATION" /\ r.heard \cup {msg.from} = Server
  /\ q.slots = SlotsAfter(r.slots, r.text) /\ q.out = OutAfter(r.out, r.slots, r.text)
NextPhased(r, msg, q) ==
  Passes(r, msg, q) /\ q.phase = r.phase + 1 /\ InWindow(q) /\ q.mine = r.mine
Blames(r, msg, q) ==
  /\ Passes(r, msg, q) /\ q.phase = r.phase /\ q.st = "STARTING_BLAME_SHUFFLE"
  /\ q.got = r.got /\ q.mine = r.mine

ServerMove(r, msg, q) ==
  \/ Quiet(r, q) \/ Stops(r, q)
  \/ HearsClient(r, q) \/ ClosesWindow(r, q)
  \/ HearsList(r, msg, q) \/ Commits(r, msg, q)
  \/ HearsCommit(r, msg, q) \/ Reveals(r, msg, q)
  \/ HearsCipher(r, msg, q) \/ Signs(r, msg, q)
  \/ HearsSignature(r, msg, q) \/ NextPhased(r, msg, q) \/ Blames(r, msg, q)
  \/ Opens(r, q)

\* What the clients have written in an array, and what client c writes in the state
\* r in which it waits for a cleartext.
Data(b) == {x \in b : x.is \in {"slot", "open"}}
OwnBits(c, r) ==
  IF ~r.open THEN {}
  ELSE IF ~r.read THEN {Open(c, r.phase)}
  ELSE {Slot(c, r.phase, SlotHeaderLength + IF r.accuse THEN 0 ELSE r.next, r.last, r.accuse)}

\* What a server has of the clients comes from the ciphertexts of this phase.
Relays(r, msg, q) ==
  /\ \A c \in DOMAIN q.got :
       /\ q.phase = r.phase
       /\ \/ c \in DOMAIN r.got /\ q.got[c] = r.got[c]
          \/ msg.type = "CLIENT_CIPHERTEXT" /\ msg.phase = r.phase /\ q.got[c] = msg.body
  /\ q.st = "WAIT_FOR_SERVER_COMMITS" /\ r.st # q.st =>
       \A x \in Data(q.mine.bits) : \E c \in DOMAIN q.got : x \in q.got[c].bits

\* From r to q when msg is handled: only signing makes a cleartext, ciphertexts
\* that are taken have their pads, and what is computed has those of the share.
Seals(s, r, msg, q) ==
  /\ q.text = r.text \/ Signs(r, msg, q)
  /\ Relays(r, msg, q)
  /\ Padded(s, r) /\ Masked(msg) =>
       /\ Padded(s, q)
       /\ q.st = "WAIT_FOR_SERVER_COMMITS" /\ r.st # q.st =>
            PadsOf(q.mine.bits) = Shares(s, q.phase, q.online, DOMAIN q.got)

LEMMA PaddedSame ==
  ASSUME NEW s, NEW r, NEW q, Padded(s, r), q.phase = r.phase, q.got = r.got,
         q.allowed \subseteq r.allowed
  PROVE  Padded(s, q)
BY DEF Padded

LEMMA SameSeals ==
  ASSUME NEW s, NEW r, NEW msg, NEW q, SameShare(r, q)
  PROVE  Seals(s, r, msg, q)
BY DEF SameShare, Seals, Padded, Relays

IsPacket(x) == x = [type |-> x.type, from |-> x.from, phase |-> x.phase, body |-> x.body]

\* What n may say when it goes from r to q.
Utters(n, r, q, x) ==
  /\ IsPacket(x) /\ x.from = n /\ x.phase \in Nat
  /\ \/ /\ x.type = "SERVER_CLIENT_LIST" /\ q.st = "WAIT_FOR_CLIENT_LISTS"
        /\ n \in Server /\ x.phase = q.phase /\ x.body = q.online /\ q.heard = {}
     \/ /\ x.type = "SERVER_COMMIT" /\ q.st = "WAIT_FOR_SERVER_COMMITS"
        /\ n \in Server /\ x.phase = q.phase
     \/ /\ x.type = "SERVER_CIPHERTEXT" /\ q.st = "WAIT_FOR_SERVER_CIPHERTEXT"
        /\ n \in Server /\ x.phase = q.phase /\ x.body = q.mine
     \/ /\ x.type = "SERVER_VALIDATION" /\ q.st = "WAIT_FOR_SERVER_VALIDATION"
        /\ n \in Server /\ x.phase = q.phase
     \/ /\ x.type = "SERVER_CLEARTEXT" /\ r.st = "WAIT_FOR_SERVER_VALIDATION"
        /\ n \in Server /\ x.phase = r.phase /\ x.body.text = r.text
     \/ /\ x.type = "CLIENT_CIPHERTEXT" /\ q.st = "WAIT_FOR_CLEARTEXT" /\ Masked(x)
        /\ n \notin Server /\ x.phase = q.phase /\ Data(x.body.bits) \subseteq OwnBits(n, q)
     \/ x.type \in {"BLAME_PACKET", "CLOSED"}
Says(n, r, q, out) == 
  \A m \in Node : IsSeq(out[m]) /\ \A x \in Range(out[m]) : Utters(n, r, q, x)

LEMMA SaysNone == ASSUME NEW n, NEW r, NEW q PROVE Says(n, r, q, Silent)
BY SendsNone DEF Sends, Says

LEMMA SaysThat ==
  ASSUME NEW n, NEW r, NEW q, NEW M, NEW out, Sends(out, M), \A x \in M : Utters(n, r, q, x)
  PROVE  Says(n, r, q, out)
BY DEF Sends, Says

LEMMA SaysServers ==
  ASSUME NEW n, NEW r, NEW q, NEW x, Utters(n, r, q, x)
  PROVE  Says(n, r, q, VerifiableBroadcastToServers(x))
<1>1. \A y \in {x} : Utters(n, r, q, y)
  OBVIOUS
<1>2. Sends(VerifiableBroadcastToServers(x), {x})
  BY SendsServers
<1> DEFINE out == VerifiableBroadcastToServers(x)
<1> HIDE DEF out
<1> QED
  BY <1>1, <1>2, SaysThat

\* A step z of n from r: a round object, mail that was there, and what n may say.
Good(n, r, z, extra) ==
  IsRound(z.r) /\ Mailbox(z.r) \subseteq Mailbox(r) \cup extra /\ Says(n, r, z.r, z.out)

LEMMA SubmitListStep ==
  ASSUME NEW s \in Server, NEW r, IsRound(r), NEW z, z = SubmitClientList(s, r)
  PROVE  /\ IsRound(z.r) /\ Mailbox(z.r) \subseteq Mailbox(r)
         /\ z.r.st = "WAIT_FOR_CLIENT_LISTS" /\ z.r.heard = {} /\ z.r.phase = r.phase
         /\ z.r.slots = r.slots /\ z.r.out = r.out /\ z.r.got = r.got
         /\ z.r.mine = r.mine /\ z.r.online = r.online /\ SameShare(r, z.r)
         /\ Sends(z.out, {Msg("SERVER_CLIENT_LIST", s, z.r, z.r.online)})
<1> DEFINE q == Complete(r, "WAIT_FOR_CLIENT_LISTS")
<1>1. z.r = q /\ z.out = VerifiableBroadcastToServers(Msg("SERVER_CLIENT_LIST", s, q, q.online))
  BY DEF SubmitClientList, Step
<1> HIDE DEF q
<1> QED
  BY <1>1, CompleteStep, SendsServers DEF q, Keeps, SameShare

EntersWindow(s, r, z) ==
  /\ IsRound(z.r) /\ Mailbox(z.r) \subseteq Mailbox(r)
  /\ z.r.st \in {"WAIT_FOR_CLIENT_CIPHERTEXT", "WAIT_FOR_CLIENT_LISTS"}
  /\ z.r.heard = {} /\ z.r.phase = r.phase
  /\ z.r.slots = r.slots /\ z.r.out = r.out /\ z.r.got = r.got
  /\ z.r.mine = r.mine /\ z.r.online = r.online /\ SameShare(r, z.r)
  /\ \/ Sends(z.out, {})
     \/ /\ z.r.st = "WAIT_FOR_CLIENT_LISTS"
        /\ Sends(z.out, {Msg("SERVER_CLIENT_LIST", s, z.r, z.r.online)})
LEMMA OnlineStep ==
  ASSUME NEW s \in Server, NEW r, IsRound(r), NEW z, z = SetOnlineClients(s, r)
  PROVE  EntersWindow(s, r, z)
<1> DEFINE q == Complete(r, "WAIT_FOR_CLIENT_CIPHERTEXT")
<1>1. /\ IsRound(q) /\ Keeps(r, q) /\ q.st = "WAIT_FOR_CLIENT_CIPHERTEXT" /\ q.heard = {}
      /\ q.online = r.online /\ Mailbox(q) \subseteq Mailbox(r) /\ SameShare(r, q)
  BY CompleteStep DEF Keeps, SameShare
<1>2. CASE q.allowed = {}
  <2>1. z = SubmitClientList(s, q)
    BY <1>2 DEF SetOnlineClients
  <2> HIDE DEF q
  <2> QED
    BY <1>1, <2>1, SubmitListStep DEF Keeps, EntersWindow, SameShare
<1>3. CASE q.allowed # {}
  <2>1. z = Step(q, Silent)
    BY <1>3 DEF SetOnlineClients
  <2> HIDE DEF q
  <2> QED
    BY <1>1, <2>1, SendsNone DEF Keeps, Step, EntersWindow
<1> QED
  BY <1>2, <1>3

LEMMA ClientCiphertextStep ==
  ASSUME NEW s \in Server, NEW r, IsRound(r), NEW msg,
         r.st = "WAIT_FOR_CLIENT_CIPHERTEXT", msg.type = "CLIENT_CIPHERTEXT",
         msg.phase = r.phase,
         NEW z, z = HandleClientCiphertext(s, r, msg.from, msg.body)
  PROVE  Good(s, r, z, {}) /\ ServerMove(r, msg, z.r) /\ Seals(s, r, msg, z.r)
<1> DEFINE q == [r EXCEPT !.online = @ \cup {msg.from}, 
                        !.got = [c \in DOMAIN @ \cup {msg.from} |->
                                   IF c = msg.from THEN msg.body ELSE @[c]]]
<1>1. /\ IsRound(q) /\ Mailbox(q) = Mailbox(r) /\ q.st = r.st /\ q.heard = r.heard
      /\ Collects(r, q) /\ q.text = r.text /\ q.allowed = r.allowed /\ q.phase = r.phase
      /\ q.got = [c \in DOMAIN r.got \cup {msg.from} |->
                    IF c = msg.from THEN msg.body ELSE r.got[c]]
  BY DEF IsRound, Fields, Mailbox, Collects
<1>2. CASE z = Step(r, Silent)
  BY <1>2, SaysNone, SameSeals DEF Step, Good, ServerMove, Quiet, Keeps, SameShare
<1>5. ASSUME msg.from \in r.allowed
      PROVE  Seals(s, r, msg, q)
  <2> HIDE DEF q
  <2>1. q.text = r.text /\ q.st # "WAIT_FOR_SERVER_COMMITS"
    BY <1>1
  <2>2. ASSUME Padded(s, r), Masked(msg)
        PROVE  Padded(s, q)
    <3>1. PadsOf(msg.body.bits) = PhasePads({msg.from}, q.phase) /\ Home[msg.from] = s
      BY <1>1, <1>5, <2>2 DEF Padded, Masked
    <3>2. \A c \in DOMAIN q.got :
            IF c = msg.from THEN q.got[c] = msg.body
            ELSE c \in DOMAIN r.got /\ q.got[c] = r.got[c]
      BY <1>1
    <3> QED
      BY <1>1, <2>2, <3>1, <3>2 DEF Padded
  <2>3. Relays(r, msg, q)
    BY <1>1 DEF Relays
  <2> QED
    BY <2>1, <2>2, <2>3 DEF Seals
<1>3. CASE z = Step(q, Silent) /\ msg.from \in r.allowed
  <2> HIDE DEF q
  <2> QED
    BY <1>1, <1>3, <1>5, SaysNone DEF Step, Good, ServerMove, HearsClient
<1>4. CASE z = SubmitClientList(s, q) /\ msg.from \in r.allowed
  <2> HIDE DEF q
  <2>1. /\ IsRound(z.r) /\ Mailbox(z.r) \subseteq Mailbox(q)
        /\ z.r.st = "WAIT_FOR_CLIENT_LISTS" /\ z.r.heard = {} /\ z.r.phase = q.phase
        /\ z.r.slots = q.slots /\ z.r.out = q.out /\ z.r.got = q.got
        /\ z.r.mine = q.mine /\ z.r.online = q.online /\ SameShare(q, z.r)
        /\ Sends(z.out, {Msg("SERVER_CLIENT_LIST", s, z.r, z.r.online)})
    BY <1>1, <1>4, SubmitListStep, SMTT(40)
  <2>2. Utters(s, r, z.r, Msg("SERVER_CLIENT_LIST", s, z.r, z.r.online))
    BY <2>1 DEF Utters, IsPacket, Msg, IsRound
  <2>3. Says(s, r, z.r, z.out)
    BY <2>1, <2>2, SaysThat
  <2>5. Relays(r, msg, z.r)
    BY <1>1, <2>1 DEF Relays
  <2>4. Seals(s, r, msg, z.r)
    BY <1>1, <1>4, <1>5, <2>1, <2>5, ZenonT(60) DEF Seals, SameShare, Padded
  <2> QED
    BY <1>1, <2>1, <2>3, <2>4 DEF Good, ServerMove, ClosesWindow, Collects
<1> QED
  BY <1>2, <1>3, <1>4 DEF HandleClientCiphertext

LEMMA GenerateShare ==
  ASSUME NEW s \in Server, NEW r, Padded(s, r), NEW t, t = GenerateServerCiphertext(s, r)
  PROVE  PadsOf(t.bits) = Shares(s, r.phase, r.online, DOMAIN r.got)
<1> DEFINE f == [c \in DOMAIN r.got \cap r.online |-> r.got[c].bits]
           own == {Pad(c, s, r.phase) : c \in r.online}
<1>1. t.bits = Xor(own, XorAll(f))
  BY DEF GenerateServerCiphertext, Text, ServerPads
<1>2. /\ DOMAIN f = DOMAIN r.got \cap r.online
      /\ \A c \in DOMAIN f : PadsOf(f[c]) = PhasePads({c}, r.phase)
  BY DEF Padded
<1> HIDE DEF f
<1>3. PadsOf(Xor(own, XorAll(f))) = Shares(s, r.phase, r.online, DOMAIN f)
  BY <1>2, ServerShare
<1>4. \A x \in PhasePads(r.online, r.phase) : x.c \in DOMAIN f <=> x.c \in DOMAIN r.got
  BY <1>2, PadIs DEF PhasePads
<1>5. Shares(s, r.phase, r.online, DOMAIN f) = Shares(s, r.phase, r.online, DOMAIN r.got)
  BY <1>4 DEF Shares
<1> QED
  BY <1>1, <1>3, <1>5

\* What a server computes has no data but what was in the ciphertexts it has.
LEMMA GenerateData ==
  ASSUME NEW s, NEW r, NEW t, t = GenerateServerCiphertext(s, r)
  PROVE  \A x \in Data(t.bits) : \E c \in DOMAIN r.got : x \in r.got[c].bits
<1> DEFINE f == [c \in DOMAIN r.got \cap r.online |-> r.got[c].bits]
<1>1. t.bits = Xor(ServerPads(s, r), XorAll(f))
  BY DEF GenerateServerCiphertext, Text
<1>2. \A x \in ServerPads(s, r) : x.is = "pad"
  BY PadIs DEF ServerPads
<1>3. \A x \in XorAll(f) : \E c \in DOMAIN r.got : x \in r.got[c].bits
  <2>1. XorAll(f) \subseteq UNION Range(f)
    BY DEF XorAll
  <2>2. \A b \in Range(f) : \E c \in DOMAIN r.got : b = r.got[c].bits
    BY DEF Range
  <2> HIDE DEF f
  <2> QED
    BY <2>1, <2>2
<1> HIDE DEF f
<1> QED
  BY <1>1, <1>2, <1>3 DEF Data, Xor, SymDiff

\* The wait that the four exchanges share.
LEMMA AwaitStep ==
  ASSUME NEW r, NEW m, NEW q, NEW done, NEW z, z = Await(r, m, q, done),
         q.heard = r.heard \cup {m}
  PROVE  \/ z = Step(r, Silent)
         \/ z = done /\ r.heard \cup {m} = Server
         \/ z = Step(q, Silent)
BY DEF Await

LEMMA ClientListStep ==
  ASSUME NEW s \in Server, NEW r, IsRound(r), NEW msg,
         r.st = "WAIT_FOR_CLIENT_LISTS", msg.type = "SERVER_CLIENT_LIST",
         msg.phase = r.phase,
         NEW z, z = HandleServerClientList(s, r, msg.from, msg.body)
  PROVE  Good(s, r, z, {}) /\ ServerMove(r, msg, z.r) /\ Seals(s, r, msg, z.r)
<1> DEFINE q == [r EXCEPT !.heard = @ \cup {msg.from}, !.online = @ \cup msg.body]
<1>1. /\ IsRound(q) /\ Mailbox(q) = Mailbox(r) /\ q.st = r.st
      /\ Keeps(r, q) /\ q.heard = r.heard \cup {msg.from}
      /\ q.online = r.online \cup msg.body /\ SameShare(r, q)
  BY DEF IsRound, Fields, Mailbox, Keeps, SameShare
<1>2. \/ z = Step(r, Silent)
      \/ z = SubmitCommit(s, q) /\ r.heard \cup {msg.from} = Server
      \/ z = Step(q, Silent)
  <2>1. z = Await(r, msg.from, q, SubmitCommit(s, q))
    BY DEF HandleServerClientList
  <2> HIDE DEF q
  <2> QED
    BY <1>1, <2>1, AwaitStep
<1> HIDE DEF q
<1>3. CASE z = Step(r, Silent)
  BY <1>3, SaysNone, SameSeals DEF Step, Good, ServerMove, Quiet, Keeps, SameShare
<1>4. CASE z = Step(q, Silent)
  BY <1>1, <1>4, SaysNone, SameSeals DEF Step, Good, ServerMove, HearsList, Hears, Consumes
<1>5. CASE z = SubmitCommit(s, q) /\ r.heard \cup {msg.from} = Server
  <2> DEFINE p == Complete(q, "WAIT_FOR_SERVER_COMMITS")
             t == GenerateServerCiphertext(s, q)
             w == [p EXCEPT !.mine = t]
  <2>1. z = Step(w, VerifiableBroadcastToServers(Msg("SERVER_COMMIT", s, w, Hash(w.mine))))
    BY <1>5 DEF SubmitCommit
  <2>2. /\ IsRound(p) /\ Keeps(q, p) /\ p.st = "WAIT_FOR_SERVER_COMMITS" /\ p.heard = {}
        /\ p.online = q.online /\ Mailbox(p) \subseteq Mailbox(q)
        /\ p.text = q.text /\ p.allowed = q.allowed
    BY <1>1, CompleteStep
  <2> HIDE DEF p, t
  <2>3. /\ IsRound(w) /\ Mailbox(w) = Mailbox(p) /\ w.st = p.st /\ w.heard = p.heard
        /\ w.online = p.online /\ w.phase = p.phase /\ w.slots = p.slots
        /\ w.out = p.out /\ w.got = p.got /\ w.mine = t
        /\ w.text = p.text /\ w.allowed = p.allowed
    BY <2>2 DEF IsRound, Fields, Mailbox
  <2> HIDE DEF w
  <2>4. Utters(s, r, w, Msg("SERVER_COMMIT", s, w, Hash(w.mine)))
    BY <2>2, <2>3 DEF Utters, IsPacket, Msg, IsRound
  <2>5. Says(s, r, z.r, z.out) /\ z.r = w
    BY <2>1, <2>4, SaysServers DEF Step
  <2>6. Commits(r, msg, w)
    BY <1>1, <1>5, <2>2, <2>3 DEF Commits, HearsAll, Keeps, Consumes
  <2>7. ASSUME Padded(s, r)
        PROVE  Padded(s, w) /\ PadsOf(w.mine.bits) = Shares(s, w.phase, w.online, DOMAIN w.got)
    <3>1. Padded(s, q)
      BY <1>1, <2>7, PaddedSame DEF SameShare
    <3>3. Padded(s, w)
      BY <2>2, <2>3, <3>1, PaddedSame DEF Keeps
    <3>2. PadsOf(t.bits) = Shares(s, q.phase, q.online, DOMAIN q.got)
      BY <3>1, GenerateShare DEF t
    <3> QED
      BY <2>2, <2>3, <3>2, <3>3 DEF Keeps
  <2>9. Relays(r, msg, w)
    <3>1. \A x \in Data(t.bits) : \E c \in DOMAIN q.got : x \in q.got[c].bits
      BY GenerateData DEF t
    <3>2. w.got = r.got /\ q.got = r.got /\ w.phase = r.phase /\ w.mine = t
      BY <1>1, <2>2, <2>3 DEF Keeps
    <3> QED
      BY <3>1, <3>2 DEF Relays
  <2>8. Seals(s, r, msg, w)
    BY <1>1, <2>2, <2>3, <2>7, <2>9 DEF Seals, SameShare, Keeps
  <2> QED
    BY <1>1, <2>2, <2>3, <2>5, <2>6, <2>8 DEF Good, ServerMove
<1> QED
  BY <1>2, <1>3, <1>4, <1>5

LEMMA CommitStep ==
  ASSUME NEW s \in Server, NEW r, IsRound(r), NEW msg,
         r.st = "WAIT_FOR_SERVER_COMMITS", msg.type = "SERVER_COMMIT",
         msg.phase = r.phase,
         NEW z, z = HandleServerCommit(s, r, msg.from, msg.body)
  PROVE  Good(s, r, z, {}) /\ ServerMove(r, msg, z.r) /\ Seals(s, r, msg, z.r)
<1> DEFINE q == [r EXCEPT !.heard = @ \cup {msg.from}, !.commits[msg.from] = msg.body]
<1>1. /\ IsRound(q) /\ Mailbox(q) = Mailbox(r) /\ q.st = r.st
      /\ Keeps(r, q) /\ q.heard = r.heard \cup {msg.from} /\ q.online = r.online
      /\ SameShare(r, q)
  BY DEF IsRound, Fields, Mailbox, Keeps, SameShare
<1>2. \/ z = Step(r, Silent)
      \/ z = SubmitServerCiphertext(s, q) /\ r.heard \cup {msg.from} = Server
      \/ z = Step(q, Silent)
  <2>1. z = Await(r, msg.from, q, SubmitServerCiphertext(s, q))
    BY DEF HandleServerCommit
  <2> HIDE DEF q
  <2> QED
    BY <1>1, <2>1, AwaitStep
<1> HIDE DEF q
<1>3. CASE z = Step(r, Silent)
  BY <1>3, SaysNone, SameSeals DEF Step, Good, ServerMove, Quiet, Keeps, SameShare
<1>4. CASE z = Step(q, Silent)
  BY <1>1, <1>4, SaysNone, SameSeals DEF Step, Good, ServerMove, HearsCommit, Hears, Consumes
<1>5. CASE z = SubmitServerCiphertext(s, q) /\ r.heard \cup {msg.from} = Server
  <2> DEFINE w == Complete(q, "WAIT_FOR_SERVER_CIPHERTEXT")
  <2>1. z = Step(w, VerifiableBroadcastToServers(Msg("SERVER_CIPHERTEXT", s, w, w.mine)))
    BY <1>5 DEF SubmitServerCiphertext
  <2>2. /\ IsRound(w) /\ Keeps(q, w) /\ w.st = "WAIT_FOR_SERVER_CIPHERTEXT" /\ w.heard = {}
        /\ w.online = q.online /\ Mailbox(w) \subseteq Mailbox(q) /\ SameShare(q, w)
    BY <1>1, CompleteStep DEF SameShare, Keeps
  <2> HIDE DEF w
  <2>3. Utters(s, r, w, Msg("SERVER_CIPHERTEXT", s, w, w.mine))
    BY <2>2 DEF Utters, IsPacket, Msg, IsRound
  <2>4. Says(s, r, z.r, z.out) /\ z.r = w
    BY <2>1, <2>3, SaysServers DEF Step
  <2>5. Reveals(r, msg, w)
    BY <1>1, <1>5, <2>2 DEF Reveals, HearsAll, Keeps, Consumes
  <2>6. Seals(s, r, msg, w)
    BY <1>1, <2>2, SameSeals DEF SameShare
  <2> QED
    BY <1>1, <2>2, <2>4, <2>5, <2>6 DEF Good, ServerMove
<1> QED
  BY <1>2, <1>3, <1>4, <1>5

LEMMA CiphertextStep ==
  ASSUME NEW s \in Server, NEW r, IsRound(r), NEW msg, msg.from \in Server,
         r.st = "WAIT_FOR_SERVER_CIPHERTEXT", msg.type = "SERVER_CIPHERTEXT",
         msg.phase = r.phase,
         NEW z, z = HandleServerCiphertext(s, r, msg.from, msg.body)
  PROVE  Good(s, r, z, {}) /\ ServerMove(r, msg, z.r) /\ Seals(s, r, msg, z.r)
<1> DEFINE q == [r EXCEPT !.heard = @ \cup {msg.from}, !.ciphers[msg.from] = msg.body]
<1>1. /\ IsRound(q) /\ Mailbox(q) = Mailbox(r) /\ q.st = r.st
      /\ Keeps(r, q) /\ q.heard = r.heard \cup {msg.from} /\ q.online = r.online
      /\ q.ciphers = [r.ciphers EXCEPT ![msg.from] = msg.body] /\ SameShare(r, q)
  BY DEF IsRound, Fields, Mailbox, Keeps, SameShare
<1>2. \/ z = Step(r, Silent)
      \/ z = SubmitValidation(s, q) /\ r.heard \cup {msg.from} = Server
      \/ z = Step(q, Silent)
  <2> HIDE DEF q
  <2>1. z = Step(r, Silent) \/ z = Await(r, msg.from, q, SubmitValidation(s, q))
    BY DEF HandleServerCiphertext, q
  <2> QED
    BY <1>1, <2>1, AwaitStep
<1> HIDE DEF q
<1>3. CASE z = Step(r, Silent)
  BY <1>3, SaysNone, SameSeals DEF Step, Good, ServerMove, Quiet, Keeps, SameShare
<1>4. CASE z = Step(q, Silent)
  BY <1>1, <1>4, SaysNone, SameSeals DEF Step, Good, ServerMove, HearsCipher, Hears, Consumes
<1>5. CASE z = SubmitValidation(s, q) /\ r.heard \cup {msg.from} = Server
  <2> DEFINE p == Complete(q, "WAIT_FOR_SERVER_VALIDATION")
             t == Xored(q.slots, q.ciphers)
             w == [p EXCEPT !.text = t]
  <2>1. z = Step(w, VerifiableBroadcastToServers(
               Msg("SERVER_VALIDATION", s, w, SignedHash(w.text, w.online))))
    BY <1>5 DEF SubmitValidation, Xored
  <2>2. /\ IsRound(p) /\ Keeps(q, p) /\ p.st = "WAIT_FOR_SERVER_VALIDATION" /\ p.heard = {}
        /\ p.online = q.online /\ Mailbox(p) \subseteq Mailbox(q) /\ p.allowed = q.allowed
    BY <1>1, CompleteStep
  <2> HIDE DEF p, t
  <2>3. /\ IsRound(w) /\ Mailbox(w) = Mailbox(p) /\ w.st = p.st /\ w.heard = p.heard
        /\ w.online = p.online /\ Keeps(p, w) /\ w.text = t /\ w.allowed = p.allowed
    BY <2>2 DEF IsRound, Fields, Mailbox, Keeps
  <2> HIDE DEF w
  <2>4. Utters(s, r, w, Msg("SERVER_VALIDATION", s, w, SignedHash(w.text, w.online)))
    BY <2>2, <2>3 DEF Utters, IsPacket, Msg, IsRound
  <2>5. Says(s, r, z.r, z.out) /\ z.r = w
    BY <2>1, <2>4, SaysServers DEF Step
  <2>6. w.text = Xored(r.slots, [r.ciphers EXCEPT ![msg.from] = msg.body])
    BY <1>1, <2>3 DEF t, Keeps
  <2>7. Signs(r, msg, w)
    BY <1>1, <1>5, <2>2, <2>3, <2>6 DEF Signs, HearsAll, Keeps, Consumes
  <2>8. Seals(s, r, msg, w)
    BY <1>1, <2>2, <2>3, <2>7 DEF Seals, SameShare, Keeps, Padded, Relays
  <2> QED
    BY <1>1, <2>2, <2>3, <2>5, <2>7, <2>8 DEF Good, ServerMove
<1> QED
  BY <1>2, <1>3, <1>4, <1>5

LEMMA NextPhaseStep ==
  ASSUME NEW r, IsRound(r), NEW q, q = NextPhase(r)
  PROVE  /\ IsRound(q) /\ Mailbox(q) = Mailbox(r) /\ q.phase = r.phase + 1
         /\ q.slots = r.slots /\ q.out = r.out /\ q.mine = r.mine
         /\ q.online = {} /\ q.online = DOMAIN q.got /\ q.st = r.st
         /\ q.text = r.text /\ q.allowed = r.allowed /\ SameOwn(r, q)
<1> DEFINE g == [c \in {} |-> NoText] k == [s \in Server |-> NoText]
<1>1. q = [r EXCEPT !.phase = r.phase + 1, !.online = {}, !.got = g, !.ciphers = k]
  BY DEF NextPhase, IsRound, Fields
<1>2. DOMAIN g = {} /\ k = [s \in Server |-> k[s]]
  OBVIOUS
<1> HIDE DEF g, k
<1>3. /\ q = [f \in Fields |-> q[f]] /\ q.phase = r.phase + 1
      /\ q.early = r.early /\ q.todo = r.todo /\ q.out = r.out /\ q.slots = r.slots
      /\ q.mine = r.mine /\ q.online = {} /\ q.got = g /\ q.ciphers = k /\ q.st = r.st
      /\ q.text = r.text /\ q.allowed = r.allowed
  BY <1>1, ZenonT(60) DEF IsRound, Fields
<1>4. q.ciphers = [s \in Server |-> q.ciphers[s]] /\ DOMAIN q.got = {}
  BY <1>2, <1>3
<1>5. q.phase \in Nat
  BY <1>3 DEF IsRound
<1>6. SameOwn(r, q)
  BY <1>1, ZenonT(60) DEF IsRound, Fields, SameOwn, SameMessages
<1> QED
  BY <1>3, <1>4, <1>5, <1>6 DEF IsRound, Mailbox

\* A blame shuffle begins at n, whose cleartext is processed.
LEMMA StartBlameStep ==
  ASSUME NEW n, NEW r, IsRound(r), NEW z, z = StartBlameShuffle(n, r)
  PROVE  /\ IsRound(z.r) /\ Mailbox(z.r) \subseteq Mailbox(r) /\ Keeps(r, z.r)
         /\ z.r.st = "STARTING_BLAME_SHUFFLE" /\ SameShare(r, z.r)
         /\ \/ Sends(z.out, {})
            \/ Sends(z.out, {BlamePacket(n)})
<1>1. /\ z.r = Complete(r, "STARTING_BLAME_SHUFFLE")
      /\ z.out = Silent \/ z.out = VerifiableBroadcastToServers(BlamePacket(n))
  BY DEF StartBlameShuffle, Step
<1> QED
  BY <1>1, CompleteStep, SendsNone, SendsServers DEF SameShare, Keeps

LEMMA SaysBlame ==
  ASSUME NEW n, NEW r, NEW q
  PROVE  Utters(n, r, q, BlamePacket(n))
BY DEF Utters, IsPacket, BlamePacket

LEMMA PushStep ==
  ASSUME NEW s \in Server, NEW r, IsRound(r), NEW msg,
         r.st = "WAIT_FOR_SERVER_VALIDATION", msg.type = "SERVER_VALIDATION",
         msg.phase = r.phase, r.heard \cup {msg.from} = Server,
         NEW p, IsRound(p), p.st = r.st, Mailbox(p) = Mailbox(r), Keeps(r, p),
         p.text = r.text, p.allowed = r.allowed,
         NEW z, z = PushCleartext(s, p)
  PROVE  Good(s, r, z, {}) /\ ServerMove(r, msg, z.r) /\ Seals(s, r, msg, z.r)
<1> DEFINE x == Msg("SERVER_CLEARTEXT", s, p,
                    [sigs |-> p.sigs, text |-> p.text, online |-> p.online])
           push == VerifiableBroadcastToClients(p, x)
           d == Complete(p, "PUSH_CLEARTEXT")
           q == ProcessCleartext(s, d)
           v == IF StartAccuse(p) THEN StartBlameShuffle(s, q)
                ELSE SetOnlineClients(s, NextPhase(q))
<1>1. z = Step(v.r, Also(push, v.out))
  BY DEF PushCleartext
<1>2. Sends(push, {x})
  BY SendsClients
<1>3. \A y : Utters(s, r, y, x)
  BY DEF Utters, IsPacket, Msg, Keeps, IsRound
<1>4. /\ IsRound(d) /\ Keeps(p, d) /\ d.text = p.text /\ Mailbox(d) \subseteq Mailbox(p)
      /\ d.allowed = p.allowed
  BY CompleteStep
<1> HIDE DEF push, d, x
<1>5. /\ IsRound(q) /\ q.phase = r.phase /\ q.got = r.got /\ q.mine = r.mine
      /\ q.slots = SlotsAfter(r.slots, r.text) /\ q.out = OutAfter(r.out, r.slots, r.text)
      /\ Mailbox(q) \subseteq Mailbox(r) /\ q.text = r.text /\ q.allowed = r.allowed
  <2> HIDE DEF q
  <2>1. /\ IsRound(q) /\ q.slots = SlotsAfter(d.slots, d.text)
        /\ q.out = OutAfter(d.out, d.slots, d.text)
        /\ q.phase = d.phase /\ q.got = d.got /\ q.mine = d.mine
        /\ q.early = d.early /\ q.todo = d.todo
        /\ q.text = d.text /\ q.allowed = d.allowed
    BY <1>4, ProcessStep DEF q
  <2> QED
    BY <1>4, <2>1 DEF Keeps, Mailbox
<1> HIDE DEF q
<1>6. ASSUME NEW M, Sends(v.out, M), \A y \in M : Utters(s, r, v.r, y)
      PROVE  Says(s, r, z.r, z.out)
  <2> HIDE DEF v
  <2>1. z.r = v.r /\ z.out = Also(push, v.out)
    BY <1>1 DEF Step
  <2>2. Sends(z.out, {x} \cup M)
    BY <1>2, <1>6, <2>1, SendsAlso
  <2>3. \A y \in {x} \cup M : Utters(s, r, z.r, y)
    BY <1>3, <1>6, <2>1
  <2> QED
    BY <2>2, <2>3, SaysThat
<1>7. z.r = v.r
  BY <1>1 DEF Step
<1>8. CASE StartAccuse(p)
  <2>1. v = StartBlameShuffle(s, q)
    BY <1>8
  <2> HIDE DEF v
  <2>2. /\ IsRound(v.r) /\ Mailbox(v.r) \subseteq Mailbox(q) /\ Keeps(q, v.r)
        /\ v.r.st = "STARTING_BLAME_SHUFFLE" /\ SameShare(q, v.r)
        /\ \/ Sends(v.out, {})
           \/ Sends(v.out, {BlamePacket(s)})
    BY <1>5, <2>1, StartBlameStep
  <2>3. Says(s, r, z.r, z.out)
    BY <1>6, <2>2, SaysBlame
  <2>4. Blames(r, msg, z.r)
    BY <1>5, <1>7, <2>2 DEF Blames, Passes, Keeps
  <2>5. Seals(s, r, msg, z.r)
    BY <1>5, <1>7, <2>2, SameSeals DEF SameShare
  <2> QED
    BY <1>5, <1>7, <2>2, <2>3, <2>4, <2>5 DEF Good, ServerMove
<1>9. CASE ~StartAccuse(p)
  <2> DEFINE w == NextPhase(q)
  <2>1. v = SetOnlineClients(s, w)
    BY <1>9
  <2>2. /\ IsRound(w) /\ Mailbox(w) = Mailbox(q) /\ w.phase = q.phase + 1
        /\ w.slots = q.slots /\ w.out = q.out /\ w.mine = q.mine
        /\ w.online = DOMAIN w.got /\ DOMAIN w.got = {}
        /\ w.text = q.text /\ w.allowed = q.allowed
    BY <1>5, NextPhaseStep
  <2> HIDE DEF v, w
  <2>3. EntersWindow(s, w, v)
    BY <2>1, <2>2, OnlineStep
  <2>4. v.r.st = "WAIT_FOR_CLIENT_LISTS" =>
          Utters(s, r, v.r, Msg("SERVER_CLIENT_LIST", s, v.r, v.r.online))
    BY <2>3 DEF Utters, IsPacket, Msg, IsRound, EntersWindow
  <2>5. Says(s, r, z.r, z.out)
    BY <1>6, <2>3, <2>4 DEF EntersWindow
  <2>6. NextPhased(r, msg, z.r)
    BY <1>5, <1>7, <2>2, <2>3 DEF NextPhased, Passes, InWindow, EntersWindow
  <2>8. Relays(r, msg, z.r)
    BY <1>7, <2>2, <2>3 DEF Relays, SameShare, EntersWindow
  <2>7. Seals(s, r, msg, z.r)
    BY <1>5, <1>7, <2>2, <2>3, <2>8 DEF Seals, SameShare, EntersWindow, Padded
  <2> QED
    BY <1>5, <1>7, <2>2, <2>3, <2>5, <2>6, <2>7 DEF Good, ServerMove, EntersWindow
<1> QED
  BY <1>8, <1>9

LEMMA ValidationStep ==
  ASSUME NEW s \in Server, NEW r, IsRound(r), NEW msg,
         r.st = "WAIT_FOR_SERVER_VALIDATION", msg.type = "SERVER_VALIDATION",
         msg.phase = r.phase,
         NEW z, z = HandleServerValidation(s, r, msg.from, msg.body)
  PROVE  Good(s, r, z, {}) /\ ServerMove(r, msg, z.r) /\ Seals(s, r, msg, z.r)
<1> DEFINE q == [r EXCEPT !.heard = @ \cup {msg.from}, !.sigs[msg.from] = msg.body]
<1>1. /\ IsRound(q) /\ Mailbox(q) = Mailbox(r) /\ q.st = r.st
      /\ Keeps(r, q) /\ q.heard = r.heard \cup {msg.from} /\ q.online = r.online
      /\ q.text = r.text /\ q.allowed = r.allowed /\ SameShare(r, q)
  BY DEF IsRound, Fields, Mailbox, Keeps, SameShare
<1>2. \/ z = Step(r, Silent)
      \/ z = PushCleartext(s, q) /\ r.heard \cup {msg.from} = Server
      \/ z = Step(q, Silent)
  <2>1. z = Step(r, Silent) \/ z = Await(r, msg.from, q, PushCleartext(s, q))
    BY DEF HandleServerValidation
  <2> HIDE DEF q
  <2> QED
    BY <1>1, <2>1, AwaitStep
<1> HIDE DEF q
<1>3. CASE z = Step(r, Silent)
  BY <1>3, SaysNone, SameSeals DEF Step, Good, ServerMove, Quiet, Keeps, SameShare
<1>4. CASE z = Step(q, Silent)
  BY <1>1, <1>4, SaysNone, SameSeals DEF Step, Good, ServerMove, HearsSignature, Hears, Consumes
<1>5. CASE z = PushCleartext(s, q) /\ r.heard \cup {msg.from} = Server
  BY <1>1, <1>5, PushStep
<1> QED
  BY <1>2, <1>3, <1>4, <1>5

\* What a server makes of any message that it is given, now or again.
Processable(msg) ==
  /\ msg.type \in DOMAIN Consumes /\ msg.phase \in Nat /\ Masked(msg)
  /\ msg.type # "CLIENT_CIPHERTEXT" => msg.from \in Server

LEMMA StoreStep ==
  ASSUME NEW n, NEW r, IsRound(r), NEW msg, NEW z,
         z = Step([r EXCEPT !.early = Append(@, msg)], Silent)
  PROVE  /\ Good(n, r, z, {msg}) /\ Quiet(r, z.r) /\ SameShare(r, z.r)
         /\ SameOwn(r, z.r)
<1> DEFINE q == [r EXCEPT !.early = Append(r.early, msg)]
<1>1. z.r = q /\ z.out = Silent
  BY DEF Step, IsRound, Fields
<1>2. IsSeq(Append(r.early, msg)) /\ Range(Append(r.early, msg)) = Range(r.early) \cup {msg}
  BY SeqAppend DEF IsRound
<1>3. q.early = Append(r.early, msg) /\ q.todo = r.todo /\ Quiet(r, q) /\ IsRound(q)
      /\ SameShare(r, q) /\ SameOwn(r, q)
  BY <1>2 DEF IsRound, Fields, Quiet, Keeps, SameShare, SameOwn, SameMessages
<1> QED
  BY <1>1, <1>2, <1>3, SaysNone DEF Good, Mailbox

LEMMA ServerData ==
  ASSUME NEW s \in Server, NEW r, IsRound(r), r.st # "WAIT_FOR_CLEARTEXT",
         NEW msg, Processable(msg), NEW z, z = ProcessData(s, r, msg)
  PROVE  Good(s, r, z, {msg}) /\ ServerMove(r, msg, z.r) /\ Seals(s, r, msg, z.r)
<1>1. CASE Stale(r, msg)
  <2>1. z = Step(r, Silent)
    BY <1>1 DEF ProcessData
  <2> QED
    BY <2>1, SaysNone, SameSeals DEF Step, Good, ServerMove, Quiet, Keeps, SameShare
<1>2. CASE ~Stale(r, msg) /\ Early(r, msg)
  <2>1. z = Step([r EXCEPT !.early = Append(@, msg)], Silent)
    BY <1>2 DEF ProcessData
  <2> QED
    BY <2>1, StoreStep, SameSeals DEF ServerMove
<1>3. CASE ~Stale(r, msg) /\ ~Early(r, msg)
  <2>1. z = Handle(s, r, msg.from, msg)
    BY <1>3 DEF ProcessData
  <2>2. msg.phase = r.phase /\ r.st = Consumes[msg.type]
    BY <1>3 DEF Stale, Early, IsRound, Processable
  <2>3. Good(s, r, z, {}) => Good(s, r, z, {msg})
    BY DEF Good
  <2>4. CASE msg.type = "CLIENT_CIPHERTEXT"
    <3>1. z = HandleClientCiphertext(s, r, msg.from, msg.body)
      BY <2>1, <2>4 DEF Handle
    <3> QED
      BY <2>2, <2>3, <2>4, <3>1, ClientCiphertextStep DEF Consumes
  <2>5. CASE msg.type = "SERVER_CLIENT_LIST"
    <3>1. z = HandleServerClientList(s, r, msg.from, msg.body)
      BY <2>1, <2>5 DEF Handle
    <3> QED
      BY <2>2, <2>3, <2>5, <3>1, ClientListStep DEF Consumes
  <2>6. CASE msg.type = "SERVER_COMMIT"
    <3>1. z = HandleServerCommit(s, r, msg.from, msg.body)
      BY <2>1, <2>6 DEF Handle
    <3> QED
      BY <2>2, <2>3, <2>6, <3>1, CommitStep DEF Consumes
  <2>7. CASE msg.type = "SERVER_CIPHERTEXT"
    <3>1. z = HandleServerCiphertext(s, r, msg.from, msg.body)
      BY <2>1, <2>7 DEF Handle
    <3> QED
      BY <2>2, <2>3, <2>7, <3>1, CiphertextStep DEF Consumes, Processable
  <2>8. CASE msg.type = "SERVER_VALIDATION"
    <3>1. z = HandleServerValidation(s, r, msg.from, msg.body)
      BY <2>1, <2>8 DEF Handle
    <3> QED
      BY <2>2, <2>3, <2>8, <3>1, ValidationStep DEF Consumes
  <2>9. msg.type # "SERVER_CLEARTEXT"
    BY <2>2 DEF Consumes
  <2> QED
    BY <2>4, <2>5, <2>6, <2>7, <2>8, <2>9 DEF Processable, Consumes
<1> QED
  BY <1>1, <1>2, <1>3

\* The shuffle of the keys ends at a server.
LEMMA ServerStart ==
  ASSUME NEW s \in Server, NEW r, IsRound(r), r.st = "SHUFFLING", NEW msg,
         NEW z, z = PrepareForBulk(s, r)
  PROVE  Good(s, r, z, {}) /\ ServerMove(r, msg, z.r) /\ Seals(s, r, msg, z.r)
<1>1. EntersWindow(s, r, z)
  BY OnlineStep DEF PrepareForBulk
<1>2. z.r.st = "WAIT_FOR_CLIENT_LISTS" =>
        Utters(s, r, z.r, Msg("SERVER_CLIENT_LIST", s, z.r, z.r.online))
  BY <1>1 DEF Utters, IsPacket, Msg, IsRound, EntersWindow
<1>3. Says(s, r, z.r, z.out)
  BY <1>1, <1>2, SaysThat DEF EntersWindow
<1> QED
  BY <1>1, <1>3, SameSeals DEF Good, ServerMove, Opens, InWindow, EntersWindow

\* The window is closed by its timer.
LEMMA TimerStep ==
  ASSUME NEW s \in Server, NEW r, IsRound(r), r.st = "WAIT_FOR_CLIENT_CIPHERTEXT",
         NEW msg, NEW z, z = SubmitClientList(s, r)
  PROVE  Good(s, r, z, {}) /\ ServerMove(r, msg, z.r) /\ Seals(s, r, msg, z.r)
<1>1. /\ IsRound(z.r) /\ Mailbox(z.r) \subseteq Mailbox(r)
      /\ z.r.st = "WAIT_FOR_CLIENT_LISTS" /\ z.r.heard = {} /\ z.r.phase = r.phase
      /\ z.r.slots = r.slots /\ z.r.out = r.out /\ z.r.got = r.got
      /\ z.r.mine = r.mine /\ z.r.online = r.online /\ SameShare(r, z.r)
      /\ Sends(z.out, {Msg("SERVER_CLIENT_LIST", s, z.r, z.r.online)})
  BY SubmitListStep
<1>2. Utters(s, r, z.r, Msg("SERVER_CLIENT_LIST", s, z.r, z.r.online))
  BY <1>1 DEF Utters, IsPacket, Msg, IsRound
<1>3. Says(s, r, z.r, z.out)
  BY <1>1, <1>2, SaysThat
<1> QED
  BY <1>1, <1>3, SameSeals DEF Good, ServerMove, ClosesWindow, Collects

LEMMA StoppedStep ==
  ASSUME NEW r, IsRound(r), NEW q, q = Stopped(r)
  PROVE  IsRound(q) /\ Mailbox(q) \subseteq Mailbox(r) /\ Stops(r, q) /\ SameShare(r, q)
<1> DEFINE d == Complete(r, "FINISHED")
<1>1. q = [d EXCEPT !.todo = <<>>]
  BY DEF Stopped
<1>2. /\ IsRound(d) /\ Keeps(r, d) /\ d.st = "FINISHED" /\ Mailbox(d) \subseteq Mailbox(r)
      /\ d.text = r.text /\ d.allowed = r.allowed
  BY CompleteStep
<1> HIDE DEF d
<1>3. /\ IsRound(q) /\ q.early = d.early /\ q.todo = <<>> /\ Keeps(d, q) /\ q.st = d.st
      /\ q.text = d.text /\ q.allowed = d.allowed
  BY <1>1, <1>2, SeqEmpty DEF IsRound, Fields, Keeps
<1> QED
  BY <1>2, <1>3, SeqEmpty DEF Mailbox, Stops, Keeps, SameShare

\* An edge closes.
LEMMA DisconnectStep ==
  ASSUME NEW n, NEW r, IsRound(r), NEW m, NEW q, q = HandleDisconnect(n, r, m)
  PROVE  /\ IsRound(q) /\ Mailbox(q) \subseteq Mailbox(r)
         /\ Stops(r, q) \/ (Quiet(r, q) /\ SameOwn(r, q))
         /\ SameShare(r, q)
<1>1. CASE q = Stopped(r)
  BY <1>1, StoppedStep
<1>2. CASE q = [r EXCEPT !.allowed = @ \ {m}]
  BY <1>2 DEF IsRound, Fields, Mailbox, Quiet, Keeps, SameShare, SameOwn, SameMessages
<1> QED
  BY <1>1, <1>2 DEF HandleDisconnect

-----------------------------------------------------------------------------
(* What everybody was given of client c: the batches with a message of it. *)

Batches(out, c) == {i \in 1..Len(out) : \E x \in out[i] : x[1] = c}
Total(out, c) == Cardinality(Batches(out, c))
GivenNow(slots, t, c) ==
  slots[c] > 0 /\ ~Garbled(t, c) /\ \E x \in Written(t, c) : x.msg # 0

LEMMA PushedOf ==
  ASSUME NEW c \in Client, NEW slots, NEW t,
         NEW b, b = Pushed([slots |-> slots, text |-> t])
  PROVE  /\ (\E x \in b : x[1] = c) <=> GivenNow(slots, t, c)
         /\ \A x \in b : x[1] = c =>
              /\ Written(t, c) # {}
              /\ \E w \in Written(t, c) : x[2] = IF w.accuse THEN 0 ELSE w.msg
<1> DEFINE In(d) == CHOOSE x \in Written(t, d) : TRUE
           v(d) == IF In(d).accuse THEN 0 ELSE In(d).msg
           full == {d \in Client : GivenNow(slots, t, d)}
<1>1. b = {<<d, v(d)>> : d \in full}
  BY DEF Pushed, GivenNow
<1>2. \A d \in full : In(d) \in Written(t, d)
  BY DEF GivenNow
<1>3. \A d : v(d) = IF In(d).accuse THEN 0 ELSE In(d).msg
  OBVIOUS
<1>4. c \in full <=> GivenNow(slots, t, c)
  OBVIOUS
<1>7. \A d \in full : In(d) \in Written(t, d)
  BY <1>2
<1>8. \A x : x \in b <=> \E d \in full : x = <<d, v(d)>>
  BY <1>1
<1> HIDE DEF In, v, full
<1>5. (\E x \in b : x[1] = c) <=> c \in full
  <2>1. c \in full => <<c, v(c)>> \in b /\ <<c, v(c)>>[1] = c
    BY <1>8
  <2>2. \A x \in b : x[1] \in full
    BY <1>8
  <2> QED
    BY <2>1, <2>2
<1>6. ASSUME NEW x \in b, x[1] = c
      PROVE  \E w \in Written(t, c) : x[2] = IF w.accuse THEN 0 ELSE w.msg
  <2>1. c \in full /\ x = <<c, v(c)>>
    <3>1. PICK d \in full : x = <<d, v(d)>>
      BY <1>6, <1>8
    <3>2. x[1] = d
      BY <3>1
    <3> QED
      BY <1>6, <3>1, <3>2
  <2>2. x[2] = v(c) /\ In(c) \in Written(t, c)
    BY <1>7, <2>1
  <2> QED
    BY <1>3, <2>1, <2>2
<1> QED
  BY <1>4, <1>5, <1>6

LEMMA BatchesFinite ==
  ASSUME NEW out, IsSeq(out), NEW c
  PROVE  IsFiniteSet(Batches(out, c)) /\ Total(out, c) \in Nat
<1>1. Len(out) \in Nat
  BY DEF IsSeq
<1>2. IsFiniteSet(1..Len(out)) /\ Batches(out, c) \subseteq 1..Len(out)
  BY <1>1, FS_Interval DEF Batches
<1>3. IsFiniteSet(Batches(out, c))
  BY <1>2, FS_Subset
<1> QED
  BY <1>3, FS_CardinalityType DEF Total

LEMMA BatchesAfter ==
  ASSUME NEW c \in Client, NEW out, IsSeq(out), NEW slots, NEW t,
         NEW o, o = OutAfter(out, slots, t)
  PROVE  /\ GivenNow(slots, t, c) =>
              /\ Batches(o, c) = Batches(out, c) \cup {Len(out) + 1}
              /\ Total(o, c) = Total(out, c) + 1
         /\ ~GivenNow(slots, t, c) => Batches(o, c) = Batches(out, c) /\ Total(o, c) = Total(out, c)
<1> DEFINE b == Pushed([slots |-> slots, text |-> t])
<1>1. (\E x \in b : x[1] = c) <=> GivenNow(slots, t, c)
  BY PushedOf
<1>2. o = IF b = {} THEN out ELSE Append(out, b)
  BY DEF OutAfter
<1> HIDE DEF b
<1>3. CASE b = {}
  BY <1>1, <1>2, <1>3
<1>4. CASE b # {}
  <2>1. o = Append(out, b) /\ Len(out) \in Nat
    BY <1>2, <1>4 DEF IsSeq
  <2>2. /\ Len(o) = Len(out) + 1 /\ o[Len(out) + 1] = b
        /\ \A i \in 1..Len(out) : o[i] = out[i]
    BY <2>1, SeqAppend
  <2>3. Batches(o, c) = Batches(out, c) \cup
                          (IF \E x \in b : x[1] = c THEN {Len(out) + 1} ELSE {})
    BY <2>1, <2>2 DEF Batches
  <2>4. Len(out) + 1 \notin Batches(out, c)
    BY <2>1 DEF Batches
  <2>5. CASE \E x \in b : x[1] = c
    <3>1. Batches(o, c) = Batches(out, c) \cup {Len(out) + 1}
      BY <2>3, <2>5
    <3>2. Total(o, c) = Total(out, c) + 1
      BY <2>4, <3>1, BatchesFinite, FS_AddElement DEF Total
    <3> QED
      BY <1>1, <2>5, <3>1, <3>2
  <2>6. CASE ~(\E x \in b : x[1] = c)
    BY <1>1, <2>3, <2>6 DEF Total
  <2> QED
    BY <2>5, <2>6
<1> QED
  BY <1>3, <1>4

-----------------------------------------------------------------------------
(* The steps of a client *)

ClientOpens(r, q) ==
  /\ r.st = "SHUFFLING" /\ q.st = "WAIT_FOR_CLEARTEXT"
  /\ q.phase = r.phase /\ q.slots = r.slots /\ q.out = r.out
ClientPasses(r, msg, q) ==
  /\ r.st = "WAIT_FOR_CLEARTEXT" /\ msg.type = "SERVER_CLEARTEXT" /\ msg.phase = r.phase
  /\ q.slots = SlotsAfter(r.slots, msg.body.text)
  /\ q.out = OutAfter(r.out, r.slots, msg.body.text)
  /\ \/ q.phase = r.phase + 1 /\ q.st = "WAIT_FOR_CLEARTEXT"
     \/ q.phase = r.phase /\ q.st = "STARTING_BLAME_SHUFFLE"
ClientMove(r, msg, q) ==
  Quiet(r, q) \/ Stops(r, q) \/ ClientOpens(r, q) \/ ClientPasses(r, msg, q)

\* What a client writes changes only what it remembers of its own messages.
Writes(r, q) ==
  /\ IsRound(q) /\ Mailbox(q) = Mailbox(r) /\ q.st = r.st
  /\ q.phase = r.phase /\ q.slots = r.slots /\ q.out = r.out

\* How it goes from message to message.
Recalls(r, q) ==
  /\ q.accuse = r.accuse
  /\ \/ /\ r.open /\ r.read /\ q.open = r.open /\ q.read = r.read
        /\ q.last = r.next /\ q.next = GetData(r)
        /\ q.taken = IF GetData(r) = 0 THEN r.taken ELSE GetData(r)
     \/ /\ r.open /\ ~r.read /\ q.open = r.open /\ q.read = TRUE
        /\ SameMessages(r, q)
     \/ /\ ~r.open /\ CheckData(r) /\ q.open = TRUE /\ q.read = FALSE
        /\ IF r.next # 0 THEN SameMessages(r, q)
           ELSE q.last = 0 /\ q.next = GetData(r) /\ q.taken = GetData(r)
     \/ /\ ~r.open /\ ~CheckData(r) /\ q.open = r.open /\ q.read = r.read
        /\ q.last = 0 /\ q.next = r.next /\ q.taken = r.taken

LEMMA GenerateStep ==
  ASSUME NEW c, NEW r, IsRound(r), NEW q, q = GenerateCiphertext(c, r).r
  PROVE  Writes(r, q) /\ Recalls(r, q)
<1> DEFINE more == GetData(r)
<1>0. more = GetData(r)
  OBVIOUS
<1> HIDE DEF more
<1>1. CASE r.open
  <2> DEFINE taken == IF more = 0 THEN r.taken ELSE more
  <2>0. taken = IF more = 0 THEN r.taken ELSE more
    OBVIOUS
  <2> HIDE DEF taken
  <2>1. q = GenerateSlotMessage(c, r).r
    BY <1>1 DEF GenerateCiphertext
  <2>2. \/ r.read /\ q = [r EXCEPT !.last = r.next, !.next = more, !.taken = taken]
        \/ ~r.read /\ q = [r EXCEPT !.read = TRUE]
    <3> DEFINE a == [r EXCEPT !.last = r.next, !.next = more, !.taken = taken]
               b == [r EXCEPT !.last = r.next, !.next = more,
                              !.taken = IF more = 0 THEN @ ELSE more]
               e == [r EXCEPT !.read = TRUE]
    <3>1. a = b
      BY <2>0, ZenonT(60) DEF IsRound, Fields
    <3>2. GenerateSlotMessage(c, r).r = IF r.read THEN b ELSE e
      BY DEF GenerateSlotMessage, more
    <3> HIDE DEF a, b, e
    <3>3. q = IF r.read THEN b ELSE e
      BY <2>1, <3>2
    <3>4. (r.read /\ q = a) \/ (~r.read /\ q = e)
      BY <3>1, <3>3
    <3> QED
      BY <3>4 DEF a, e
  <2>3. CASE r.read /\ q = [r EXCEPT !.last = r.next, !.next = more, !.taken = taken]
    <3> DEFINE nx == r.next
    <3>3. q = [r EXCEPT !.last = nx, !.next = more, !.taken = taken] /\ nx = r.next
      BY <2>3
    <3> HIDE DEF nx
    <3>0. /\ q = [f \in Fields |-> q[f]] /\ q.st = r.st /\ q.phase = r.phase
          /\ q.slots = r.slots /\ q.out = r.out /\ q.early = r.early /\ q.todo = r.todo
          /\ q.ciphers = r.ciphers
      <4>1. r = [f \in Fields |-> r[f]]
        BY DEF IsRound
      <4>2. q = [f \in Fields |-> q[f]]
        BY <3>3, <4>1
      <4>3. q.st = r.st /\ q.phase = r.phase /\ q.slots = r.slots /\ q.out = r.out
        BY <3>3, <4>1, ZenonT(60) DEF Fields
      <4>4. q.early = r.early /\ q.todo = r.todo /\ q.ciphers = r.ciphers
        BY <3>3, <4>1, ZenonT(60) DEF Fields
      <4> QED
        BY <4>2, <4>3, <4>4
    <3>1. Writes(r, q)
      BY <3>0 DEF Writes, IsRound, Mailbox
    <3>2. /\ q.last = r.next /\ q.next = more /\ q.taken = taken
          /\ q.open = r.open /\ q.read = r.read /\ q.accuse = r.accuse
      <4>1. r = [f \in Fields |-> r[f]]
        BY DEF IsRound
      <4>2. q.last = nx /\ q.next = more /\ q.taken = taken
        BY <3>3, <4>1, ZenonT(60) DEF Fields
      <4>3. q.open = r.open /\ q.read = r.read /\ q.accuse = r.accuse
        BY <3>3, <4>1, ZenonT(60) DEF Fields
      <4> QED
        BY <3>3, <4>2, <4>3
    <3> QED
      BY <1>0, <1>1, <2>0, <2>3, <3>1, <3>2 DEF Recalls
  <2>4. CASE ~r.read /\ q = [r EXCEPT !.read = TRUE]
    <3>1. Writes(r, q)
      BY <2>4, ZenonT(60) DEF Writes, IsRound, Fields, Mailbox
    <3>2. /\ SameMessages(r, q) /\ q.open = r.open /\ q.read = TRUE /\ q.accuse = r.accuse
      BY <2>4, ZenonT(60) DEF IsRound, Fields, SameMessages
    <3> QED
      BY <1>1, <2>4, <3>1, <3>2 DEF Recalls
  <2> QED
    BY <2>2, <2>3, <2>4
<1>2. CASE ~r.open /\ CheckData(r)
  <2>1. \/ r.next # 0 /\ q = [r EXCEPT !.read = FALSE, !.open = TRUE]
        \/ r.next = 0 /\ q = [r EXCEPT !.read = FALSE, !.open = TRUE, !.last = 0,
                                       !.next = more, !.taken = more]
    BY <1>2 DEF GenerateCiphertext, more
  <2>2. CASE r.next # 0 /\ q = [r EXCEPT !.read = FALSE, !.open = TRUE]
    <3>1. Writes(r, q)
      BY <2>2 DEF Writes, IsRound, Fields, Mailbox
    <3>2. SameMessages(r, q) /\ q.open = TRUE /\ q.read = FALSE /\ q.accuse = r.accuse
      BY <2>2, ZenonT(60) DEF IsRound, Fields, SameMessages
    <3> QED
      BY <1>2, <2>2, <3>1, <3>2 DEF Recalls
  <2>3. CASE r.next = 0 /\ q = [r EXCEPT !.read = FALSE, !.open = TRUE, !.last = 0,
                                        !.next = more, !.taken = more]
    <3>1. Writes(r, q)
      BY <2>3, ZenonT(60) DEF Writes, IsRound, Fields, Mailbox
    <3>2. /\ q.last = 0 /\ q.next = more /\ q.taken = more
          /\ q.open = TRUE /\ q.read = FALSE /\ q.accuse = r.accuse
      BY <2>3, ZenonT(60) DEF IsRound, Fields
    <3> QED
      BY <1>0, <1>2, <2>3, <3>1, <3>2 DEF Recalls
  <2> QED
    BY <2>1, <2>2, <2>3
<1>3. CASE ~r.open /\ ~CheckData(r)
  <2>1. q = [r EXCEPT !.last = 0]
    BY <1>3 DEF GenerateCiphertext
  <2>2. Writes(r, q)
    BY <2>1 DEF Writes, IsRound, Fields, Mailbox
  <2>3. /\ q.last = 0 /\ q.next = r.next /\ q.taken = r.taken
        /\ q.open = r.open /\ q.read = r.read /\ q.accuse = r.accuse
    BY <2>1, ZenonT(60) DEF IsRound, Fields
  <2> QED
    BY <1>3, <2>2, <2>3 DEF Recalls
<1> QED
  BY <1>1, <1>2, <1>3

\* The data that a client writes is what its state says.
LEMMA WriteData ==
  ASSUME NEW c, NEW r, IsRound(r), NEW t, t = GenerateCiphertext(c, r).text,
         NEW q, q = GenerateCiphertext(c, r).r
  PROVE  Data(t.bits) \subseteq OwnBits(c, q)
<1>1. Writes(r, q) /\ Recalls(r, q)
  BY GenerateStep
<1>2. \A x \in Pads(c, r) : x.is = "pad"
  BY PadIs DEF Pads
<1>3. ASSUME NEW b, t.bits = Xor(Pads(c, r), b) PROVE Data(t.bits) \subseteq b
  BY <1>2, <1>3 DEF Data, Xor, SymDiff
<1>4. CASE r.open
  <2> DEFINE g == GenerateSlotMessage(c, r)
             x == Slot(c, r.phase, SlotHeaderLength + IF r.accuse THEN 0 ELSE q.next,
                       IF r.read THEN r.next ELSE r.last, r.accuse)
  <2>1. q = g.r /\ t.bits = Xor(Pads(c, r), g.bits)
    BY <1>4 DEF GenerateCiphertext, Text
  <2>2. g.bits = {x}
    BY <2>1 DEF GenerateSlotMessage
  <2>3. OwnBits(c, q) = {x}
    BY <1>1, <1>4 DEF Writes, Recalls, SameMessages, OwnBits
  <2> QED
    BY <1>3, <2>1, <2>2, <2>3
<1>5. CASE ~r.open /\ CheckData(r)
  <2>1. t.bits = Xor(Pads(c, r), {Open(c, r.phase)})
    BY <1>5 DEF GenerateCiphertext, Text
  <2>2. OwnBits(c, q) = {Open(c, r.phase)}
    BY <1>1, <1>5 DEF Writes, Recalls, OwnBits
  <2> QED
    BY <1>3, <2>1, <2>2
<1>6. CASE ~r.open /\ ~CheckData(r)
  <2>1. t.bits = Pads(c, r)
    BY <1>6 DEF GenerateCiphertext, Text
  <2> QED
    BY <1>2, <2>1 DEF Data
<1> QED
  BY <1>4, <1>5, <1>6

\* What a cleartext t means to its owner.
IsLost(c, r, t) == c \in Client /\ r.slots[c] > 0 /\ Lost(t, c)
IsBad(c, r, t) == c \in Client /\ r.slots[c] > 0 /\ Garbled(t, c) /\ ~r.accuse
Resends(c, r, t, q) ==
  /\ SameMessages(r, q)
  /\ \/ /\ IsLost(c, r, t)
        /\ q.read = FALSE /\ q.open = TRUE /\ q.accuse = r.accuse
     \/ /\ ~IsLost(c, r, t) /\ IsBad(c, r, t)
        /\ q.read = FALSE /\ q.open = TRUE /\ q.accuse = Provable(t, c)
     \/ /\ ~IsLost(c, r, t) /\ ~IsBad(c, r, t)
        /\ q.read = r.read /\ q.open = r.open /\ q.accuse = r.accuse

LEMMA ResendStep ==
  ASSUME NEW c, NEW r, IsRound(r), NEW q, q = ProcessCleartext(c, r)
  PROVE  Resends(c, r, r.text, q)
<1> DEFINE o == OwnSlot(c, r)
           ns == [d \in Client |-> NextSlot(r, d)]
           no == IF Pushed(r) = {} THEN o.out ELSE Append(o.out, Pushed(r))
<1>1. Resends(c, r, r.text, o) /\ o = [f \in Fields |-> o[f]]
  <2>1. CASE IsLost(c, r, r.text)
    <3>1. o = [r EXCEPT !.read = FALSE, !.open = TRUE]
      BY <2>1 DEF OwnSlot, IsLost, Lost
    <3> QED
      BY <2>1, <3>1, ZenonT(60) DEF IsRound, Fields, Resends, SameMessages
  <2>2. CASE ~IsLost(c, r, r.text) /\ IsBad(c, r, r.text)
    <3>1. o = [r EXCEPT !.read = FALSE, !.open = TRUE, !.accuse = Provable(r.text, c)]
      BY <2>2 DEF OwnSlot, IsLost, IsBad
    <3> QED
      BY <2>2, <3>1, ZenonT(60) DEF IsRound, Fields, Resends, SameMessages
  <2>3. CASE ~IsLost(c, r, r.text) /\ ~IsBad(c, r, r.text)
    <3>1. o = r
      BY <2>3 DEF OwnSlot, IsLost, IsBad
    <3> QED
      BY <2>3, <3>1 DEF IsRound, Resends, SameMessages
  <2> QED
    BY <2>1, <2>2, <2>3
<1>2. q = [o EXCEPT !.slots = ns, !.out = no]
  <2>1. q = [o EXCEPT !.slots = ns,
                      !.out = IF Pushed(r) = {} THEN @ ELSE Append(@, Pushed(r))]
    BY DEF ProcessCleartext
  <2> HIDE DEF o, ns
  <2> QED
    BY <1>1, <2>1 DEF Fields
<1> HIDE DEF o, ns, no
<1>3. /\ SameMessages(o, q) /\ q.read = o.read /\ q.open = o.open /\ q.accuse = o.accuse
  BY <1>1, <1>2, ZenonT(60) DEF Fields, SameMessages
<1> QED
  BY <1>1, <1>3 DEF Resends, SameMessages

\* What a client remembers fits what everybody was given of it.  Its slot is not open,
\* or opens with this phase, or never does, or carries the next message or none, until
\* the client accuses.
Unopened(c, r) ==
  /\ r.slots[c] = 0 /\ r.next = 0 /\ r.last = 0 /\ r.taken = 0
  /\ ~r.read /\ ~r.accuse /\ Total(r.out, c) = 0
Opening(c, r) ==
  /\ r.slots[c] = 0 /\ r.next = 1 /\ r.last = 0 /\ r.taken = 1
  /\ ~r.accuse /\ Total(r.out, c) = 0
Numbered(c, r) ==
  /\ r.last = 0 \/ r.last = Total(r.out, c) + 1
  /\ r.next = 0 => ~(r.taken < MaxMsg)
  /\ r.next # 0 =>
       /\ r.taken = r.next
       /\ r.next = 1 + IF r.last = 0 THEN Total(r.out, c) ELSE r.last
InMemory(c, r) ==
  /\ r.slots[c] \in Nat /\ r.next \in Nat /\ r.last \in Nat /\ r.taken \in Nat
  /\ r.read \in BOOLEAN /\ r.open \in BOOLEAN /\ r.accuse \in BOOLEAN
  /\ ~r.open => Unopened(c, r)
  /\ r.open /\ ~r.read => Opening(c, r)
  /\ r.open /\ r.read /\ r.slots[c] > 0 /\ ~r.accuse => Numbered(c, r)
Remembers(c, r) ==
  r.st \in {"SHUFFLING", "WAIT_FOR_CLEARTEXT"} =>
    InMemory(c, r) /\ (r.st = "SHUFFLING" => ~r.open)

LEMMA SlotIs ==
  ASSUME NEW c, NEW p, NEW next, NEW msg, NEW accuse, NEW x, x = Slot(c, p, next, msg, accuse)
  PROVE  /\ x.is = "slot" /\ x.c = c /\ x.p = p /\ x.next = next /\ x.msg = msg
         /\ x.accuse = accuse
BY DEF Slot

LEMMA OpenIs ==
  ASSUME NEW c, NEW p, NEW x, x = Open(c, p)
  PROVE  x.is = "open" /\ x.c = c /\ x.p = p
BY DEF Open

\* The next cleartext t, in which only what it wrote stands for c, and what c writes next.
LEMMA MemoryPasses ==
  ASSUME NEW c \in Client, NEW r, IsRound(r), InMemory(c, r), NEW t,
         \A x \in Data(t.bits) : x.c = c => x \in OwnBits(c, r),
         NEW o, Resends(c, r, t, o), NEW q, Recalls(o, q),
         q.slots = SlotsAfter(r.slots, t), q.out = OutAfter(r.out, r.slots, t)
  PROVE  InMemory(c, q)
<1> DEFINE T == Total(r.out, c) U == Total(q.out, c)
<1>1. T \in Nat
  BY BatchesFinite DEF IsRound
<1>2. U = IF GivenNow(r.slots, t, c) THEN T + 1 ELSE T
  BY BatchesAfter DEF IsRound
<1>3. q.slots[c] = NextSlot([slots |-> r.slots, text |-> t], c)
  BY DEF SlotsAfter
<1>4. \A x \in Written(t, c) : x \in OwnBits(c, r)
  BY DEF Written, Data
<1>5. \A x \in t.bits : x.is = "open" /\ x.c = c => x \in OwnBits(c, r)
  BY DEF Data
<1>6. r.slots[c] = 0 =>
        /\ ~GivenNow(r.slots, t, c) /\ ~IsLost(c, r, t) /\ ~IsBad(c, r, t)
        /\ q.slots[c] = 0 \/ (q.slots[c] = 1 /\ \E x \in OwnBits(c, r) : x.is = "open")
  BY <1>3, <1>5 DEF GivenNow, IsLost, IsBad, NextSlot, SlotHeaderLength
<1>7. GetData(o) = 0 \/ GetData(o) = o.taken + 1
  BY DEF GetData
<1>8. SameMessages(r, o) /\ o.taken \in Nat /\ o.next \in Nat /\ o.last \in Nat
  BY DEF Resends, InMemory, SameMessages
<1>9. GetData(o) \in Nat
  BY <1>7, <1>8
<1> HIDE DEF T, U
<1>10. CASE ~r.open
  <2>1. Unopened(c, r) /\ r.slots[c] = 0
    BY <1>10 DEF InMemory, Unopened
  <2>2. OwnBits(c, r) = {}
    BY <1>10 DEF OwnBits
  <2>3. /\ ~o.open /\ ~o.read /\ ~o.accuse /\ o.next = 0 /\ o.last = 0 /\ o.taken = 0
        /\ o.open \in BOOLEAN /\ o.read \in BOOLEAN /\ o.accuse \in BOOLEAN
    BY <1>6, <1>10, <2>1 DEF Resends, SameMessages, InMemory, Unopened
  <2>4. q.slots[c] = 0 /\ U = 0
    BY <1>2, <1>6, <2>1, <2>2 DEF Unopened, T
  <2>5. CASE CheckData(o)
    <3>1. GetData(o) = 1
      BY <1>7, <2>3, <2>5 DEF CheckData
    <3>2. /\ q.open = TRUE /\ q.read = FALSE /\ q.last = 0 /\ q.next = 1 /\ q.taken = 1
          /\ q.accuse = o.accuse
      BY <2>3, <2>5, <3>1 DEF Recalls
    <3>3. Opening(c, q)
      BY <2>3, <2>4, <3>2 DEF Opening, U
    <3>4. /\ q.open \in BOOLEAN /\ q.read \in BOOLEAN /\ q.accuse \in BOOLEAN
          /\ q.next \in Nat /\ q.last \in Nat /\ q.taken \in Nat /\ q.slots[c] \in Nat
      <4>1. q.open \in BOOLEAN /\ q.read \in BOOLEAN /\ q.accuse \in BOOLEAN
        BY <2>3, <2>4, <3>2, Zenon
      <4>2. q.next \in Nat /\ q.last \in Nat /\ q.taken \in Nat /\ q.slots[c] \in Nat
        BY <2>3, <2>4, <3>2, SMT
      <4> QED
        BY <4>1, <4>2
    <3>5. q.open /\ ~q.read
      BY <3>2
    <3> QED
      BY <3>3, <3>4, <3>5, Zenon DEF InMemory
  <2>6. CASE ~CheckData(o)
    <3>1. /\ q.open = o.open /\ q.read = o.read /\ q.last = 0 /\ q.next = 0 /\ q.taken = 0
          /\ q.accuse = o.accuse
      BY <2>3, <2>6 DEF Recalls
    <3>2. Unopened(c, q)
      BY <2>3, <2>4, <3>1 DEF Unopened, U
    <3> QED
      BY <2>3, <2>4, <3>1, <3>2 DEF InMemory
  <2> QED
    BY <2>5, <2>6
<1>11. CASE r.open /\ ~r.read
  <2>1. Opening(c, r) /\ r.slots[c] = 0
    BY <1>11 DEF InMemory, Opening
  <2>2. /\ o.open /\ ~o.read /\ ~o.accuse /\ o.next = 1 /\ o.last = 0 /\ o.taken = 1
        /\ o.open = r.open /\ o.accuse = r.accuse
    BY <1>6, <1>11, <2>1 DEF Resends, SameMessages, Opening
  <2>3. /\ q.open /\ q.read = TRUE /\ q.last = 0 /\ q.next = 1 /\ q.taken = 1
        /\ q.accuse = r.accuse /\ q.open = r.open
    BY <2>2 DEF Recalls, SameMessages
  <2>4. q.slots[c] \in Nat /\ U = 0
    BY <1>2, <1>6, <2>1 DEF Opening, T
  <2>5. Numbered(c, q)
    BY <2>3, <2>4 DEF Numbered, U
  <2>6. /\ q.open \in BOOLEAN /\ q.read \in BOOLEAN /\ q.accuse \in BOOLEAN
        /\ q.next \in Nat /\ q.last \in Nat /\ q.taken \in Nat
    <3>1. r.open \in BOOLEAN /\ r.accuse \in BOOLEAN
      BY DEF InMemory
    <3>2. q.open \in BOOLEAN /\ q.read \in BOOLEAN /\ q.accuse \in BOOLEAN
      BY <2>3, <3>1, Zenon
    <3>3. q.next \in Nat /\ q.last \in Nat /\ q.taken \in Nat
      BY <2>3, SMT
    <3> QED
      BY <3>2, <3>3
  <2>7. q.open /\ q.read
    BY <2>3
  <2> QED
    BY <2>4, <2>5, <2>6, <2>7, Zenon DEF InMemory
<1>12. CASE r.open /\ r.read /\ r.slots[c] = 0
  <2>1. \A x \in OwnBits(c, r) : x.is = "slot"
    BY <1>12, SlotIs DEF OwnBits
  <2>2. q.slots[c] = 0
    BY <1>6, <1>12, <2>1
  <2>3. o.open /\ o.read /\ o.open = r.open /\ o.read = r.read /\ o.accuse = r.accuse
    BY <1>6, <1>12 DEF Resends
  <2>4. /\ q.open = r.open /\ q.read = r.read /\ q.accuse = r.accuse
        /\ q.last = o.next /\ q.next = GetData(o)
        /\ q.taken = IF GetData(o) = 0 THEN o.taken ELSE GetData(o)
    BY <2>3 DEF Recalls
  <2>5. q.last \in Nat /\ q.next \in Nat /\ q.taken \in Nat
    BY <1>8, <1>9, <2>4
  <2> QED
    BY <1>12, <2>2, <2>4, <2>5 DEF InMemory
<1>13. CASE r.open /\ r.read /\ r.slots[c] > 0
  <2> DEFINE x == Slot(c, r.phase, SlotHeaderLength + IF r.accuse THEN 0 ELSE r.next,
                       r.last, r.accuse)
  <2>1. \A w \in Written(t, c) : w = x
    BY <1>4, <1>13 DEF OwnBits
  <2>2. /\ x.next = SlotHeaderLength + (IF r.accuse THEN 0 ELSE r.next)
        /\ x.msg = r.last /\ x.accuse = r.accuse
    BY SlotIs
  <2> HIDE DEF x
  <2>3. r.slots[c] # 0
    BY <1>13 DEF InMemory
  <2>4. CASE Garbled(t, c) \/ Lost(t, c)
    <3>1. q.slots[c] = r.slots[c] /\ U = T
      BY <1>2, <1>3, <1>13, <2>3, <2>4 DEF NextSlot, GivenNow, Lost
    <3>2. CASE IsLost(c, r, t) \/ IsBad(c, r, t)
      <4>1. /\ o.read = FALSE /\ o.open = TRUE /\ o.accuse \in BOOLEAN
            /\ ~o.accuse => ~r.accuse
        BY <3>2 DEF Resends, InMemory, Provable, IsBad
      <4>2. /\ q.read = TRUE /\ q.open = TRUE /\ q.accuse = o.accuse
            /\ q.last = r.last /\ q.next = r.next /\ q.taken = r.taken
        BY <1>8, <4>1 DEF Recalls, SameMessages
      <4>3. ~q.accuse => Numbered(c, q)
        BY <1>13, <3>1, <4>1, <4>2 DEF Numbered, InMemory, U, T
      <4> QED
        BY <1>13, <3>1, <4>1, <4>2, <4>3 DEF InMemory
    <3>3. CASE ~IsLost(c, r, t) /\ ~IsBad(c, r, t)
      <4>1. r.accuse
        BY <1>13, <2>4, <3>3 DEF IsLost, IsBad
      <4>2. /\ o.read = r.read /\ o.open = r.open /\ o.accuse = r.accuse
        BY <3>3 DEF Resends
      <4>3. /\ q.open = r.open /\ q.read = r.read /\ q.accuse = r.accuse
            /\ q.last = o.next /\ q.next = GetData(o)
            /\ q.taken = IF GetData(o) = 0 THEN o.taken ELSE GetData(o)
        BY <1>13, <4>2 DEF Recalls
      <4>4. q.last \in Nat /\ q.next \in Nat /\ q.taken \in Nat
        BY <1>8, <1>9, <4>3
      <4> QED
        BY <1>13, <3>1, <4>1, <4>3, <4>4 DEF InMemory
    <3> QED
      BY <3>2, <3>3
  <2>5. CASE ~(Garbled(t, c) \/ Lost(t, c))
    <3>1. x \in Written(t, c) /\ (CHOOSE w \in Written(t, c) : TRUE) = x
      BY <2>1, <2>5 DEF Lost
    <3>2. q.slots[c] = x.next
      BY <1>3, <1>13, <2>3, <2>5, <3>1 DEF NextSlot
    <3>3. q.slots[c] \in Nat /\ q.slots[c] > 0
      BY <2>2, <3>2 DEF SlotHeaderLength, InMemory
    <3>4. U = IF r.last = 0 THEN T ELSE T + 1
      BY <1>2, <1>13, <2>1, <2>2, <2>5, <3>1 DEF GivenNow
    <3>5. o.read = r.read /\ o.open = r.open /\ o.accuse = r.accuse
      BY <2>5 DEF Resends, IsLost, IsBad
    <3>6. /\ q.open = r.open /\ q.read = r.read /\ q.accuse = r.accuse
          /\ q.last = r.next /\ q.next = GetData(o)
          /\ q.taken = IF GetData(o) = 0 THEN r.taken ELSE GetData(o)
      BY <1>8, <1>13, <3>5 DEF Recalls, SameMessages
    <3>7. q.last \in Nat /\ q.next \in Nat /\ q.taken \in Nat
      BY <1>8, <1>9, <3>6 DEF SameMessages
    <3>8. ASSUME ~r.accuse PROVE Numbered(c, q)
      <4>1. Numbered(c, r) /\ r.last \in Nat /\ r.next \in Nat /\ r.taken \in Nat
        BY <1>13, <3>8 DEF InMemory
      <4>2. GetData(o) = IF r.taken < MaxMsg THEN r.taken + 1 ELSE 0
        BY <1>8 DEF GetData, SameMessages
      <4>3. q.last = 0 \/ q.last = U + 1
        BY <1>1, <3>4, <3>6, <4>1 DEF Numbered, T
      <4>4. ASSUME q.next = 0 PROVE ~(q.taken < MaxMsg)
        <5>1. ~(r.taken < MaxMsg)
          BY <3>6, <4>1, <4>2, <4>4
        <5> QED
          BY <3>6, <4>4, <5>1
      <4>5. ASSUME q.next # 0
            PROVE  q.taken = q.next /\ q.next = 1 + IF q.last = 0 THEN U ELSE q.last
        <5>1. r.taken < MaxMsg /\ q.next = r.taken + 1 /\ q.taken = q.next
          BY <3>6, <4>2, <4>5
        <5>2. r.next # 0 /\ r.taken = r.next
          BY <4>1, <5>1 DEF Numbered
        <5> QED
          BY <3>6, <4>1, <5>1, <5>2
      <4> QED
        BY <4>3, <4>4, <4>5 DEF Numbered, U
    <3> QED
      BY <1>13, <3>3, <3>6, <3>7, <3>8 DEF InMemory
  <2> QED
    BY <2>4, <2>5
<1> QED
  BY <1>10, <1>11, <1>12, <1>13 DEF InMemory

\* Whatever a client writes has its pads.
LEMMA WritePads ==
  ASSUME NEW c, NEW r, NEW t, t = GenerateCiphertext(c, r).text
  PROVE  t = Text(t.len, t.bits) /\ PadsOf(t.bits) = PhasePads({c}, r.phase)
<1>1. Pads(c, r) = PhasePads({c}, r.phase)
  BY DEF Pads, PhasePads
<1>2. PadsOf(Pads(c, r)) = PhasePads({c}, r.phase)
  BY <1>1, PadIs DEF PadsOf, PhasePads
<1>3. ASSUME NEW x, x.is # "pad" PROVE PadsOf(Xor(Pads(c, r), {x})) = PadsOf(Pads(c, r))
  BY <1>3 DEF PadsOf, Xor, SymDiff
<1>4. Open(c, r.phase).is # "pad" /\ \A a, b, d, e, f : Slot(a, b, d, e, f).is # "pad"
  BY DEF Open, Slot
<1>5. \E a, b, d, e, f : GenerateSlotMessage(c, r).bits = {Slot(a, b, d, e, f)}
  BY DEF GenerateSlotMessage
<1>6. \E len, bits :
        /\ t = Text(len, bits)
        /\ \/ bits = Xor(Pads(c, r), GenerateSlotMessage(c, r).bits)
           \/ bits = Xor(Pads(c, r), {Open(c, r.phase)})
           \/ bits = Pads(c, r)
  BY DEF GenerateCiphertext
<1>7. \A len, bits : Text(len, bits).len = len /\ Text(len, bits).bits = bits
  BY DEF Text
<1> QED
  BY <1>2, <1>3, <1>4, <1>5, <1>6, <1>7

LEMMA SubmitStep ==
  ASSUME NEW c, c \notin Server, NEW r, IsRound(r), r.st = "WAIT_FOR_CLEARTEXT",
         NEW z, z = SubmitClientCiphertext(c, r), NEW r0
  PROVE  /\ Writes(r, z.r) /\ Recalls(r, z.r) /\ Says(c, r0, z.r, z.out)
<1> DEFINE g == GenerateCiphertext(c, r)
           x == Msg("CLIENT_CIPHERTEXT", c, r, g.text)
<1>1. z.r = g.r /\ z.out = VerifiableSend(Home[c], x)
  BY DEF SubmitClientCiphertext, Step
<1>2. Writes(r, z.r) /\ Recalls(r, z.r)
  BY <1>1, GenerateStep
<1>3. Utters(c, r0, z.r, x)
  <2> DEFINE t == g.text
  <2>1. t = Text(t.len, t.bits) /\ PadsOf(t.bits) = PhasePads({c}, r.phase)
    BY WritePads
  <2>4. Data(t.bits) \subseteq OwnBits(c, z.r)
    BY <1>1, WriteData
  <2>2. x = Msg("CLIENT_CIPHERTEXT", c, r, t)
    OBVIOUS
  <2> HIDE DEF t, x, g
  <2>3. Masked(x)
    BY <2>1, <2>2 DEF Masked, Msg
  <2> QED
    BY <1>2, <2>2, <2>3, <2>4 DEF Utters, IsPacket, Msg, IsRound, Writes
<1>4. Sends(z.out, {x})
  BY <1>1, SendsSend
<1> HIDE DEF x
<1> QED
  BY <1>2, <1>3, <1>4, SaysThat

\* A step of client c when msg is handled: if the cleartext has nothing in the name of
\* c but what c wrote, c remembers what it must; and in a phase it writes once.
Honest(c, r, msg) ==
  /\ msg.type = "SERVER_CLEARTEXT" /\ msg.phase = r.phase
  /\ r.st = "WAIT_FOR_CLEARTEXT"
  => \A x \in Data(msg.body.text.bits) : x.c = c => x \in OwnBits(c, r)
Owned(c, r, msg, q) ==
  /\ Remembers(c, r) /\ Honest(c, r, msg) => Remembers(c, q)
  /\ r.st = "WAIT_FOR_CLEARTEXT" /\ q.st = r.st /\ q.phase = r.phase =>
       OwnBits(c, q) = OwnBits(c, r)

LEMMA OwnedSame ==
  ASSUME NEW c, NEW r, NEW msg, NEW q, SameOwn(r, q), q.st = r.st, q.phase = r.phase
  PROVE  Owned(c, r, msg, q)
<1>1. InMemory(c, r) => InMemory(c, q)
  BY DEF SameOwn, SameMessages, InMemory, Unopened, Opening, Numbered
<1>2. OwnBits(c, q) = OwnBits(c, r)
  BY DEF SameOwn, SameMessages, OwnBits
<1>3. q.open = r.open
  BY DEF SameOwn
<1> QED
  BY <1>1, <1>2, <1>3 DEF Owned, Remembers

LEMMA OwnedEnded ==
  ASSUME NEW c, NEW r, NEW msg, NEW q, q.st \in {"STARTING_BLAME_SHUFFLE", "FINISHED"}
  PROVE  Owned(c, r, msg, q)
BY DEF Owned, Remembers

\* The first message of a client, or none.
LEMMA FirstMemory ==
  ASSUME NEW c, NEW r, InMemory(c, r), ~r.open, NEW d, SameOwn(r, d),
         NEW q, Recalls(d, q), q.slots = r.slots, q.out = r.out
  PROVE  InMemory(c, q)
<1>1. Unopened(c, r) /\ r.accuse \in BOOLEAN /\ r.read \in BOOLEAN /\ r.open \in BOOLEAN
  BY DEF InMemory
<1>2. /\ ~d.open /\ ~d.read /\ ~d.accuse /\ d.next = 0 /\ d.last = 0 /\ d.taken = 0
      /\ d.open \in BOOLEAN /\ d.read \in BOOLEAN /\ d.accuse \in BOOLEAN
  BY <1>1 DEF SameOwn, SameMessages, Unopened
<1>3. q.slots[c] = 0 /\ Total(q.out, c) = 0
  BY <1>1 DEF Unopened
<1>4. CASE CheckData(d)
  <2>1. GetData(d) = 1
    BY <1>2, <1>4 DEF CheckData, GetData
  <2>2. /\ q.open = TRUE /\ q.read = FALSE /\ q.last = 0 /\ q.next = 1 /\ q.taken = 1
        /\ q.accuse = d.accuse
    BY <1>2, <1>4, <2>1 DEF Recalls
  <2>3. Opening(c, q)
    BY <1>2, <1>3, <2>2 DEF Opening
  <2>4. /\ q.open \in BOOLEAN /\ q.read \in BOOLEAN /\ q.accuse \in BOOLEAN
        /\ q.next \in Nat /\ q.last \in Nat /\ q.taken \in Nat /\ q.slots[c] \in Nat
    <3>1. q.open \in BOOLEAN /\ q.read \in BOOLEAN /\ q.accuse \in BOOLEAN
      BY <1>2, <1>3, <2>2, Zenon
    <3>2. q.next \in Nat /\ q.last \in Nat /\ q.taken \in Nat /\ q.slots[c] \in Nat
      BY <1>2, <1>3, <2>2, SMT
    <3> QED
      BY <3>1, <3>2
  <2>5. q.open /\ ~q.read
    BY <2>2
  <2> QED
    BY <2>3, <2>4, <2>5, Zenon DEF InMemory
<1>5. CASE ~CheckData(d)
  <2>1. /\ q.open = d.open /\ q.read = d.read /\ q.last = 0 /\ q.next = 0 /\ q.taken = 0
        /\ q.accuse = d.accuse
    BY <1>2, <1>5 DEF Recalls
  <2>2. Unopened(c, q)
    BY <1>2, <1>3, <2>1 DEF Unopened
  <2> QED
    BY <1>2, <1>3, <2>1, <2>2 DEF InMemory
<1> QED
  BY <1>4, <1>5

LEMMA ClientStart ==
  ASSUME NEW c, c \notin Server, NEW r, IsRound(r), r.st = "SHUFFLING", NEW msg,
         NEW z, z = PrepareForBulk(c, r)
  PROVE  Good(c, r, z, {}) /\ ClientMove(r, msg, z.r) /\ Owned(c, r, msg, z.r)
<1> DEFINE d == Complete(r, "WAIT_FOR_CLEARTEXT")
<1>1. z = SubmitClientCiphertext(c, d)
  BY DEF PrepareForBulk
<1>2. /\ IsRound(d) /\ Keeps(r, d) /\ d.st = "WAIT_FOR_CLEARTEXT"
      /\ Mailbox(d) \subseteq Mailbox(r) /\ SameOwn(r, d)
  BY CompleteStep
<1> HIDE DEF d
<1>3. Writes(d, z.r) /\ Recalls(d, z.r) /\ Says(c, r, z.r, z.out)
  BY <1>1, <1>2, SubmitStep
<1>4. Owned(c, r, msg, z.r)
  <2>1. z.r.st = "WAIT_FOR_CLEARTEXT" /\ z.r.slots = r.slots /\ z.r.out = r.out
    BY <1>2, <1>3 DEF Writes, Keeps
  <2>2. ASSUME Remembers(c, r) PROVE InMemory(c, z.r)
    <3>1. InMemory(c, r) /\ ~r.open
      BY <2>2 DEF Remembers
    <3> QED
      BY <1>2, <1>3, <2>1, <3>1, FirstMemory
  <2> QED
    BY <2>1, <2>2 DEF Owned, Remembers
<1> QED
  BY <1>2, <1>3, <1>4 DEF Good, Writes, ClientMove, ClientOpens, Keeps

LEMMA CleartextStep ==
  ASSUME NEW c \in Client, c \notin Server, NEW r, IsRound(r), NEW msg,
         r.st = "WAIT_FOR_CLEARTEXT", msg.type = "SERVER_CLEARTEXT",
         msg.phase = r.phase,
         NEW z, z = HandleServerCleartext(c, r, msg.from, msg.body)
  PROVE  Good(c, r, z, {}) /\ ClientMove(r, msg, z.r) /\ Owned(c, r, msg, z.r)
<1> DEFINE b == [r EXCEPT !.text = msg.body.text]
           q == ProcessCleartext(c, b)
<1>1. /\ IsRound(b) /\ Mailbox(b) = Mailbox(r) /\ b.slots = r.slots /\ b.out = r.out
      /\ b.text = msg.body.text /\ b.phase = r.phase /\ b.st = r.st
      /\ SameMessages(r, b) /\ b.read = r.read /\ b.open = r.open /\ b.accuse = r.accuse
  BY DEF IsRound, Fields, Mailbox, SameMessages
<1>2. \/ z = Step(r, Silent)
      \/ z = Step(Stopped(r), Silent)
      \/ z = StartBlameShuffle(c, q)
      \/ z = SubmitClientCiphertext(c, Complete(NextPhase(q), "WAIT_FOR_CLEARTEXT"))
  BY DEF HandleServerCleartext
<1> HIDE DEF b
<1>3. /\ IsRound(q) /\ q.phase = r.phase
      /\ q.slots = SlotsAfter(r.slots, msg.body.text)
      /\ q.out = OutAfter(r.out, r.slots, msg.body.text)
      /\ Mailbox(q) = Mailbox(r)
  <2> HIDE DEF q
  <2>1. /\ IsRound(q) /\ q.slots = SlotsAfter(b.slots, b.text)
        /\ q.out = OutAfter(b.out, b.slots, b.text)
        /\ q.phase = b.phase /\ q.early = b.early /\ q.todo = b.todo
    BY <1>1, ProcessStep DEF q
  <2> QED
    BY <1>1, <2>1 DEF Mailbox
<1>8. Resends(c, r, msg.body.text, q)
  <2> DEFINE t == msg.body.text
  <2>1. Resends(c, b, t, q)
    BY <1>1, ResendStep
  <2> HIDE DEF q, t
  <2> QED
    BY <1>1, <2>1 DEF Resends, SameMessages, IsLost, IsBad, t
<1> HIDE DEF q
<1>4. CASE z = Step(r, Silent)
  <2>1. z.r = r /\ z.out = Silent
    BY <1>4 DEF Step
  <2>2. Owned(c, r, msg, z.r)
    BY <2>1, OwnedSame DEF SameOwn, SameMessages
  <2> QED
    BY <2>1, <2>2, SaysNone DEF Good, ClientMove, Quiet, Keeps
<1>5. CASE z = Step(Stopped(r), Silent)
  <2> DEFINE e == Stopped(r)
  <2>1. IsRound(e) /\ Mailbox(e) \subseteq Mailbox(r) /\ Stops(r, e)
    BY StoppedStep
  <2> HIDE DEF e
  <2>2. z.r = e /\ z.out = Silent
    BY <1>5 DEF Step, e
  <2>3. Owned(c, r, msg, z.r)
    BY <2>1, <2>2, OwnedEnded DEF Stops
  <2> QED
    BY <2>1, <2>2, <2>3, SaysNone DEF Good, ClientMove
<1>6. CASE z = StartBlameShuffle(c, q)
  <2>1. /\ IsRound(z.r) /\ Mailbox(z.r) \subseteq Mailbox(q) /\ Keeps(q, z.r)
        /\ z.r.st = "STARTING_BLAME_SHUFFLE"
        /\ \/ Sends(z.out, {})
           \/ Sends(z.out, {BlamePacket(c)})
    BY <1>3, <1>6, StartBlameStep
  <2>2. Says(c, r, z.r, z.out)
    BY <2>1, SaysThat, SaysBlame
  <2>3. Owned(c, r, msg, z.r)
    BY <2>1, OwnedEnded
  <2> QED
    BY <1>3, <2>1, <2>2, <2>3 DEF Good, ClientMove, ClientPasses, Keeps
<1>7. CASE z = SubmitClientCiphertext(c, Complete(NextPhase(q), "WAIT_FOR_CLEARTEXT"))
  <2> DEFINE w == NextPhase(q) d == Complete(w, "WAIT_FOR_CLEARTEXT")
  <2>1. /\ IsRound(w) /\ Mailbox(w) = Mailbox(q) /\ w.phase = q.phase + 1
        /\ w.slots = q.slots /\ w.out = q.out /\ SameOwn(q, w)
    BY <1>3, NextPhaseStep
  <2> HIDE DEF w
  <2>2. /\ IsRound(d) /\ Keeps(w, d) /\ d.st = "WAIT_FOR_CLEARTEXT"
        /\ Mailbox(d) \subseteq Mailbox(w) /\ SameOwn(w, d)
    BY <2>1, CompleteStep
  <2>3. z = SubmitClientCiphertext(c, d)
    BY <1>7 DEF w
  <2> HIDE DEF d
  <2>4. Writes(d, z.r) /\ Recalls(d, z.r) /\ Says(c, r, z.r, z.out)
    BY <2>2, <2>3, SubmitStep
  <2>5. /\ z.r.st = "WAIT_FOR_CLEARTEXT" /\ z.r.phase = r.phase + 1
        /\ z.r.slots = SlotsAfter(r.slots, msg.body.text)
        /\ z.r.out = OutAfter(r.out, r.slots, msg.body.text)
    BY <1>3, <2>1, <2>2, <2>4 DEF Writes, Keeps
  <2>6. Resends(c, r, msg.body.text, d)
    BY <1>8, <2>1, <2>2 DEF Resends, SameOwn, SameMessages
  <2>7. ASSUME Remembers(c, r), Honest(c, r, msg) PROVE InMemory(c, z.r)
    <3> DEFINE t == msg.body.text
    <3>1. InMemory(c, r) /\ \A x \in Data(t.bits) : x.c = c => x \in OwnBits(c, r)
      BY <2>7 DEF Remembers, Honest
    <3>2. /\ z.r.slots = SlotsAfter(r.slots, t) /\ z.r.out = OutAfter(r.out, r.slots, t)
          /\ Resends(c, r, t, d)
      BY <2>5, <2>6
    <3> HIDE DEF t
    <3> QED
      BY <2>4, <3>1, <3>2, MemoryPasses
  <2>8. z.r.phase # r.phase
    BY <2>5 DEF IsRound
  <2>9. Owned(c, r, msg, z.r)
    BY <2>5, <2>7, <2>8 DEF Owned, Remembers
  <2> QED
    BY <1>3, <2>1, <2>2, <2>4, <2>9 DEF Good, Writes, ClientMove, ClientPasses, Keeps
<1> QED
  BY <1>2, <1>4, <1>5, <1>6, <1>7

ClientStates ==
  {"SHUFFLING", "WAIT_FOR_CLEARTEXT", "STARTING_BLAME_SHUFFLE", "FINISHED"}

LEMMA ClientData ==
  ASSUME NEW c \in Client, c \notin Server, NEW r, IsRound(r), r.st \in ClientStates,
         NEW msg, Processable(msg), NEW z, z = ProcessData(c, r, msg)
  PROVE  Good(c, r, z, {msg}) /\ ClientMove(r, msg, z.r) /\ Owned(c, r, msg, z.r)
<1>1. CASE Stale(r, msg)
  <2>1. z = Step(r, Silent)
    BY <1>1 DEF ProcessData
  <2>2. z.r = r /\ z.out = Silent
    BY <2>1 DEF Step
  <2>3. Owned(c, r, msg, z.r)
    BY <2>2, OwnedSame DEF SameOwn, SameMessages
  <2> QED
    BY <2>2, <2>3, SaysNone DEF Good, ClientMove, Quiet, Keeps
<1>2. CASE ~Stale(r, msg) /\ Early(r, msg)
  <2>1. z = Step([r EXCEPT !.early = Append(@, msg)], Silent)
    BY <1>2 DEF ProcessData
  <2>2. Good(c, r, z, {msg}) /\ Quiet(r, z.r) /\ SameOwn(r, z.r)
    BY <2>1, StoreStep
  <2>3. Owned(c, r, msg, z.r)
    BY <2>2, OwnedSame DEF Quiet, Keeps
  <2> QED
    BY <2>2, <2>3 DEF ClientMove
<1>3. CASE ~Stale(r, msg) /\ ~Early(r, msg)
  <2>1. z = Handle(c, r, msg.from, msg)
    BY <1>3 DEF ProcessData
  <2>2. msg.phase = r.phase /\ r.st = Consumes[msg.type]
    BY <1>3 DEF Stale, Early, IsRound, Processable
  <2>3. msg.type = "SERVER_CLEARTEXT" /\ r.st = "WAIT_FOR_CLEARTEXT"
    BY <2>2 DEF Consumes, Processable, ClientStates
  <2>4. z = HandleServerCleartext(c, r, msg.from, msg.body)
    BY <2>1, <2>3 DEF Handle
  <2>5. Good(c, r, z, {}) => Good(c, r, z, {msg})
    BY DEF Good
  <2> QED
    BY <2>2, <2>3, <2>4, <2>5, CleartextStep
<1> QED
  BY <1>1, <1>2, <1>3

-----------------------------------------------------------------------------
(* Lockstep.  How far a server has come at least, and what follows from it  *)
(* for the others.                                                          *)

Past4 == {"WAIT_FOR_SERVER_VALIDATION", "STARTING_BLAME_SHUFFLE", "FINISHED"}
Past3 == {"WAIT_FOR_SERVER_CIPHERTEXT"} \cup Past4
Past2 == {"WAIT_FOR_SERVER_COMMITS"} \cup Past3
Past1 == {"WAIT_FOR_CLIENT_LISTS"} \cup Past2
Listed ==
  {"WAIT_FOR_SERVER_COMMITS", "WAIT_FOR_SERVER_CIPHERTEXT", "WAIT_FOR_SERVER_VALIDATION"}

Exchange == {"WAIT_FOR_CLIENT_LISTS"} \cup Listed

Reached(r, p, S) == r.phase > p \/ (r.phase = p /\ r.st \in S)
All(nd, p, S) == \A u \in Server : Reached(nd[u], p, S)
Same(nd, p) == \A u \in Server : nd[u].phase = p
Lists(nd, U) == UNION {DOMAIN nd[u].got : u \in U}
Mines(nd) == [u \in Server |-> nd[u].mine]

\* What the state of server s says of the others.  Whom it has heard have sent
\* what it has of them, as long as they are in its phase.
Lockstep(nd, s) ==
  LET r == nd[s]
      p == nd[s].phase
  IN /\ r.st # "WAIT_FOR_CLEARTEXT"
     /\ r.st \in Exchange => r.heard \subseteq Server
     /\ p > 0 => All(nd, p - 1, Past4)
     /\ r.st \in {"SHUFFLING", "WAIT_FOR_CLIENT_CIPHERTEXT"} => r.online = DOMAIN r.got
     /\ r.st = "WAIT_FOR_CLIENT_LISTS" =>
          /\ \A u \in r.heard : Reached(nd[u], p, Past1)
          /\ (\A u \in r.heard : nd[u].phase = p) =>
               r.online = DOMAIN r.got \cup Lists(nd, r.heard)
     /\ r.st \in Listed =>
          /\ All(nd, p, Past1)
          /\ Same(nd, p) => r.online = Lists(nd, Server)
     /\ r.st = "WAIT_FOR_SERVER_COMMITS" => \A u \in r.heard : Reached(nd[u], p, Past2)
     /\ r.st = "WAIT_FOR_SERVER_CIPHERTEXT" =>
          /\ All(nd, p, Past2)
          /\ \A u \in r.heard :
               Reached(nd[u], p, Past3) /\ (nd[u].phase = p => r.ciphers[u] = nd[u].mine)
     /\ r.st = "WAIT_FOR_SERVER_VALIDATION" =>
          /\ All(nd, p, Past3)
          /\ Same(nd, p) => r.text = Xored(r.slots, Mines(nd))
          /\ \A u \in r.heard : Reached(nd[u], p, Past4)

\* What a message under way says of its sender.
ServerTypes ==
  {"SERVER_CLIENT_LIST", "SERVER_COMMIT", "SERVER_CIPHERTEXT", "SERVER_VALIDATION"}
Said(nd, x) ==
  LET r == nd[x.from]
      p == x.phase
  IN /\ x.type \in ServerTypes => x.from \in Server
     /\ x.type = "SERVER_CLIENT_LIST" =>
          Reached(r, p, Past1) /\ (r.phase = p => x.body = DOMAIN r.got)
     /\ x.type = "SERVER_COMMIT" => Reached(r, p, Past2)
     /\ x.type = "SERVER_CIPHERTEXT" =>
          /\ Reached(r, p, Past3) /\ (r.phase = p => x.body = r.mine)
          /\ All(nd, p, Past2)
     /\ x.type = "SERVER_VALIDATION" => Reached(r, p, Past4)

\* A server that is past the lists has the same list as the others that are.
SameLists(nd) ==
  \A s, t \in Server :
    nd[s].st \in Listed /\ nd[t].st \in Listed /\ nd[s].phase = nd[t].phase =>
      nd[s].online = nd[t].online

\* What a server has said stays true: it goes forward, and keeps what it has said.
Grows(r, q) ==
  /\ q.phase >= r.phase
  /\ \A p \in Nat : \A S \in {Past1, Past2, Past3, Past4} :
       Reached(r, p, S) => Reached(q, p, S)
  /\ q.phase = r.phase /\ r.st \in Past1 => DOMAIN q.got = DOMAIN r.got
  /\ q.phase = r.phase /\ r.st \in Past2 => q.mine = r.mine

LEMMA MoveGrows ==
  ASSUME NEW r, IsRound(r), NEW q, IsRound(q), NEW msg, ServerMove(r, msg, q)
  PROVE  Grows(r, q)
<1>1. r.phase \in Nat /\ q.phase \in Nat
  BY DEF IsRound
<1> USE DEF Past1, Past2, Past3, Past4, Grows, Reached, Keeps
<1>2. CASE Quiet(r, q) \/ Stops(r, q)
  BY <1>1, <1>2 DEF Quiet, Stops
<1>3. CASE HearsClient(r, q) \/ ClosesWindow(r, q) \/ Opens(r, q)
  BY <1>1, <1>3 DEF HearsClient, ClosesWindow, Collects, Opens
<1>4. CASE HearsList(r, msg, q) \/ HearsCommit(r, msg, q) \/ HearsCipher(r, msg, q)
           \/ HearsSignature(r, msg, q)
  BY <1>1, <1>4 DEF HearsList, HearsCommit, HearsCipher, HearsSignature, Hears
<1>5. CASE Commits(r, msg, q)
  BY <1>1, <1>5 DEF Commits, HearsAll
<1>6. CASE Reveals(r, msg, q)
  BY <1>1, <1>6 DEF Reveals, HearsAll
<1>7. CASE Signs(r, msg, q)
  BY <1>1, <1>7 DEF Signs, HearsAll
<1>8. CASE NextPhased(r, msg, q)
  BY <1>1, <1>8 DEF NextPhased
<1>9. CASE Blames(r, msg, q)
  BY <1>1, <1>9 DEF Blames, Passes
<1> QED
  BY <1>2, <1>3, <1>4, <1>5, <1>6, <1>7, <1>8, <1>9 DEF ServerMove

Phases(nd) == \A u \in Server : nd[u].phase \in Nat
Forward(nd, ne) ==
  Phases(nd) /\ Phases(ne) /\ \A u \in Server : Grows(nd[u], ne[u])

LEMMA AllForward ==
  ASSUME NEW nd, NEW ne, Forward(nd, ne), NEW p \in Nat,
         NEW S \in {Past1, Past2, Past3, Past4}, All(nd, p, S)
  PROVE  All(ne, p, S)
BY DEF Forward, Grows, All

\* As long as all are in phase p, lists and ciphertexts are what they were.
LEMMA Stay ==
  ASSUME NEW nd, NEW ne, Forward(nd, ne), NEW p \in Nat, NEW u \in Server,
         ne[u].phase = p
  PROVE  /\ Reached(nd[u], p, Past1) => nd[u].phase = p /\ DOMAIN ne[u].got = DOMAIN nd[u].got
         /\ Reached(nd[u], p, Past2) => nd[u].phase = p /\ ne[u].mine = nd[u].mine
         /\ Reached(nd[u], p, Past3) => nd[u].phase = p /\ ne[u].mine = nd[u].mine
BY DEF Forward, Phases, Grows, Reached, Past1, Past2, Past3

LEMMA SaidForward ==
  ASSUME NEW nd, NEW ne, Forward(nd, ne), NEW x, x.phase \in Nat, Said(nd, x)
  PROVE  Said(ne, x)
<1> DEFINE p == x.phase u == x.from
<1>1. CASE x.type = "SERVER_CLIENT_LIST"
  <2>1. u \in Server /\ Reached(nd[u], p, Past1) /\ (nd[u].phase = p => x.body = DOMAIN nd[u].got)
    BY <1>1 DEF Said, ServerTypes
  <2>2. Reached(ne[u], p, Past1)
    BY <2>1 DEF Forward, Grows
  <2> QED
    BY <1>1, <2>1, <2>2, Stay DEF Said
<1>2. CASE x.type = "SERVER_COMMIT"
  BY <1>2 DEF Said, ServerTypes, Forward, Grows
<1>3. CASE x.type = "SERVER_CIPHERTEXT"
  <2>1. /\ u \in Server /\ Reached(nd[u], p, Past3) /\ (nd[u].phase = p => x.body = nd[u].mine)
        /\ All(nd, p, Past2)
    BY <1>3 DEF Said, ServerTypes
  <2>2. Reached(ne[u], p, Past3) /\ All(ne, p, Past2)
    BY <2>1, AllForward DEF Forward, Grows
  <2> QED
    BY <1>3, <2>1, <2>2, Stay DEF Said
<1>4. CASE x.type = "SERVER_VALIDATION"
  BY <1>4 DEF Said, ServerTypes, Forward, Grows
<1> QED
  BY <1>1, <1>2, <1>3, <1>4 DEF Said, ServerTypes

LEMMA ListsStay ==
  ASSUME NEW nd, NEW ne, Forward(nd, ne), NEW p \in Nat, NEW U, U \subseteq Server,
         \A u \in U : Reached(nd[u], p, Past1) /\ ne[u].phase = p
  PROVE  Lists(ne, U) = Lists(nd, U) /\ \A u \in U : nd[u].phase = p
<1>1. \A u \in U : nd[u].phase = p /\ DOMAIN ne[u].got = DOMAIN nd[u].got
  BY Stay
<1> QED
  BY <1>1 DEF Lists

\* The others, and a server whose step changes nothing that matters.
LEMMA LockstepKept ==
  ASSUME NEW nd, NEW ne, Forward(nd, ne), NEW s \in Server, Lockstep(nd, s),
         Quiet(nd[s], ne[s])
  PROVE  Lockstep(ne, s)
<1> DEFINE r == nd[s] q == ne[s] p == nd[s].phase
<1>1. /\ p \in Nat /\ q.phase = p /\ q.st = r.st /\ q.heard = r.heard /\ q.online = r.online
      /\ q.got = r.got /\ q.mine = r.mine /\ q.text = r.text /\ q.slots = r.slots
      /\ q.ciphers = r.ciphers
  BY DEF Quiet, Keeps, Forward, Phases
<1>2. \A u \in Server : Grows(nd[u], ne[u])
  BY DEF Forward
<1>3. p > 0 => All(ne, p - 1, Past4)
  BY <1>1, AllForward DEF Lockstep
<1>4. ASSUME r.st = "WAIT_FOR_CLIENT_LISTS"
      PROVE  /\ \A u \in r.heard : Reached(ne[u], p, Past1)
             /\ (\A u \in r.heard : ne[u].phase = p) =>
                  r.online = DOMAIN r.got \cup Lists(ne, r.heard)
  <2>1. /\ \A u \in r.heard : u \in Server /\ Reached(nd[u], p, Past1)
        /\ (\A u \in r.heard : nd[u].phase = p) =>
                  r.online = DOMAIN r.got \cup Lists(nd, r.heard)
    BY <1>4 DEF Lockstep, Exchange
  <2>2. \A u \in r.heard : Reached(ne[u], p, Past1)
    BY <1>1, <1>2, <2>1 DEF Grows
  <2>3. ASSUME \A u \in r.heard : ne[u].phase = p
        PROVE  Lists(ne, r.heard) = Lists(nd, r.heard) /\ \A u \in r.heard : nd[u].phase = p
    <3>1. r.heard \subseteq Server
      BY <2>1
    <3> HIDE DEF r, q, p
    <3> QED
      BY <1>1, <2>1, <2>3, <3>1, ListsStay
  <2> QED
    BY <2>1, <2>2, <2>3
<1>5. ASSUME r.st \in Listed
      PROVE  All(ne, p, Past1) /\ (Same(ne, p) => r.online = Lists(ne, Server))
  <2>1. All(nd, p, Past1) /\ (Same(nd, p) => r.online = Lists(nd, Server))
    BY <1>5 DEF Lockstep
  <2> QED
    BY <1>1, <2>1, AllForward, ListsStay DEF All, Same
<1>6. ASSUME r.st = "WAIT_FOR_SERVER_COMMITS"
      PROVE  \A u \in r.heard : Reached(ne[u], p, Past2)
  BY <1>1, <1>2, <1>6 DEF Lockstep, Exchange, Listed, Grows
<1>7. ASSUME r.st = "WAIT_FOR_SERVER_CIPHERTEXT"
      PROVE  /\ All(ne, p, Past2)
             /\ \A u \in r.heard :
                  Reached(ne[u], p, Past3) /\ (ne[u].phase = p => r.ciphers[u] = ne[u].mine)
  <2>1. /\ All(nd, p, Past2)
        /\ \A u \in r.heard : /\ u \in Server /\ Reached(nd[u], p, Past3)
                              /\ nd[u].phase = p => r.ciphers[u] = nd[u].mine
    BY <1>7 DEF Lockstep, Exchange, Listed
  <2> QED
    BY <1>1, <1>2, <2>1, AllForward, Stay DEF Grows
<1>8. ASSUME r.st = "WAIT_FOR_SERVER_VALIDATION"
      PROVE  /\ All(ne, p, Past3)
             /\ Same(ne, p) => r.text = Xored(r.slots, Mines(ne))
             /\ \A u \in r.heard : Reached(ne[u], p, Past4)
  <2>1. /\ All(nd, p, Past3) /\ (Same(nd, p) => r.text = Xored(r.slots, Mines(nd)))
        /\ \A u \in r.heard : u \in Server /\ Reached(nd[u], p, Past4)
    BY <1>8 DEF Lockstep, Exchange, Listed
  <2>2. Same(ne, p) => Same(nd, p) /\ Mines(ne) = Mines(nd)
    BY <1>1, <2>1, Stay DEF Same, All, Mines
  <2> QED
    BY <1>1, <1>2, <2>1, <2>2, AllForward DEF Grows
<1> QED
  BY <1>1, <1>3, <1>4, <1>5, <1>6, <1>7, <1>8 DEF Lockstep

\* Nobody is ahead of a server that does not sign yet.
LEMMA NobodyAhead ==
  ASSUME NEW nd, Phases(nd), NEW s \in Server, nd[s].st \notin Past4,
         \A u \in Server : Lockstep(nd, u)
  PROVE  \A u \in Server : nd[u].phase <= nd[s].phase
<1>1. ASSUME NEW u \in Server, nd[u].phase > nd[s].phase PROVE FALSE
  <2>1. nd[u].phase \in Nat /\ nd[s].phase \in Nat /\ nd[u].phase > 0
    BY <1>1 DEF Phases
  <2>2. Reached(nd[s], nd[u].phase - 1, Past4)
    BY <2>1 DEF Lockstep, All
  <2> QED
    BY <1>1, <2>1, <2>2 DEF Reached
<1> QED
  BY <1>1 DEF Phases

LEMMA XoredSame ==
  ASSUME NEW slots, NEW c, NEW d, c = d
  PROVE  Xored(slots, c) = Xored(slots, d)
OBVIOUS

\* What the moving server may rely on.
Heard(nd, ne, n, msg) ==
  /\ Forward(nd, ne) /\ Phases(nd) /\ n \in Server /\ IsRound(nd[n]) /\ IsRound(ne[n])
  /\ \A u \in Server : Lockstep(nd, u)
  /\ Said(nd, msg) /\ msg.phase \in Nat

LEMMA PastPhase ==
  ASSUME NEW nd, NEW ne, NEW n, NEW msg, Heard(nd, ne, n, msg),
         ne[n].phase = nd[n].phase
  PROVE  ne[n].phase > 0 => All(ne, ne[n].phase - 1, Past4)
BY AllForward DEF Heard, Lockstep, Forward, Phases

LEMMA WindowLockstep ==
  ASSUME NEW nd, NEW ne, NEW n, NEW msg, Heard(nd, ne, n, msg),
         \/ HearsClient(nd[n], ne[n]) \/ ClosesWindow(nd[n], ne[n])
         \/ Opens(nd[n], ne[n]) \/ Stops(nd[n], ne[n])
  PROVE  Lockstep(ne, n)
<1>1. ne[n].phase = nd[n].phase
  BY DEF HearsClient, ClosesWindow, Collects, Opens, Stops, Keeps
<1>2. ne[n].phase > 0 => All(ne, ne[n].phase - 1, Past4)
  BY <1>1, PastPhase
<1>3. \/ ne[n].st = "FINISHED"
      \/ ne[n].st = "WAIT_FOR_CLIENT_CIPHERTEXT" /\ ne[n].online = DOMAIN ne[n].got
      \/ InWindow(ne[n])
  <2>1. nd[n].st \in {"SHUFFLING", "WAIT_FOR_CLIENT_CIPHERTEXT"} =>
          nd[n].online = DOMAIN nd[n].got
    BY DEF Heard, Lockstep
  <2> QED
    BY <2>1 DEF HearsClient, ClosesWindow, Collects, Opens, Stops, InWindow
<1>4. Lists(ne, {}) = {}
  BY DEF Lists
<1> QED
  BY <1>2, <1>3, <1>4 DEF Lockstep, InWindow, Listed, Exchange

LEMMA ListLockstep ==
  ASSUME NEW nd, NEW ne, NEW n, NEW msg, Heard(nd, ne, n, msg),
         HearsList(nd[n], msg, ne[n])
  PROVE  Lockstep(ne, n)
<1> DEFINE r == nd[n] q == ne[n] p == r.phase m == msg.from
<1>1. /\ r.st = "WAIT_FOR_CLIENT_LISTS" /\ q.st = r.st /\ msg.phase = p /\ q.phase = p
      /\ q.heard = r.heard \cup {m} /\ q.online = r.online \cup msg.body /\ q.got = r.got
      /\ msg.type = "SERVER_CLIENT_LIST" /\ p \in Nat
  BY DEF HearsList, Hears, Keeps, Heard
<1>2. /\ m \in Server /\ Reached(nd[m], p, Past1)
      /\ nd[m].phase = p => msg.body = DOMAIN nd[m].got
  BY <1>1 DEF Heard, Said, ServerTypes
<1>3. /\ r.heard \subseteq Server /\ \A u \in r.heard : Reached(nd[u], p, Past1)
      /\ (\A u \in r.heard : nd[u].phase = p) => r.online = DOMAIN r.got \cup Lists(nd, r.heard)
  BY <1>1 DEF Heard, Lockstep, Exchange
<1>4. \A u \in q.heard : u \in Server /\ Reached(nd[u], p, Past1) /\ Reached(ne[u], p, Past1)
  BY <1>1, <1>2, <1>3 DEF Heard, Forward, Grows
<1>5. (\A u \in q.heard : ne[u].phase = p) => q.online = DOMAIN q.got \cup Lists(ne, q.heard)
  <2> HAVE \A u \in q.heard : ne[u].phase = p
  <2>1. Lists(ne, q.heard) = Lists(nd, q.heard) /\ \A u \in q.heard : nd[u].phase = p
    <3>1. Forward(nd, ne) /\ p \in Nat /\ q.heard \subseteq Server
      BY <1>1, <1>4 DEF Heard
    <3> HIDE DEF q, p
    <3> QED
      BY <1>4, <3>1, ListsStay
  <2>2. Lists(nd, q.heard) = Lists(nd, r.heard) \cup DOMAIN nd[m].got
    BY <1>1 DEF Lists
  <2> QED
    BY <1>1, <1>2, <1>3, <2>1, <2>2
<1> QED
  BY <1>1, <1>4, <1>5, PastPhase DEF Lockstep, Listed, Exchange

\* The last list: everybody is in this phase, and nobody's list changes again.
LEMMA CommitLockstep ==
  ASSUME NEW nd, NEW ne, NEW n, NEW msg, Heard(nd, ne, n, msg),
         Commits(nd[n], msg, ne[n])
  PROVE  Lockstep(ne, n) /\ Same(nd, nd[n].phase)
<1> DEFINE r == nd[n] q == ne[n] p == r.phase m == msg.from
<1>1. /\ r.st = "WAIT_FOR_CLIENT_LISTS" /\ q.st = "WAIT_FOR_SERVER_COMMITS"
      /\ msg.phase = p /\ q.phase = p
      /\ r.heard \cup {m} = Server /\ q.online = r.online \cup msg.body /\ q.got = r.got
      /\ msg.type = "SERVER_CLIENT_LIST" /\ p \in Nat /\ q.heard = {}
  BY DEF Commits, HearsAll, Heard
<1>2. /\ m \in Server /\ Reached(nd[m], p, Past1)
      /\ nd[m].phase = p => msg.body = DOMAIN nd[m].got
  BY <1>1 DEF Heard, Said, ServerTypes
<1>3. /\ \A u \in r.heard : Reached(nd[u], p, Past1)
      /\ (\A u \in r.heard : nd[u].phase = p) => r.online = DOMAIN r.got \cup Lists(nd, r.heard)
  BY <1>1 DEF Heard, Lockstep
<1>4. \A u \in Server : nd[u].phase <= p
  BY <1>1, NobodyAhead DEF Heard, Past4
<1>5. \A u \in Server : nd[u].phase = p /\ Reached(nd[u], p, Past1) /\ Reached(ne[u], p, Past1)
  BY <1>1, <1>2, <1>3, <1>4 DEF Heard, Forward, Phases, Grows, Reached
<1>6. Same(ne, p) => q.online = Lists(ne, Server)
  <2> HAVE Same(ne, p)
  <2>1. Lists(ne, Server) = Lists(nd, Server)
    BY <1>1, <1>5, ListsStay DEF Heard, Same
  <2>2. Lists(nd, Server) = Lists(nd, r.heard) \cup DOMAIN nd[m].got
    BY <1>1 DEF Lists
  <2>3. DOMAIN r.got \subseteq Lists(nd, Server)
    BY DEF Lists, Heard
  <2> QED
    BY <1>1, <1>2, <1>3, <1>5, <2>1, <2>2, <2>3
<1> QED
  BY <1>1, <1>5, <1>6, PastPhase DEF Lockstep, Listed, Exchange, All, Same

LEMMA HearsCommitLockstep ==
  ASSUME NEW nd, NEW ne, NEW n, NEW msg, Heard(nd, ne, n, msg),
         HearsCommit(nd[n], msg, ne[n])
  PROVE  Lockstep(ne, n)
<1> DEFINE r == nd[n] q == ne[n] p == r.phase m == msg.from
<1>1. /\ r.st = "WAIT_FOR_SERVER_COMMITS" /\ q.st = r.st /\ msg.phase = p /\ q.phase = p
      /\ q.heard = r.heard \cup {m} /\ q.online = r.online
      /\ msg.type = "SERVER_COMMIT" /\ p \in Nat
  BY DEF HearsCommit, Hears, Keeps, Heard
<1>2. m \in Server /\ Reached(nd[m], p, Past2)
  BY <1>1 DEF Heard, Said, ServerTypes
<1>3. /\ r.heard \subseteq Server /\ \A u \in r.heard : Reached(nd[u], p, Past2)
      /\ All(nd, p, Past1) /\ (Same(nd, p) => r.online = Lists(nd, Server))
  BY <1>1 DEF Heard, Lockstep, Exchange, Listed
<1>4. \A u \in q.heard : u \in Server /\ Reached(ne[u], p, Past2)
  BY <1>1, <1>2, <1>3 DEF Heard, Forward, Grows
<1>5. All(ne, p, Past1) /\ (Same(ne, p) => q.online = Lists(ne, Server))
  BY <1>1, <1>3, AllForward, ListsStay DEF All, Same, Heard
<1> QED
  BY <1>1, <1>4, <1>5, PastPhase DEF Lockstep, Listed, Exchange

LEMMA RevealLockstep ==
  ASSUME NEW nd, NEW ne, NEW n, NEW msg, Heard(nd, ne, n, msg),
         Reveals(nd[n], msg, ne[n])
  PROVE  Lockstep(ne, n)
<1> DEFINE r == nd[n] q == ne[n] p == r.phase m == msg.from
<1>1. /\ r.st = "WAIT_FOR_SERVER_COMMITS" /\ q.st = "WAIT_FOR_SERVER_CIPHERTEXT"
      /\ msg.phase = p /\ q.phase = p /\ r.heard \cup {m} = Server /\ q.online = r.online
      /\ msg.type = "SERVER_COMMIT" /\ p \in Nat /\ q.heard = {}
  BY DEF Reveals, HearsAll, Keeps, Heard
<1>2. m \in Server /\ Reached(nd[m], p, Past2)
  BY <1>1 DEF Heard, Said, ServerTypes
<1>3. /\ \A u \in r.heard : Reached(nd[u], p, Past2)
      /\ All(nd, p, Past1) /\ (Same(nd, p) => r.online = Lists(nd, Server))
  BY <1>1 DEF Heard, Lockstep, Exchange, Listed
<1>4. All(ne, p, Past2)
  BY <1>1, <1>2, <1>3 DEF Heard, Forward, Grows, All
<1>5. All(ne, p, Past1) /\ (Same(ne, p) => q.online = Lists(ne, Server))
  BY <1>1, <1>3, AllForward, ListsStay DEF All, Same, Heard
<1> QED
  BY <1>1, <1>4, <1>5, PastPhase DEF Lockstep, Listed, Exchange

LEMMA CipherLockstep ==
  ASSUME NEW nd, NEW ne, NEW n, NEW msg, Heard(nd, ne, n, msg),
         HearsCipher(nd[n], msg, ne[n])
  PROVE  Lockstep(ne, n)
<1> DEFINE r == nd[n] q == ne[n] p == r.phase m == msg.from
<1>1. /\ r.st = "WAIT_FOR_SERVER_CIPHERTEXT" /\ q.st = r.st /\ msg.phase = p /\ q.phase = p
      /\ q.heard = r.heard \cup {m} /\ q.online = r.online
      /\ q.ciphers = [r.ciphers EXCEPT ![m] = msg.body]
      /\ r.ciphers = [s \in Server |-> r.ciphers[s]]
      /\ msg.type = "SERVER_CIPHERTEXT" /\ p \in Nat
  BY DEF HearsCipher, Hears, Keeps, Heard, IsRound
<1>2. /\ m \in Server /\ Reached(nd[m], p, Past3)
      /\ nd[m].phase = p => msg.body = nd[m].mine
  BY <1>1 DEF Heard, Said, ServerTypes
<1>3. /\ r.heard \subseteq Server /\ All(nd, p, Past1) /\ All(nd, p, Past2)
      /\ \A u \in r.heard :
           Reached(nd[u], p, Past3) /\ (nd[u].phase = p => r.ciphers[u] = nd[u].mine)
      /\ (Same(nd, p) => r.online = Lists(nd, Server))
  BY <1>1 DEF Heard, Lockstep, Exchange, Listed
<1>4. \A u \in q.heard : /\ u \in Server /\ Reached(nd[u], p, Past3)
                         /\ nd[u].phase = p => q.ciphers[u] = nd[u].mine
  <2>1. q.ciphers[m] = msg.body /\ \A u \in Server \ {m} : q.ciphers[u] = r.ciphers[u]
    BY <1>1, <1>2
  <2> QED
    BY <1>1, <1>2, <1>3, <2>1
<1>5. \A u \in q.heard : /\ u \in Server /\ Reached(ne[u], p, Past3)
                         /\ ne[u].phase = p => q.ciphers[u] = ne[u].mine
  <2> SUFFICES ASSUME NEW u \in q.heard
               PROVE  /\ u \in Server /\ Reached(ne[u], p, Past3)
                      /\ ne[u].phase = p => q.ciphers[u] = ne[u].mine
    OBVIOUS
  <2>1. u \in Server /\ Reached(nd[u], p, Past3) /\ Forward(nd, ne) /\ p \in Nat
    BY <1>1, <1>4 DEF Heard
  <2>2. Reached(ne[u], p, Past3)
    BY <2>1 DEF Forward, Grows
  <2> QED
    BY <1>4, <2>1, <2>2, Stay
<1>6. /\ All(ne, p, Past1) /\ All(ne, p, Past2)
      /\ (Same(ne, p) => q.online = Lists(ne, Server))
  BY <1>1, <1>3, AllForward, ListsStay DEF All, Same, Heard
<1> QED
  BY <1>1, <1>5, <1>6, PastPhase DEF Lockstep, Listed, Exchange

\* The last ciphertext: everybody is in this phase, and what is signed is the
\* XOR of what all servers committed to.
LEMMA SignLockstep ==
  ASSUME NEW nd, NEW ne, NEW n, NEW msg, Heard(nd, ne, n, msg),
         Signs(nd[n], msg, ne[n])
  PROVE  /\ Lockstep(ne, n) /\ Same(nd, nd[n].phase) /\ All(nd, nd[n].phase, Past3)
         /\ ne[n].text = Xored(nd[n].slots, Mines(nd))
<1> DEFINE r == nd[n] q == ne[n] p == r.phase m == msg.from
           got == [r.ciphers EXCEPT ![m] = msg.body]
<1>1. /\ r.st = "WAIT_FOR_SERVER_CIPHERTEXT" /\ q.st = "WAIT_FOR_SERVER_VALIDATION"
      /\ msg.phase = p /\ q.phase = p /\ q.heard = {} /\ r.heard \cup {m} = Server
      /\ q.online = r.online /\ q.text = Xored(r.slots, got) /\ q.slots = r.slots
      /\ r.ciphers = [s \in Server |-> r.ciphers[s]]
      /\ msg.type = "SERVER_CIPHERTEXT" /\ p \in Nat
  BY DEF Signs, HearsAll, Keeps, Heard, IsRound
<1>2. /\ m \in Server /\ Reached(nd[m], p, Past3)
      /\ nd[m].phase = p => msg.body = nd[m].mine
  BY <1>1 DEF Heard, Said, ServerTypes
<1>3. /\ All(nd, p, Past1)
      /\ \A u \in r.heard :
           Reached(nd[u], p, Past3) /\ (nd[u].phase = p => r.ciphers[u] = nd[u].mine)
      /\ (Same(nd, p) => r.online = Lists(nd, Server))
  BY <1>1 DEF Heard, Lockstep, Listed
<1>4. \A u \in Server : nd[u].phase <= p
  BY <1>1, NobodyAhead DEF Heard, Past4
<1>5. All(nd, p, Past3) /\ Same(nd, p)
  BY <1>1, <1>2, <1>3, <1>4 DEF Heard, Phases, Reached, All, Same
<1>6. got = Mines(nd)
  <2>1. got = [u \in Server |-> IF u = m THEN msg.body ELSE r.ciphers[u]]
    BY <1>1
  <2>2. \A u \in Server : (IF u = m THEN msg.body ELSE r.ciphers[u]) = nd[u].mine
    BY <1>1, <1>2, <1>3, <1>5 DEF Same
  <2> QED
    BY <2>1, <2>2 DEF Mines
<1>7. All(ne, p, Past1) /\ All(ne, p, Past3)
  BY <1>1, <1>3, <1>5, AllForward DEF Heard
<1>8. Same(ne, p) => q.online = Lists(ne, Server) /\ Mines(ne) = Mines(nd)
  <2>1. Same(ne, p) => q.online = Lists(ne, Server)
    BY <1>1, <1>3, ListsStay DEF All, Same, Heard
  <2>2. Same(ne, p) => \A u \in Server : ne[u].mine = nd[u].mine
    BY <1>1, <1>5, Stay DEF All, Same, Heard
  <2> QED
    BY <2>1, <2>2 DEF Mines
<1>9. q.text = Xored(r.slots, Mines(nd))
  BY <1>1, <1>6
<1> QED
  BY <1>1, <1>5, <1>7, <1>8, <1>9, PastPhase DEF Lockstep, Listed, Exchange

LEMMA SignatureLockstep ==
  ASSUME NEW nd, NEW ne, NEW n, NEW msg, Heard(nd, ne, n, msg),
         HearsSignature(nd[n], msg, ne[n])
  PROVE  Lockstep(ne, n)
<1> DEFINE r == nd[n] q == ne[n] p == r.phase m == msg.from
<1>1. /\ r.st = "WAIT_FOR_SERVER_VALIDATION" /\ q.st = r.st /\ msg.phase = p /\ q.phase = p
      /\ q.heard = r.heard \cup {m} /\ q.online = r.online /\ q.text = r.text
      /\ q.slots = r.slots /\ msg.type = "SERVER_VALIDATION" /\ p \in Nat
  BY DEF HearsSignature, Hears, Keeps, Heard
<1>2. m \in Server /\ Reached(nd[m], p, Past4)
  BY <1>1 DEF Heard, Said, ServerTypes
<1>3. /\ r.heard \subseteq Server /\ All(nd, p, Past1) /\ All(nd, p, Past3)
      /\ \A u \in r.heard : Reached(nd[u], p, Past4)
      /\ (Same(nd, p) => r.online = Lists(nd, Server) /\ r.text = Xored(r.slots, Mines(nd)))
  BY <1>1 DEF Heard, Lockstep, Exchange, Listed
<1>4. \A u \in q.heard : u \in Server /\ Reached(ne[u], p, Past4)
  BY <1>1, <1>2, <1>3 DEF Heard, Forward, Grows
<1>5. All(ne, p, Past1) /\ All(ne, p, Past3)
  BY <1>1, <1>3, AllForward DEF Heard
<1>6. Same(ne, p) => q.online = Lists(ne, Server) /\ q.text = Xored(q.slots, Mines(ne))
  <2>1. Same(ne, p) => Same(nd, p) /\ \A u \in Server : ne[u].mine = nd[u].mine
    BY <1>1, <1>3, Stay DEF All, Same, Heard
  <2>2. Same(ne, p) => Mines(ne) = Mines(nd)
    BY <2>1 DEF Mines
  <2>3. Same(ne, p) => Lists(ne, Server) = Lists(nd, Server)
    BY <1>1, <1>3, ListsStay DEF All, Same, Heard
  <2> QED
    BY <1>1, <1>3, <2>1, <2>2, <2>3
<1> QED
  BY <1>1, <1>4, <1>5, <1>6, PastPhase DEF Lockstep, Listed, Exchange

LEMMA PassLockstep ==
  ASSUME NEW nd, NEW ne, NEW n, NEW msg, Heard(nd, ne, n, msg),
         NextPhased(nd[n], msg, ne[n]) \/ Blames(nd[n], msg, ne[n])
  PROVE  Lockstep(ne, n)
<1> DEFINE r == nd[n] q == ne[n] p == r.phase m == msg.from
<1>1. /\ r.st = "WAIT_FOR_SERVER_VALIDATION" /\ r.heard \cup {m} = Server
      /\ msg.type = "SERVER_VALIDATION" /\ msg.phase = p /\ p \in Nat
  BY DEF NextPhased, Blames, Passes, Heard, Phases
<1>2. /\ Reached(nd[m], p, Past4) /\ \A u \in r.heard : Reached(nd[u], p, Past4)
  BY <1>1 DEF Heard, Said, ServerTypes, Lockstep
<1>3. All(ne, p, Past4)
  BY <1>1, <1>2 DEF Heard, Forward, Grows, All
<1>4. CASE Blames(r, msg, q)
  <2>1. q.phase = p /\ q.st = "STARTING_BLAME_SHUFFLE"
    BY <1>4 DEF Blames
  <2> QED
    BY <2>1, PastPhase DEF Lockstep, Listed, Exchange
<1>5. CASE NextPhased(r, msg, q)
  <2>1. q.phase = p + 1 /\ InWindow(q)
    BY <1>5 DEF NextPhased
  <2>2. Lists(ne, {}) = {}
    BY DEF Lists
  <2> QED
    BY <1>1, <1>3, <2>1, <2>2 DEF Lockstep, InWindow, Listed, Exchange
<1> QED
  BY <1>4, <1>5

LEMMA MoveLockstep ==
  ASSUME NEW nd, NEW ne, NEW n, NEW msg, Heard(nd, ne, n, msg),
         ServerMove(nd[n], msg, ne[n])
  PROVE  Lockstep(ne, n)
<1>1. CASE Quiet(nd[n], ne[n])
  BY <1>1, LockstepKept DEF Heard
<1> QED
  BY <1>1, WindowLockstep, ListLockstep, CommitLockstep, HearsCommitLockstep,
     RevealLockstep, CipherLockstep, SignLockstep, SignatureLockstep, PassLockstep
     DEF ServerMove

\* What the moving server says is true of it.
LEMMA MoveSaid ==
  ASSUME NEW nd, NEW ne, NEW n, NEW msg, Heard(nd, ne, n, msg), Lockstep(ne, n),
         NEW x, Utters(n, nd[n], ne[n], x)
  PROVE  Said(ne, x)
<1> DEFINE q == ne[n] p == q.phase
<1>1. n \in Server /\ p \in Nat /\ x.from = n
  BY DEF Heard, Forward, Phases, Utters
<1>2. CASE x.type = "SERVER_CLIENT_LIST"
  <2>1. q.st = "WAIT_FOR_CLIENT_LISTS" /\ x.phase = p /\ x.body = q.online /\ q.heard = {}
    BY <1>2 DEF Utters
  <2>2. q.online = DOMAIN q.got
    BY <2>1 DEF Lockstep, Lists
  <2> QED
    BY <1>1, <1>2, <2>1, <2>2 DEF Said, Reached, Past1, ServerTypes
<1>3. CASE x.type = "SERVER_COMMIT"
  <2>1. q.st = "WAIT_FOR_SERVER_COMMITS" /\ x.phase = p
    BY <1>3 DEF Utters
  <2> QED
    BY <1>1, <1>3, <2>1 DEF Said, Reached, Past2, ServerTypes
<1>4. CASE x.type = "SERVER_CIPHERTEXT"
  <2>1. q.st = "WAIT_FOR_SERVER_CIPHERTEXT" /\ x.phase = p /\ x.body = q.mine
    BY <1>4 DEF Utters
  <2>2. All(ne, p, Past2)
    BY <2>1 DEF Lockstep
  <2> QED
    BY <1>1, <1>4, <2>1, <2>2 DEF Said, Reached, Past3, ServerTypes
<1>5. CASE x.type = "SERVER_VALIDATION"
  <2>1. q.st = "WAIT_FOR_SERVER_VALIDATION" /\ x.phase = p
    BY <1>5 DEF Utters
  <2> QED
    BY <1>1, <1>5, <2>1 DEF Said, Reached, Past4, ServerTypes
<1>6. CASE x.type \notin ServerTypes
  BY <1>6 DEF Said, ServerTypes
<1> QED
  BY <1>2, <1>3, <1>4, <1>5, <1>6 DEF ServerTypes

\* Only the last list brings a server among those that have one list, and it is
\* then the list of all that are heard.
LEMMA MoveSameLists ==
  ASSUME NEW nd, NEW ne, NEW n, NEW msg, Heard(nd, ne, n, msg),
         ServerMove(nd[n], msg, ne[n]), SameLists(nd),
         \A u \in Server : u # n => ne[u] = nd[u],
         \A u \in Server : Lockstep(ne, u)
  PROVE  SameLists(ne)
<1> DEFINE r == nd[n] q == ne[n]
<1>1. CASE Commits(r, msg, q)
  <2>1. Same(nd, r.phase) /\ q.phase = r.phase /\ q.st = "WAIT_FOR_SERVER_COMMITS"
    BY <1>1, CommitLockstep DEF Commits, HearsAll
  <2>2. Same(ne, q.phase)
    BY <2>1 DEF Same
  <2>3. \A u \in Server : ne[u].st \in Listed => ne[u].online = Lists(ne, Server)
    BY <2>2 DEF Lockstep, Same
  <2> QED
    BY <2>3 DEF SameLists
<1>2. CASE ~Commits(r, msg, q)
  <2>1. q.st \in Listed => r.st \in Listed /\ q.phase = r.phase /\ q.online = r.online
    BY <1>2 DEF ServerMove, Listed, Keeps, Quiet, Stops, HearsClient, ClosesWindow, Collects,
       HearsList, HearsCommit, Reveals, HearsCipher, Signs, HearsSignature, Hears,
       HearsAll, NextPhased, Blames, Opens, InWindow, Heard, Lockstep
  <2>2. n \in Server
    BY DEF Heard
  <2> QED
    BY <2>1, <2>2 DEF SameLists
<1> QED
  BY <1>1, <1>2

-----------------------------------------------------------------------------
(* The whole net *)

Mail(ch) == UNION {UNION {Range(ch[a][b]) : b \in Node} : a \in Node}
Uttered(out) == UNION {Range(out[m]) : m \in Node}

IsNet(ch) ==
  /\ ch = [a \in Node |-> ch[a]]
  /\ \A a \in Node : /\ ch[a] = [b \in Node |-> ch[a][b]]
                     /\ \A b \in Node : IsSeq(ch[a][b])
AreRounds(nd) ==
  /\ nd = [n \in Node |-> nd[n]]
  /\ \A n \in Node : /\ IsRound(nd[n])
                     /\ n \notin Server => nd[n].st \in ClientStates
                     /\ \A x \in Mailbox(nd[n]) : Processable(x)

\* Messages on the way to nobody's state machine.
Other == {"BLAME_PACKET", "CLOSED"}
IsMail(x) == IsPacket(x) /\ x.phase \in Nat /\ (x.type \in Other \/ Processable(x))

Typed(nd, ch) == AreRounds(nd) /\ IsNet(ch) /\ \A x \in Mail(ch) : IsMail(x)

LEMMA MailIn ==
  ASSUME NEW ch, NEW a \in Node, NEW b \in Node, NEW x \in Range(ch[a][b])
  PROVE  x \in Mail(ch)
BY DEF Mail

LEMMA SentMail ==
  ASSUME NEW ch, IsNet(ch), NEW n \in Node, NEW out, \A m \in Node : IsSeq(out[m]),
         NEW ce, ce = Sent(ch, n, out)
  PROVE  IsNet(ce) /\ Mail(ce) \subseteq Mail(ch) \cup Uttered(out)
<1> DEFINE edge(m) == IF ch[n][m] # <<>> /\ ch[n][m][Len(ch[n][m])].type = "CLOSED"
                        THEN ch[n][m] ELSE ch[n][m] \o out[m]
<1>1. \A m \in Node : IsSeq(edge(m)) /\ Range(edge(m)) \subseteq Range(ch[n][m]) \cup Range(out[m])
  <2> TAKE m \in Node
  <2>1. IsSeq(ch[n][m]) /\ IsSeq(out[m])
    BY DEF IsNet
  <2>2. IsSeq(ch[n][m] \o out[m])
        /\ Range(ch[n][m] \o out[m]) = Range(ch[n][m]) \cup Range(out[m])
    BY <2>1, SeqCat
  <2>3. edge(m) = ch[n][m] \/ edge(m) = ch[n][m] \o out[m]
    OBVIOUS
  <2> HIDE DEF edge
  <2> QED
    BY <2>1, <2>2, <2>3
<1> HIDE DEF edge
<1>2. ce = [ch EXCEPT ![n] = [m \in Node |-> edge(m)]]
  BY DEF Sent, edge
<1>3. /\ ce = [a \in Node |-> ce[a]] /\ ce[n] = [m \in Node |-> edge(m)]
      /\ \A a \in Node : a # n => ce[a] = ch[a]
  BY <1>2 DEF IsNet
<1>4. IsNet(ce)
  BY <1>1, <1>3 DEF IsNet
<1>5. ASSUME NEW a \in Node, NEW b \in Node, NEW x \in Range(ce[a][b])
      PROVE  x \in Mail(ch) \cup Uttered(out)
  <2>1. CASE a # n
    BY <1>3, <2>1, MailIn
  <2>2. CASE a = n
    <3>1. x \in Range(ch[n][b]) \/ x \in Range(out[b])
      BY <1>1, <1>3, <2>2
    <3> QED
      BY <3>1, MailIn DEF Uttered
  <2> QED
    BY <2>1, <2>2
<1> QED
  BY <1>4, <1>5 DEF Mail

\* One edge carries t instead.
SetEdge(ch, a, b, t) == [ch EXCEPT ![a] = [ch[a] EXCEPT ![b] = t]]

LEMMA EdgeMail ==
  ASSUME NEW ch, IsNet(ch), NEW a \in Node, NEW b \in Node, NEW t, IsSeq(t),
         NEW ce, ce = SetEdge(ch, a, b, t)
  PROVE  /\ IsNet(ce) /\ ce[a][b] = t /\ Mail(ce) \subseteq Mail(ch) \cup Range(t)
         /\ \A d, e \in Node : d # a \/ e # b => ce[d][e] = ch[d][e]
<1> DEFINE row == [ch[a] EXCEPT ![b] = t]
<1>1. /\ row = [e \in Node |-> row[e]] /\ row[b] = t
      /\ \A e \in Node : e # b => row[e] = ch[a][e]
  BY DEF IsNet
<1> HIDE DEF row
<1>2. /\ ce = [d \in Node |-> ce[d]] /\ ce[a] = row
      /\ \A d \in Node : d # a => ce[d] = ch[d]
  BY DEF IsNet, row, SetEdge
<1>3. \A d, e \in Node : d # a \/ e # b => ce[d][e] = ch[d][e]
  BY <1>1, <1>2
<1>4. ce[a][b] = t
  BY <1>1, <1>2
<1>5. \A d \in Node : ce[d] = [e \in Node |-> ce[d][e]]
  BY <1>1, <1>2 DEF IsNet
<1>6. IsNet(ce)
  <2>1. \A d, e \in Node : IsSeq(ce[d][e])
    BY <1>3, <1>4 DEF IsNet
  <2> QED
    BY <1>2, <1>5, <2>1 DEF IsNet
<1>7. ASSUME NEW d \in Node, NEW e \in Node, NEW x \in Range(ce[d][e])
      PROVE  x \in Mail(ch) \cup Range(t)
  BY <1>3, <1>4, MailIn
<1> QED
  BY <1>3, <1>4, <1>6, <1>7 DEF Mail

TakenFrom(ch, m, n) == [ch EXCEPT ![m][n] = Tail(@)]
BothAppend(ch, a, b, x, y) == [ch EXCEPT ![a][b] = Append(@, x), ![b][a] = Append(@, y)]
LastGarbled(ch, d, h, x) ==
  [ch EXCEPT ![d][h][Len(ch[d][h])].body.bits = Xor(@, {x})]

LEMMA ReceivedMail ==
  ASSUME NEW ch, IsNet(ch), NEW m \in Node, NEW n \in Node, ch[m][n] # <<>>,
         NEW ce, ce = TakenFrom(ch, m, n)
  PROVE  IsNet(ce) /\ Mail(ce) \subseteq Mail(ch) /\ Head(ch[m][n]) \in Mail(ch)
<1> DEFINE t == Tail(ch[m][n])
<1>1. IsSeq(t) /\ Range(t) \subseteq Range(ch[m][n]) /\ Head(ch[m][n]) \in Range(ch[m][n])
  BY SeqTail DEF IsNet
<1>2. ce = SetEdge(ch, m, n, t)
  BY DEF SetEdge, TakenFrom
<1> HIDE DEF t
<1>3. IsNet(ce) /\ Mail(ce) \subseteq Mail(ch) \cup Range(t)
  BY <1>1, <1>2, EdgeMail
<1> QED
  BY <1>1, <1>3, MailIn

LEMMA ClosedMail ==
  ASSUME NEW ch, IsNet(ch), NEW a \in Node, NEW b \in Node, NEW x, NEW y,
         NEW ce, ce = BothAppend(ch, a, b, x, y)
  PROVE  IsNet(ce) /\ Mail(ce) \subseteq Mail(ch) \cup {x, y}
<1> DEFINE p == Append(ch[a][b], x)
           cd == SetEdge(ch, a, b, p)
           q == Append(ch[b][a], y)
<1>1. ce = SetEdge(cd, b, a, q)
  BY Zenon DEF SetEdge, BothAppend
<1>2. IsSeq(p) /\ Range(p) = Range(ch[a][b]) \cup {x}
  BY SeqAppend DEF IsNet
<1> HIDE DEF p
<1>3. IsNet(cd) /\ Mail(cd) \subseteq Mail(ch) \cup Range(p)
  BY <1>2, EdgeMail
<1> HIDE DEF cd
<1>4. IsSeq(q) /\ Range(q) = Range(ch[b][a]) \cup {y}
  BY SeqAppend DEF IsNet
<1> HIDE DEF q
<1>5. IsNet(ce) /\ Mail(ce) \subseteq Mail(cd) \cup Range(q)
  BY <1>1, <1>3, <1>4, EdgeMail
<1> QED
  BY <1>2, <1>3, <1>4, <1>5, MailIn

\* Garbled means noise in a ciphertext that was there.
GarbledFrom(x, y) ==
  /\ x.type = "CLIENT_CIPHERTEXT" /\ y.type = x.type /\ y.phase = x.phase
  /\ Data(x.body.bits) \subseteq Data(y.body.bits)
Harmless(ch, x) ==
  IsMail(x) /\ (x.type = "CLOSED" \/ \E y \in Mail(ch) : GarbledFrom(x, y))

\* A garbled ciphertext is a ciphertext.
LEMMA GarbledMail ==
  ASSUME NEW ch, IsNet(ch), NEW d \in Node, NEW h, ch[d][h] # <<>>, NEW y,
         \A x \in Mail(ch) : IsMail(x), y.is = "noise",
         ch[d][h][Len(ch[d][h])].type = "CLIENT_CIPHERTEXT",
         NEW ce, ce = LastGarbled(ch, d, h, y)
  PROVE  /\ IsNet(ce)
         /\ \A x \in Mail(ce) : x \in Mail(ch) \/ Harmless(ch, x)
<1> DEFINE q == ch[d][h] k == Len(q) x0 == q[k]
           body == [x0.body EXCEPT !.bits = Xor(@, {y})]
           x1 == [x0 EXCEPT !.body = body]
           q1 == [q EXCEPT ![k] = x1]
<1>1. ce = SetEdge(ch, d, h, q1)
  BY DEF SetEdge, LastGarbled
<1>2. CASE h \notin Node
  <2>1. [ch[d] EXCEPT ![h] = q1] = ch[d]
    BY <1>2 DEF IsNet
  <2>2. ce = ch
    BY <1>1, <2>1 DEF IsNet, SetEdge
  <2> QED
    BY <2>2
<1>3. CASE h \in Node
  <2>1. q \in Seq(Range(q)) /\ k \in 1..Len(q) /\ x0 \in Range(q)
    <3>1. IsSeq(q)
      BY <1>3 DEF IsNet
    <3>2. q \in Seq(Range(q)) /\ q # <<>>
      BY <3>1 DEF IsSeq
    <3> HIDE DEF q
    <3>3. k \in 1..Len(q) /\ DOMAIN q = 1..Len(q)
      BY <3>2
    <3> QED
      BY <3>2, <3>3 DEF Range
  <2>2. IsMail(x0) /\ x0.type = "CLIENT_CIPHERTEXT" /\ Masked(x0)
    BY <1>3, <2>1, MailIn DEF IsMail, Processable, Other
  <2>8. /\ body = Text(body.len, body.bits) /\ PadsOf(body.bits) = PadsOf(x0.body.bits)
        /\ Data(body.bits) = Data(x0.body.bits)
    <3> DEFINE b == x0.body.bits l == x0.body.len
    <3> HIDE DEF x0
    <3>1. x0.body = Text(l, b)
      BY <2>2 DEF Masked
    <3> HIDE DEF b, l
    <3>2. body = Text(l, Xor(b, {y}))
      BY <3>1 DEF Text
    <3>3. PadsOf(Xor(b, {y})) = PadsOf(b) /\ Data(Xor(b, {y})) = Data(b)
      BY DEF PadsOf, Data, Xor, SymDiff
    <3> QED
      BY <3>2, <3>3 DEF Text, b
  <2> HIDE DEF body
  <2>3. /\ x1.type = x0.type /\ x1.from = x0.from /\ x1.phase = x0.phase
        /\ x1.body = body /\ IsPacket(x1)
    <3> HIDE DEF x0
    <3> QED
      BY <2>2 DEF IsMail, IsPacket
  <2>4. IsMail(x1) /\ x1.type = "CLIENT_CIPHERTEXT"
    <3> HIDE DEF x1, x0
    <3> QED
      BY <2>2, <2>3, <2>8 DEF IsMail, Processable, Other, Consumes, Masked
  <2> HIDE DEF x1, x0
  <2>9. GarbledFrom(x1, x0)
    BY <2>2, <2>3, <2>8 DEF GarbledFrom
  <2>5. IsSeq(q1) /\ Range(q1) \subseteq Range(q) \cup {x1}
    <3> DEFINE S == Range(q) \cup {x1}
    <3>1. q \in Seq(S) /\ x1 \in S /\ k \in 1..Len(q)
      <4>1. q \in Seq(Range(q)) /\ Range(q) \subseteq S
        BY <2>1
      <4> HIDE DEF S, q
      <4> QED
        BY <2>1, <4>1 DEF S
    <3> HIDE DEF S, q
    <3>2. q1 \in Seq(S)
      BY <3>1
    <3> HIDE DEF q1
    <3> QED
      BY <3>2, SeqOf DEF S
  <2> HIDE DEF q1
  <2>6. IsNet(ce) /\ Mail(ce) \subseteq Mail(ch) \cup Range(q1)
    BY <1>1, <1>3, <2>5, EdgeMail
  <2>7. Range(q) \subseteq Mail(ch)
    BY <1>3, MailIn
  <2> QED
    BY <2>1, <2>4, <2>5, <2>6, <2>7, <2>9 DEF Harmless
<1> QED
  BY <1>2, <1>3

\* Stands for the message in steps that handle none.
NoMsg(n) ==
  [type |-> "CLIENT_CIPHERTEXT", from |-> n, phase |-> 0, body |-> Text(0, PhasePads({n}, 0))]

LEMMA NoMsgProcessable ==
  ASSUME NEW n
  PROVE  Processable(NoMsg(n)) /\ NoMsg(n).type = "CLIENT_CIPHERTEXT"
<1>1. PadsOf(PhasePads({n}, 0)) = PhasePads({n}, 0)
  BY PadIs DEF PadsOf, PhasePads
<1> QED
  BY <1>1 DEF Processable, NoMsg, Consumes, Masked, Text

\* Every step is a turn z of one node n, on msg, or an event on the edges.
Turn(nd, ch, ne, ce, n, msg, z) ==
  /\ n \in Node /\ Processable(msg)
  /\ msg \in Mail(ch) \cup Mailbox(nd[n]) \/ msg = NoMsg(n)
  /\ Good(n, nd[n], z, {msg})
  /\ n \in Server => ServerMove(nd[n], msg, z.r) /\ Seals(n, nd[n], msg, z.r)
  /\ n \notin Server => ClientMove(nd[n], msg, z.r) /\ Owned(n, nd[n], msg, z.r)
  /\ ne = [nd EXCEPT ![n] = z.r]
  /\ IsNet(ce) /\ Mail(ce) \subseteq Mail(ch) \cup Uttered(z.out)

EdgeEvent(nd, ch, ne, ce) ==
  ne = nd /\ IsNet(ce) /\ \A x \in Mail(ce) : x \in Mail(ch) \/ Harmless(ch, x)

\* A turn without a message, and one with.
LEMMA TakeTurn ==
  ASSUME NEW nd, NEW ch, NEW c1, NEW ne, NEW ce, NEW n \in Node, NEW msg, NEW z,
         IsNet(c1), Mail(c1) \subseteq Mail(ch), Processable(msg),
         msg \in Mail(ch) \cup Mailbox(nd[n]) \/ msg = NoMsg(n),
         Good(n, nd[n], z, {msg}),
         n \in Server => ServerMove(nd[n], msg, z.r) /\ Seals(n, nd[n], msg, z.r),
         n \notin Server => ClientMove(nd[n], msg, z.r) /\ Owned(n, nd[n], msg, z.r),
         ne = [nd EXCEPT ![n] = z.r], ce = Sent(c1, n, z.out)
  PROVE  Turn(nd, ch, ne, ce, n, msg, z)
<1>1. \A m \in Node : IsSeq(z.out[m])
  BY DEF Good, Says
<1>2. IsNet(ce) /\ Mail(ce) \subseteq Mail(c1) \cup Uttered(z.out)
  BY <1>1, SentMail
<1> QED
  BY <1>2 DEF Turn

LEMMA QuietTurn ==
  ASSUME NEW n, NEW r, IsRound(r), NEW z, z = Step(r, Silent), NEW msg
  PROVE  /\ Good(n, r, z, {msg}) /\ ServerMove(r, msg, z.r) /\ ClientMove(r, msg, z.r)
         /\ Seals(n, r, msg, z.r) /\ Owned(n, r, msg, z.r)
<1>1. z.r = r /\ z.out = Silent
  BY DEF Step
<1>2. Owned(n, r, msg, z.r)
  BY <1>1, OwnedSame DEF SameOwn, SameMessages
<1> QED
  BY <1>1, <1>2, SaysNone, SameSeals DEF Good, ServerMove, ClientMove, Quiet, Keeps, SameShare

LEMMA GoodMore ==
  ASSUME NEW n, NEW r, NEW z, NEW msg, Good(n, r, z, {})
  PROVE  Good(n, r, z, {msg})
BY DEF Good

LEMMA DisconnectTurn ==
  ASSUME NEW n, NEW r, IsRound(r), NEW m, NEW z, z = Step(HandleDisconnect(n, r, m), Silent),
         NEW msg
  PROVE  /\ Good(n, r, z, {msg}) /\ ServerMove(r, msg, z.r) /\ ClientMove(r, msg, z.r)
         /\ Seals(n, r, msg, z.r) /\ Owned(n, r, msg, z.r)
<1>1. z.r = HandleDisconnect(n, r, m) /\ z.out = Silent
  BY DEF Step
<1>2. /\ IsRound(z.r) /\ Mailbox(z.r) \subseteq Mailbox(r) /\ SameShare(r, z.r)
      /\ Stops(r, z.r) \/ (Quiet(r, z.r) /\ SameOwn(r, z.r))
  BY <1>1, DisconnectStep
<1>3. Owned(n, r, msg, z.r)
  BY <1>2, OwnedSame, OwnedEnded DEF Stops, Quiet, Keeps
<1> QED
  BY <1>1, <1>2, <1>3, SaysNone, SameSeals DEF Good, ServerMove, ClientMove

LEMMA DataTurn ==
  ASSUME NEW n \in Node, NEW r, IsRound(r), n \notin Server => r.st \in ClientStates,
         n \in Server => r.st # "WAIT_FOR_CLEARTEXT",
         NEW msg, Processable(msg), NEW z, z = ProcessData(n, r, msg)
  PROVE  /\ Good(n, r, z, {msg})
         /\ n \in Server => ServerMove(r, msg, z.r) /\ Seals(n, r, msg, z.r)
         /\ n \notin Server => ClientMove(r, msg, z.r) /\ Owned(n, r, msg, z.r)
BY ServerData, ClientData DEF Node

\* Moves do not look at the mail.
Alike(r, r0) ==
  /\ r.st = r0.st /\ r.phase = r0.phase /\ r.slots = r0.slots /\ r.text = r0.text
  /\ r.out = r0.out /\ r.online = r0.online /\ r.got = r0.got /\ r.heard = r0.heard
  /\ r.ciphers = r0.ciphers /\ r.mine = r0.mine /\ r.allowed = r0.allowed
  /\ SameOwn(r0, r)

LEMMA AlikeMove ==
  ASSUME NEW r, NEW r0, Alike(r, r0), NEW msg, NEW q
  PROVE  /\ ServerMove(r, msg, q) => ServerMove(r0, msg, q)
         /\ \A s : Seals(s, r, msg, q) => Seals(s, r0, msg, q)
         /\ ClientMove(r, msg, q) => ClientMove(r0, msg, q)
         /\ \A c : Owned(c, r, msg, q) => Owned(c, r0, msg, q)
<1> USE DEF Alike
<1>1. /\ Quiet(r, q) => Quiet(r0, q)
      /\ Stops(r, q) => Stops(r0, q)
      /\ HearsClient(r, q) => HearsClient(r0, q)
      /\ ClosesWindow(r, q) => ClosesWindow(r0, q)
      /\ Opens(r, q) => Opens(r0, q)
  BY DEF Quiet, Stops, HearsClient, ClosesWindow, Collects, Opens, Keeps
<1>2. /\ HearsList(r, msg, q) => HearsList(r0, msg, q)
      /\ HearsCommit(r, msg, q) => HearsCommit(r0, msg, q)
      /\ HearsCipher(r, msg, q) => HearsCipher(r0, msg, q)
      /\ HearsSignature(r, msg, q) => HearsSignature(r0, msg, q)
  BY DEF HearsList, HearsCommit, HearsCipher, HearsSignature, Hears, Keeps
<1>3. /\ Commits(r, msg, q) => Commits(r0, msg, q)
      /\ Reveals(r, msg, q) => Reveals(r0, msg, q)
      /\ Signs(r, msg, q) => Signs(r0, msg, q)
  BY DEF Commits, Reveals, Signs, HearsAll, Keeps
<1>4. /\ NextPhased(r, msg, q) => NextPhased(r0, msg, q)
      /\ Blames(r, msg, q) => Blames(r0, msg, q)
  BY DEF NextPhased, Blames, Passes
<1>5. /\ ClientOpens(r, q) => ClientOpens(r0, q)
      /\ ClientPasses(r, msg, q) => ClientPasses(r0, msg, q)
  BY DEF ClientOpens, ClientPasses
<1>6. \A s : Seals(s, r, msg, q) => Seals(s, r0, msg, q)
  <2>1. Relays(r, msg, q) => Relays(r0, msg, q)
    BY DEF Relays
  <2> QED
    BY <1>3, <2>1 DEF Seals, Padded
<1>7. ASSUME NEW c, Owned(c, r, msg, q) PROVE Owned(c, r0, msg, q)
  <2>1. Owned(c, r0, msg, r)
    BY OwnedSame
  <2>2. OwnBits(c, r) = OwnBits(c, r0)
    BY DEF SameOwn, SameMessages, OwnBits
  <2>3. Honest(c, r, msg) <=> Honest(c, r0, msg)
    BY <2>2 DEF Honest
  <2> QED
    BY <1>7, <2>1, <2>2, <2>3 DEF Owned
<1> QED
  BY <1>1, <1>2, <1>3, <1>4, <1>5, <1>6, <1>7 DEF ServerMove, ClientMove

LEMMA ReceiveTurn ==
  ASSUME NEW m \in Node, NEW n \in Node, Typed(node, chan),
         \A s \in Server : node[s].st # "WAIT_FOR_CLEARTEXT", Receive(m, n)
  PROVE  \E msg, z : Turn(node, chan, node', chan', n, msg, z)
<1> DEFINE x == Head(chan[m][n])
           r == node[n]
           c1 == [chan EXCEPT ![m][n] = Tail(@)]
           z == CASE r.st = "FINISHED" \/ x.type = "BLAME_PACKET" -> Step(r, Silent)
                  [] r.st # "FINISHED" /\ x.type = "CLOSED" ->
                       Step(HandleDisconnect(n, r, m), Silent)
                  [] OTHER -> ProcessData(n, r, x)
<1>1. chan[m][n] # <<>> /\ node' = [node EXCEPT ![n] = z.r] /\ chan' = Sent(c1, n, z.out)
  BY DEF Receive, Take
<1>2. /\ IsRound(r) /\ IsNet(chan) /\ \A y \in Mail(chan) : IsMail(y)
      /\ n \notin Server => r.st \in ClientStates
  BY DEF Typed, AreRounds
<1>3. IsNet(c1) /\ Mail(c1) \subseteq Mail(chan) /\ x \in Mail(chan)
  <2>1. c1 = TakenFrom(chan, m, n)
    BY DEF TakenFrom
  <2> HIDE DEF c1, x, z
  <2> QED
    BY <1>1, <1>2, <2>1, ReceivedMail DEF x
<1>4. \/ z = Step(r, Silent)
      \/ z = Step(HandleDisconnect(n, r, m), Silent)
      \/ z = ProcessData(n, r, x) /\ x.type \notin Other
  BY DEF Other
<1> HIDE DEF x, z, c1, r
<1>5. CASE z = Step(r, Silent)
  <2> DEFINE y == NoMsg(n)
  <2>1. Processable(y) /\ y = NoMsg(n)
    BY NoMsgProcessable
  <2> HIDE DEF y
  <2>2. /\ Good(n, r, z, {y}) /\ ServerMove(r, y, z.r) /\ ClientMove(r, y, z.r)
        /\ Seals(n, r, y, z.r) /\ Owned(n, r, y, z.r)
    BY <1>2, <1>5, QuietTurn
  <2>3. Turn(node, chan, node', chan', n, y, z)
    BY <1>1, <1>3, <2>1, <2>2, TakeTurn DEF r
  <2> QED
    BY <2>3
<1>6. CASE z = Step(HandleDisconnect(n, r, m), Silent)
  <2> DEFINE y == NoMsg(n)
  <2>1. Processable(y) /\ y = NoMsg(n)
    BY NoMsgProcessable
  <2> HIDE DEF y
  <2>2. /\ Good(n, r, z, {y}) /\ ServerMove(r, y, z.r) /\ ClientMove(r, y, z.r)
        /\ Seals(n, r, y, z.r) /\ Owned(n, r, y, z.r)
    BY <1>2, <1>6, DisconnectTurn
  <2>3. Turn(node, chan, node', chan', n, y, z)
    BY <1>1, <1>3, <2>1, <2>2, TakeTurn DEF r
  <2> QED
    BY <2>3
<1>7. CASE z = ProcessData(n, r, x) /\ x.type \notin Other
  <2>1. Processable(x)
    BY <1>2, <1>3, <1>7 DEF IsMail
  <2>2. n \in Server => r.st # "WAIT_FOR_CLEARTEXT"
    BY DEF r
  <2>3. /\ Good(n, r, z, {x})
        /\ n \in Server => ServerMove(r, x, z.r) /\ Seals(n, r, x, z.r)
        /\ n \notin Server => ClientMove(r, x, z.r) /\ Owned(n, r, x, z.r)
    BY <1>2, <1>7, <2>1, <2>2, DataTurn
  <2>4. Turn(node, chan, node', chan', n, x, z)
    BY <1>1, <1>3, <2>1, <2>3, TakeTurn DEF r
  <2> QED
    BY <2>4
<1> QED
  BY <1>4, <1>5, <1>6, <1>7

LEMMA ReplayTurn ==
  ASSUME NEW n \in Node, Typed(node, chan),
         \A s \in Server : node[s].st # "WAIT_FOR_CLEARTEXT", Replay(n)
  PROVE  \E msg, z : Turn(node, chan, node', chan', n, msg, z)
<1> DEFINE r0 == node[n]
           r == [r0 EXCEPT !.todo = Tail(@)]
           x == Head(r0.todo)
           z == ProcessData(n, r, x)
<1>1. r0.todo # <<>> /\ node' = [node EXCEPT ![n] = z.r] /\ chan' = Sent(chan, n, z.out)
  BY DEF Replay, Take
<1>2. /\ IsRound(r0) /\ IsNet(chan) /\ \A y \in Mailbox(r0) : Processable(y)
      /\ n \notin Server => r0.st \in ClientStates
      /\ n \in Server => r0.st # "WAIT_FOR_CLEARTEXT"
  BY DEF Typed, AreRounds
<1>3. IsSeq(Tail(r0.todo)) /\ Range(Tail(r0.todo)) \subseteq Range(r0.todo) /\ x \in Range(r0.todo)
  BY <1>1, <1>2, SeqTail DEF IsRound
<1> DEFINE t == Tail(r0.todo)
<1>4. r = [r0 EXCEPT !.todo = t]
  OBVIOUS
<1> HIDE DEF r0, r, x, z, t
<1>5. IsRound(r) /\ Alike(r, r0) /\ r.todo = t /\ r.early = r0.early
  BY <1>2, <1>3, <1>4 DEF IsRound, Fields, Alike, SameOwn, SameMessages, t
<1>6. Mailbox(r) \subseteq Mailbox(r0) /\ x \in Mailbox(r0) /\ Processable(x)
  BY <1>2, <1>3, <1>5 DEF Mailbox, t
<1>7. /\ Good(n, r, z, {x})
      /\ n \in Server => ServerMove(r, x, z.r) /\ Seals(n, r, x, z.r)
      /\ n \notin Server => ClientMove(r, x, z.r) /\ Owned(n, r, x, z.r)
  BY <1>2, <1>5, <1>6, DataTurn DEF Alike, z
<1>8. /\ n \in Server => ServerMove(r0, x, z.r) /\ Seals(n, r0, x, z.r)
      /\ n \notin Server => ClientMove(r0, x, z.r) /\ Owned(n, r0, x, z.r)
  BY <1>5, <1>7, AlikeMove
<1>9. Good(n, r0, z, {x})
  <2>1. \A y : Utters(n, r, z.r, y) => Utters(n, r0, z.r, y)
    BY <1>5 DEF Utters, Alike
  <2> QED
    BY <1>6, <1>7, <2>1 DEF Good, Says
<1>10. Turn(node, chan, node', chan', n, x, z)
  BY <1>1, <1>2, <1>6, <1>8, <1>9, TakeTurn DEF r0
<1> QED
  BY <1>10

LEMMA StartTurn ==
  ASSUME NEW n \in Node, Typed(node, chan),
         \/ ShuffleFinished(n)
         \/ n \in Server /\ ConcludeClientCiphertextSubmission(n)
  PROVE  \E msg, z : Turn(node, chan, node', chan', n, msg, z)
<1> DEFINE r == node[n] y == NoMsg(n)
<1>1. Processable(y) /\ y = NoMsg(n) /\ IsRound(r) /\ IsNet(chan)
  BY NoMsgProcessable DEF Typed, AreRounds
<1>2. \E z : /\ node' = [node EXCEPT ![n] = z.r] /\ chan' = Sent(chan, n, z.out)
             /\ \/ r.st = "SHUFFLING" /\ z = PrepareForBulk(n, r)
                \/ /\ r.st = "WAIT_FOR_CLIENT_CIPHERTEXT" /\ n \in Server
                   /\ z = SubmitClientList(n, r)
  BY DEF ShuffleFinished, ConcludeClientCiphertextSubmission, Take
<1> HIDE DEF y, r
<1>3. PICK z : /\ node' = [node EXCEPT ![n] = z.r] /\ chan' = Sent(chan, n, z.out)
               /\ \/ r.st = "SHUFFLING" /\ z = PrepareForBulk(n, r)
                  \/ /\ r.st = "WAIT_FOR_CLIENT_CIPHERTEXT" /\ n \in Server
                     /\ z = SubmitClientList(n, r)
  BY <1>2
<1>4. /\ Good(n, r, z, {})
      /\ n \in Server => ServerMove(r, y, z.r) /\ Seals(n, r, y, z.r)
      /\ n \notin Server => ClientMove(r, y, z.r) /\ Owned(n, r, y, z.r)
  BY <1>1, <1>3, ServerStart, ClientStart, TimerStep
<1>5. Turn(node, chan, node', chan', n, y, z)
  BY <1>1, <1>3, <1>4, GoodMore, TakeTurn DEF r
<1> QED
  BY <1>5

LEMMA GarbleEvent ==
  ASSUME NEW c \in Client, NEW d \in Client, Typed(node, chan), GarbleSlot(d, c)
  PROVE  EdgeEvent(node, chan, node', chan')
<1>1. PICK how \in NoiseKinds :
        chan' = LastGarbled(chan, d, Home[d], Garble(c, how))
  BY DEF GarbleSlot, LastGarbled
<1>2. /\ chan[d][Home[d]] # <<>>
      /\ chan[d][Home[d]][Len(chan[d][Home[d]])].type = "CLIENT_CIPHERTEXT"
      /\ node' = node /\ d \in Node
  BY DEF GarbleSlot, Node
<1>4. Garble(c, how).is = "noise"
  BY DEF Garble
<1>3. /\ IsNet(chan')
      /\ \A x \in Mail(chan') : x \in Mail(chan) \/ Harmless(chan, x)
  BY <1>1, <1>2, <1>4, GarbledMail DEF Typed
<1> QED
  BY <1>2, <1>3 DEF EdgeEvent

LEMMA CloseEvent ==
  ASSUME NEW a \in Server, NEW b \in Neighbours(a), Typed(node, chan), CloseEdge(a, b)
  PROVE  EdgeEvent(node, chan, node', chan')
<1>1. chan' = BothAppend(chan, a, b, Closed(a), Closed(b)) /\ node' = node
  BY DEF CloseEdge, BothAppend
<1>2. a \in Node /\ b \in Node
  BY DEF Neighbours, Node
<1>3. IsNet(chan') /\ Mail(chan') \subseteq Mail(chan) \cup {Closed(a), Closed(b)}
  BY <1>1, <1>2, ClosedMail DEF Typed
<1>4. \A n : Harmless(chan, Closed(n))
  BY DEF Harmless, IsMail, IsPacket, Closed, Other
<1> QED
  BY <1>1, <1>3, <1>4 DEF EdgeEvent

LEMMA NextTurns ==
  ASSUME Typed(node, chan), \A s \in Server : node[s].st # "WAIT_FOR_CLEARTEXT", Next
  PROVE  \/ \E n, msg, z : Turn(node, chan, node', chan', n, msg, z)
         \/ EdgeEvent(node, chan, node', chan')
<1>1. CASE \E n \in Node : Replay(n) \/ ShuffleFinished(n)
  BY <1>1, ReplayTurn, StartTurn
<1>2. CASE \E m, n \in Node : Receive(m, n)
  BY <1>2, ReceiveTurn
<1>3. CASE \E s \in Server : ConcludeClientCiphertextSubmission(s)
  BY <1>3, StartTurn DEF Node
<1>4. CASE \E c, d \in Client : GarbleSlot(d, c)
  BY <1>4, GarbleEvent
<1>5. CASE \E a \in Server : \E b \in Neighbours(a) : CloseEdge(a, b)
  BY <1>5, CloseEvent
<1> QED
  BY <1>1, <1>2, <1>3, <1>4, <1>5 DEF Next, System

\* The invariant of the exchange.
Mailed(nd, ch) ==
  /\ \A x \in Mail(ch) : Said(nd, x)
  /\ \A n \in Node : \A x \in Mailbox(nd[n]) : Said(nd, x)
Ordered(nd, ch) ==
  /\ \A s \in Server : Lockstep(nd, s)
  /\ SameLists(nd) /\ Mailed(nd, ch)

LEMMA UtteredMail ==
  ASSUME NEW n \in Node, NEW r, NEW q, NEW x, Utters(n, r, q, x)
  PROVE  IsMail(x) /\ (x.type \in ServerTypes => n \in Server)
BY DEF Utters, IsMail, Processable, Other, Consumes, ServerTypes, Masked

LEMMA MoveFrame ==
  ASSUME NEW nd, NEW ch, NEW ne, NEW ce, NEW n, NEW msg, NEW z, Typed(nd, ch),
         Turn(nd, ch, ne, ce, n, msg, z)
  PROVE  /\ n \in Node /\ ne = [m \in Node |-> ne[m]] /\ ne[n] = z.r
         /\ \A m \in Node : m # n => ne[m] = nd[m]
BY DEF Typed, AreRounds, Turn

LEMMA TurnTyped ==
  ASSUME NEW nd, NEW ch, NEW ne, NEW ce, NEW n, NEW msg, NEW z, Typed(nd, ch),
         Turn(nd, ch, ne, ce, n, msg, z)
  PROVE  Typed(ne, ce)
<1>1. /\ n \in Node /\ ne = [m \in Node |-> ne[m]] /\ ne[n] = z.r
      /\ \A m \in Node : m # n => ne[m] = nd[m]
  BY MoveFrame
<1>2. /\ IsRound(z.r) /\ Mailbox(z.r) \subseteq Mailbox(nd[n]) \cup {msg}
      /\ Processable(msg) /\ Says(n, nd[n], z.r, z.out)
      /\ IsNet(ce) /\ Mail(ce) \subseteq Mail(ch) \cup Uttered(z.out)
  BY DEF Turn, Good
<1>3. n \notin Server => z.r.st \in ClientStates
  <2>1. n \notin Server => nd[n].st \in ClientStates /\ ClientMove(nd[n], msg, z.r)
    BY <1>1 DEF Typed, AreRounds, Turn
  <2> QED
    BY <2>1 DEF ClientMove, Quiet, Stops, ClientOpens, ClientPasses, ClientStates
<1>4. \A x \in Mailbox(z.r) : Processable(x)
  BY <1>1, <1>2 DEF Typed, AreRounds
<1>5. AreRounds(ne)
  BY <1>1, <1>2, <1>3, <1>4 DEF Typed, AreRounds
<1>6. \A x \in Uttered(z.out) : IsMail(x)
  BY <1>1, <1>2, UtteredMail DEF Says, Uttered
<1> QED
  BY <1>2, <1>5, <1>6 DEF Typed

LEMMA GrowsSelf ==
  ASSUME NEW r, r.phase \in Nat
  PROVE  Grows(r, r)
BY DEF Grows

LEMMA TurnForward ==
  ASSUME NEW nd, NEW ch, NEW ne, NEW ce, NEW n, NEW msg, NEW z, Typed(nd, ch),
         Turn(nd, ch, ne, ce, n, msg, z)
  PROVE  Forward(nd, ne)
<1>1. /\ n \in Node /\ ne = [m \in Node |-> ne[m]] /\ ne[n] = z.r
      /\ \A m \in Node : m # n => ne[m] = nd[m]
  BY MoveFrame
<1>2. \A u \in Server : u \in Node /\ IsRound(nd[u]) /\ nd[u].phase \in Nat
  BY DEF Typed, AreRounds, Node, IsRound
<1>3. IsRound(z.r) /\ z.r.phase \in Nat
  BY DEF Turn, Good, IsRound
<1>4. n \in Server => Grows(nd[n], z.r)
  BY <1>2, <1>3, MoveGrows DEF Turn
<1>5. \A u \in Server : Grows(nd[u], ne[u])
  BY <1>1, <1>2, <1>4, GrowsSelf
<1> QED
  BY <1>1, <1>2, <1>3, <1>5 DEF Forward, Phases

LEMMA TurnSaid ==
  ASSUME NEW nd, NEW ch, NEW ne, NEW ce, NEW n, NEW msg, NEW z, Typed(nd, ch),
         Ordered(nd, ch), Turn(nd, ch, ne, ce, n, msg, z)
  PROVE  Said(nd, msg) /\ msg.phase \in Nat /\ Processable(msg)
<1>1. Processable(msg) /\ n \in Node
  BY DEF Turn
<1>2. CASE msg \in Mail(ch) \cup Mailbox(nd[n])
  BY <1>1, <1>2 DEF Ordered, Mailed, Processable
<1>3. CASE msg = NoMsg(n)
  BY <1>1, <1>3, NoMsgProcessable DEF Said, ServerTypes, Processable
<1> QED
  BY <1>2, <1>3 DEF Turn

LEMMA TurnOrdered ==
  ASSUME NEW nd, NEW ch, NEW ne, NEW ce, NEW n, NEW msg, NEW z, Typed(nd, ch),
         Ordered(nd, ch), Turn(nd, ch, ne, ce, n, msg, z)
  PROVE  Ordered(ne, ce)
<1>1. /\ n \in Node /\ ne = [m \in Node |-> ne[m]] /\ ne[n] = z.r
      /\ \A m \in Node : m # n => ne[m] = nd[m]
  BY MoveFrame
<1>2. Forward(nd, ne) /\ Said(nd, msg) /\ msg.phase \in Nat
  BY TurnForward, TurnSaid
<1>3. \A s \in Server : s \in Node /\ Lockstep(nd, s)
  BY DEF Ordered, Node
<1>4. \A s \in Server : s # n => Quiet(nd[s], ne[s])
  BY <1>1, <1>3 DEF Quiet, Keeps
<1>5. n \in Server => Heard(nd, ne, n, msg) /\ ServerMove(nd[n], msg, ne[n])
  BY <1>1, <1>2, <1>3 DEF Heard, Typed, AreRounds, Turn, Good, Forward
<1>6. \A s \in Server : Lockstep(ne, s)
  BY <1>2, <1>3, <1>4, <1>5, LockstepKept, MoveLockstep
<1>7. SameLists(ne)
  <2>1. CASE n \in Server
    BY <1>1, <1>3, <1>5, <1>6, <2>1, MoveSameLists DEF Ordered
  <2>2. CASE n \notin Server
    BY <1>1, <1>3, <2>2 DEF Ordered, SameLists
  <2> QED
    BY <2>1, <2>2
<1>8. ASSUME NEW x, x.phase \in Nat, Said(nd, x)
      PROVE  Said(ne, x)
  BY <1>2, <1>8, SaidForward
<1>9. \A x \in Uttered(z.out) : Said(ne, x)
  <2> TAKE x \in Uttered(z.out)
  <2>1. Utters(n, nd[n], ne[n], x)
    BY <1>1 DEF Turn, Good, Says, Uttered
  <2>2. CASE n \in Server
    BY <1>5, <1>6, <2>1, <2>2, MoveSaid
  <2>3. CASE n \notin Server
    <3>1. x.type \notin ServerTypes
      BY <1>1, <2>1, <2>3, UtteredMail
    <3> QED
      BY <3>1 DEF Said, ServerTypes
  <2> QED
    BY <2>2, <2>3
<1>10. \A x \in Mail(ce) : Said(ne, x)
  BY <1>8, <1>9 DEF Typed, Ordered, Mailed, Turn, IsMail
<1>11. \A m \in Node : \A x \in Mailbox(ne[m]) : Said(ne, x)
  <2> TAKE m \in Node
  <2> TAKE x \in Mailbox(ne[m])
  <2>1. x \in Mailbox(nd[m]) \/ x = msg
    BY <1>1 DEF Turn, Good
  <2>2. CASE x \in Mailbox(nd[m])
    BY <1>8, <2>2 DEF Typed, AreRounds, Processable, Ordered, Mailed
  <2>3. CASE x = msg
    BY <1>2, <1>8, <2>3
  <2> QED
    BY <2>1, <2>2, <2>3
<1> QED
  BY <1>6, <1>7, <1>10, <1>11 DEF Ordered, Mailed

LEMMA EventOrdered ==
  ASSUME NEW nd, NEW ch, NEW ne, NEW ce, Typed(nd, ch), Ordered(nd, ch),
         EdgeEvent(nd, ch, ne, ce)
  PROVE  Typed(ne, ce) /\ Ordered(ne, ce)
<1>1. \A x : Harmless(ch, x) => Said(nd, x) /\ IsMail(x)
  BY DEF Harmless, GarbledFrom, Said, ServerTypes
<1> QED
  BY <1>1 DEF EdgeEvent, Typed, Ordered, Mailed

Synchrony == Typed(node, chan) /\ Ordered(node, chan)

LEMMA NewRoundStep ==
  ASSUME NEW n, NEW r, r = NewRound(n)
  PROVE  /\ IsRound(r) /\ Mailbox(r) = {} /\ r.st = "SHUFFLING" /\ r.phase = 0
         /\ r.online = {} /\ DOMAIN r.got = {} /\ r.out = <<>> /\ r.slots = NoSlots
<1>1. /\ r = [f \in Fields |-> r[f]] /\ r.st = "SHUFFLING" /\ r.phase = 0
      /\ r.early = <<>> /\ r.todo = <<>> /\ r.out = <<>> /\ r.slots = NoSlots
      /\ r.online = {} /\ r.got = [c \in {} |-> NoText]
      /\ r.ciphers = [s \in Server |-> NoText]
  BY DEF NewRound, Fields
<1>2. DOMAIN r.got = {} /\ r.ciphers = [s \in Server |-> r.ciphers[s]]
  BY <1>1
<1> QED
  BY <1>1, <1>2, SeqEmpty, SMTT(40) DEF IsRound, Mailbox

LEMMA InitSynchrony == Init => Synchrony
<1> SUFFICES ASSUME Init PROVE Synchrony
  OBVIOUS
<1>1. /\ node = [n \in Node |-> NewRound(n)]
      /\ chan = [a \in Node |-> [b \in Node |-> <<>>]]
  BY DEF Init
<1>2. \A n \in Node : /\ IsRound(node[n]) /\ Mailbox(node[n]) = {}
                      /\ node[n].st = "SHUFFLING" /\ node[n].phase = 0
                      /\ node[n].online = {} /\ DOMAIN node[n].got = {}
  BY <1>1, NewRoundStep
<1>3. AreRounds(node)
  BY <1>1, <1>2 DEF AreRounds, ClientStates
<1>4. IsNet(chan)
  <2>1. \A a \in Node : chan[a] = [b \in Node |-> <<>>]
    BY <1>1
  <2>2. \A a, b \in Node : chan[a][b] = <<>>
    BY <2>1
  <2> QED
    BY <1>1, <2>1, <2>2, SeqEmpty DEF IsNet
<1>5. Mail(chan) = {}
  BY <1>1, SeqEmpty DEF Mail
<1>6. ASSUME NEW s \in Server PROVE Lockstep(node, s)
  <2>1. /\ node[s].st = "SHUFFLING" /\ node[s].online = DOMAIN node[s].got
        /\ ~(node[s].phase > 0)
    <3>1. s \in Node
      BY DEF Node
    <3>2. /\ node[s].st = "SHUFFLING" /\ node[s].phase = 0
          /\ node[s].online = {} /\ DOMAIN node[s].got = {}
      BY <1>2, <3>1
    <3>3. node[s].online = DOMAIN node[s].got
      BY <3>2, Zenon
    <3> QED
      BY <3>2, <3>3
  <2> QED
    BY <2>1 DEF Lockstep, Exchange, Listed
<1>7. SameLists(node)
  BY <1>2 DEF SameLists, Listed, Node
<1> QED
  BY <1>2, <1>3, <1>4, <1>5, <1>6, <1>7 DEF Synchrony, Typed, Ordered, Mailed

LEMMA NextSynchrony ==
  ASSUME Synchrony, [Next]_vars
  PROVE  Synchrony'
<1>1. \A s \in Server : node[s].st # "WAIT_FOR_CLEARTEXT"
  BY DEF Synchrony, Ordered, Lockstep
<1>2. CASE UNCHANGED vars
  BY <1>2 DEF vars, Synchrony
<1>3. CASE Next
  <2>1. CASE EdgeEvent(node, chan, node', chan')
    <3>1. Typed(node', chan') /\ Ordered(node', chan')
      BY <2>1, EventOrdered DEF Synchrony
    <3> QED
      BY <3>1 DEF Synchrony
  <2>2. CASE \E n, msg, z : Turn(node, chan, node', chan', n, msg, z)
    <3>1. Typed(node', chan') /\ Ordered(node', chan')
      BY <2>2, TurnTyped, TurnOrdered DEF Synchrony
    <3> QED
      BY <3>1 DEF Synchrony
  <2> QED
    BY <1>1, <1>3, <2>1, <2>2, NextTurns DEF Synchrony
<1> QED
  BY <1>2, <1>3

\* The servers run through the exchange together: whatever the order of messages,
\* the early ones that are kept for later, windows that close and edges that
\* break, what a server's state says of the others and every message on the way is
\* true.
THEOREM SynchronyInvariant == Spec => []Synchrony
<1>1. Init => Synchrony
  BY InitSynchrony
<1>2. Synchrony /\ [Next]_vars => Synchrony'
  BY NextSynchrony
<1> QED
  BY <1>1, <1>2, PTL DEF Spec

\* While a server's ciphertext is in flight every server is bound to its own.
THEOREM CommitFirst == Spec => []CommitBeforeReveal
<1>1. Synchrony => CommitBeforeReveal
  <2> SUFFICES ASSUME Synchrony, NEW s \in Server, NEW t \in Server, NEW n \in Server,
                      NEW i \in DOMAIN chan[s][n],
                      chan[s][n][i].type = "SERVER_CIPHERTEXT"
               PROVE  \/ node[t].phase > chan[s][n][i].phase
                      \/ node[t].st \in Past2
    BY DEF CommitBeforeReveal, Past2, Past3, Past4
  <2> DEFINE x == chan[s][n][i]
  <2>1. x \in Mail(chan)
    BY MailIn DEF Node, Range
  <2>2. Said(node, x)
    BY <2>1 DEF Synchrony, Ordered, Mailed
  <2>3. All(node, x.phase, Past2)
    BY <2>2 DEF Said
  <2> QED
    BY <2>3 DEF All, Reached
<1> QED
  BY <1>1, SynchronyInvariant, PTL

-----------------------------------------------------------------------------
(* One story: in phase p all nodes have slots sl[p] and were given ot[p],   *)
(* and tx[p] is the cleartext of phase p, for the D phases that some server *)
(* has signed.                                                              *)

Prefix(a, b) == Len(a) <= Len(b) /\ \A i \in 1..Len(a) : a[i] = b[i]

LEMMA PrefixAppend ==
  ASSUME NEW a, NEW b, IsSeq(a), IsSeq(b), NEW x, Prefix(a, b)
  PROVE  Prefix(a, Append(b, x))
<1>1. Len(a) \in Nat /\ Len(b) \in Nat
  BY DEF IsSeq
<1>2. Len(Append(b, x)) = Len(b) + 1 /\ \A i \in 1..Len(b) : Append(b, x)[i] = b[i]
  BY SeqAppend
<1> QED
  BY <1>1, <1>2 DEF Prefix

Ended == {"STARTING_BLAME_SHUFFLE", "FINISHED"}
Follows(r, D, sl, tx, ot) ==
  /\ r.phase <= D
  /\ r.st \notin Ended => r.slots = sl[r.phase] /\ r.out = ot[r.phase]
  /\ r.st \in Ended => r.out = ot[r.phase] \/ (r.phase < D /\ r.out = ot[r.phase + 1])
  /\ r.st = "WAIT_FOR_SERVER_VALIDATION" => r.phase < D /\ r.text = tx[r.phase]

\* A cleartext under way is that of its phase.
Tells(x, D, tx) == x.type = "SERVER_CLEARTEXT" => x.phase < D /\ x.body.text = tx[x.phase]

\* By phase.
IsHistory(f) == f = [p \in Nat |-> f[p]]
SetAt(f, i, v) == [f EXCEPT ![i] = v]

LEMMA HistorySet ==
  ASSUME NEW f, IsHistory(f), NEW i \in Nat, NEW v, NEW g, g = SetAt(f, i, v)
  PROVE  IsHistory(g) /\ g[i] = v /\ \A p \in Nat : p # i => g[p] = f[p]
<1>1. g = [p \in Nat |-> IF p = i THEN v ELSE f[p]]
  BY DEF IsHistory, SetAt
<1> QED
  BY <1>1 DEF IsHistory

Chain(D, sl, tx, ot) ==
  /\ D \in Nat /\ IsHistory(sl) /\ IsHistory(tx) /\ IsHistory(ot)
  /\ \A p \in Nat : p < D => /\ sl[p + 1] = SlotsAfter(sl[p], tx[p])
                             /\ ot[p + 1] = OutAfter(ot[p], sl[p], tx[p])
  /\ \A p \in Nat : p <= D => IsSeq(ot[p])
  /\ \A p, k \in Nat : p <= k /\ k <= D => Prefix(ot[p], ot[k])

Story(nd, ch, D, sl, tx, ot) ==
  /\ Chain(D, sl, tx, ot)
  /\ \A n \in Node : Follows(nd[n], D, sl, tx, ot)
  /\ \A x \in Mail(ch) : Tells(x, D, tx)
  /\ \A n \in Node : \A x \in Mailbox(nd[n]) : Tells(x, D, tx)
  /\ D > 0 => /\ All(nd, D - 1, Past3)
              /\ Same(nd, D - 1) => tx[D - 1] = Xored(sl[D - 1], Mines(nd))

LEMMA ChainExtend ==
  ASSUME NEW D, NEW sl, NEW tx, NEW ot, Chain(D, sl, tx, ot), NEW t,
         NEW sm, sm = SetAt(sl, D + 1, SlotsAfter(sl[D], t)),
         NEW ty, ty = SetAt(tx, D, t),
         NEW ou, ou = SetAt(ot, D + 1, OutAfter(ot[D], sl[D], t))
  PROVE  /\ Chain(D + 1, sm, ty, ou) /\ ty[D] = t
         /\ \A p \in Nat : p <= D => sm[p] = sl[p] /\ ou[p] = ot[p]
         /\ \A p \in Nat : p < D => ty[p] = tx[p]
<1> DEFINE s1 == SlotsAfter(sl[D], t) o1 == OutAfter(ot[D], sl[D], t)
<1>1. /\ D \in Nat /\ D + 1 \in Nat /\ IsSeq(ot[D])
      /\ \A p \in Nat : p <= D => Prefix(ot[p], ot[D]) /\ IsSeq(ot[p])
  BY DEF Chain
<1>2. o1 = ot[D] \/ \E b : o1 = Append(ot[D], b)
  BY DEF OutAfter
<1> HIDE DEF s1, o1
<1>3. IsSeq(o1) /\ \A p \in Nat : p <= D => Prefix(ot[p], o1)
  <2>1. CASE o1 = ot[D]
    BY <1>1, <2>1
  <2>2. CASE \E b : o1 = Append(ot[D], b)
    <3>1. PICK b : o1 = Append(ot[D], b)
      BY <2>2
    <3>2. IsSeq(o1)
      BY <1>1, <3>1, SeqAppend
    <3>3. ASSUME NEW p \in Nat, p <= D PROVE Prefix(ot[p], o1)
      <4>1. IsSeq(ot[p]) /\ Prefix(ot[p], ot[D]) /\ IsSeq(ot[D])
        BY <1>1, <3>3
      <4> QED
        BY <3>1, <4>1, PrefixAppend
    <3> QED
      BY <3>2, <3>3
  <2> QED
    BY <1>2, <2>1, <2>2
<1>4. Prefix(o1, o1)
  BY <1>3 DEF Prefix, IsSeq
<1>5. /\ IsHistory(sm) /\ sm[D + 1] = s1
      /\ \A p \in Nat : p <= D => sm[p] = sl[p]
  BY <1>1, HistorySet DEF Chain, s1
<1>6. /\ IsHistory(ou) /\ ou[D + 1] = o1
      /\ \A p \in Nat : p <= D => ou[p] = ot[p]
  BY <1>1, HistorySet DEF Chain, o1
<1>7. /\ IsHistory(ty) /\ ty[D] = t
      /\ \A p \in Nat : p < D => ty[p] = tx[p]
  BY <1>1, HistorySet DEF Chain
<1>8. ASSUME NEW p \in Nat, p < D + 1
      PROVE  /\ sm[p + 1] = SlotsAfter(sm[p], ty[p])
             /\ ou[p + 1] = OutAfter(ou[p], sm[p], ty[p])
  <2>1. CASE p = D
    BY <1>1, <1>5, <1>6, <1>7, <2>1 DEF s1, o1
  <2>2. CASE p < D
    <3>1. /\ sm[p] = sl[p] /\ ou[p] = ot[p] /\ ty[p] = tx[p]
          /\ sm[p + 1] = sl[p + 1] /\ ou[p + 1] = ot[p + 1]
      BY <1>1, <1>5, <1>6, <1>7, <2>2
    <3> QED
      BY <2>2, <3>1 DEF Chain
  <2> QED
    BY <1>1, <1>8, <2>1, <2>2
<1>9. \A p \in Nat : p <= D + 1 => IsSeq(ou[p])
  BY <1>1, <1>3, <1>6
<1>10. ASSUME NEW p \in Nat, NEW k \in Nat, p <= k, k <= D + 1
       PROVE  Prefix(ou[p], ou[k])
  <2>1. CASE k <= D
    BY <1>1, <1>6, <1>10, <2>1 DEF Chain
  <2>2. CASE k = D + 1 /\ p <= D
    BY <1>1, <1>3, <1>6, <2>2
  <2>3. CASE k = D + 1 /\ p = D + 1
    BY <1>4, <1>6, <2>3
  <2> QED
    BY <1>1, <1>10, <2>1, <2>2, <2>3
<1> QED
  BY <1>1, <1>5, <1>6, <1>7, <1>8, <1>9, <1>10 DEF Chain

\* The story as it was told, and one with one more phase, whose cleartext is t.
Told(D, sl, tx, ot, E, sm, ty, ou) == E = D /\ sm = sl /\ ty = tx /\ ou = ot
Adds(D, sl, tx, ot, E, sm, ty, ou, t) ==
  /\ E = D + 1 /\ ty[D] = t
  /\ \A p \in Nat : p <= D => sm[p] = sl[p] /\ ou[p] = ot[p]
  /\ \A p \in Nat : p < D => ty[p] = tx[p]

\* One more phase of the story, before anything else has changed.
LEMMA StoryExtend ==
  ASSUME NEW nd, NEW ch, NEW D, NEW sl, NEW tx, NEW ot, Typed(nd, ch),
         Story(nd, ch, D, sl, tx, ot), Same(nd, D), All(nd, D, Past3),
         NEW t, t = Xored(sl[D], Mines(nd))
  PROVE  \E sm, ty, ou : /\ Story(nd, ch, D + 1, sm, ty, ou)
                         /\ Adds(D, sl, tx, ot, D + 1, sm, ty, ou, t)
<1> DEFINE sm == SetAt(sl, D + 1, SlotsAfter(sl[D], t))
           ty == SetAt(tx, D, t)
           ou == SetAt(ot, D + 1, OutAfter(ot[D], sl[D], t))
<1>1. /\ Chain(D + 1, sm, ty, ou) /\ ty[D] = t
      /\ \A p \in Nat : p <= D => sm[p] = sl[p] /\ ou[p] = ot[p]
      /\ \A p \in Nat : p < D => ty[p] = tx[p]
  BY ChainExtend DEF Story
<1> HIDE DEF sm, ty, ou
<1>2. D \in Nat /\ \A n \in Node : nd[n].phase \in Nat
  BY DEF Story, Chain, Typed, AreRounds, IsRound
<1>3. ASSUME NEW n \in Node PROVE Follows(nd[n], D + 1, sm, ty, ou)
  <2> DEFINE r == nd[n]
  <2>1. r.phase \in Nat /\ Follows(r, D, sl, tx, ot)
    BY <1>2 DEF Story
  <2> HIDE DEF r
  <2>2. r.phase <= D /\ (r.phase < D => r.phase + 1 <= D)
    BY <1>2, <2>1 DEF Follows
  <2> QED
    BY <1>1, <1>2, <2>1, <2>2 DEF Follows, r
<1>4. ASSUME NEW x, x.phase \in Nat, Tells(x, D, tx) PROVE Tells(x, D + 1, ty)
  BY <1>1, <1>2, <1>4 DEF Tells
<1>5. \A x \in Mail(ch) : Tells(x, D + 1, ty)
  BY <1>4 DEF Story, Typed, IsMail
<1>6. \A n \in Node : \A x \in Mailbox(nd[n]) : Tells(x, D + 1, ty)
  BY <1>4 DEF Story, Typed, AreRounds, Processable
<1>7. (D + 1) - 1 = D
  BY <1>2
<1>8. sm[D] = sl[D] /\ Adds(D, sl, tx, ot, D + 1, sm, ty, ou, t)
  BY <1>1, <1>2 DEF Adds
<1>9. Story(nd, ch, D + 1, sm, ty, ou)
  BY <1>1, <1>3, <1>5, <1>6, <1>7, <1>8 DEF Story
<1> QED
  BY <1>1, <1>8, <1>9

\* The story goes on if the round that moved follows it.
LEMMA StoryKeep ==
  ASSUME NEW nd, NEW ch, NEW ne, NEW ce, NEW n, NEW msg, NEW z, Typed(nd, ch),
         Turn(nd, ch, ne, ce, n, msg, z),
         NEW D, NEW sl, NEW tx, NEW ot, Story(nd, ch, D, sl, tx, ot),
         Follows(z.r, D, sl, tx, ot)
  PROVE  Story(ne, ce, D, sl, tx, ot)
<1>1. /\ n \in Node /\ ne = [m \in Node |-> ne[m]] /\ ne[n] = z.r
      /\ \A m \in Node : m # n => ne[m] = nd[m]
  BY MoveFrame
<1>2. Forward(nd, ne) /\ D \in Nat
  BY TurnForward DEF Story, Chain
<1>3. \A m \in Node : Follows(ne[m], D, sl, tx, ot)
  BY <1>1 DEF Story
<1>4. Tells(msg, D, tx)
  BY NoMsgProcessable DEF Turn, Story, Tells
<1>5. \A x \in Uttered(z.out) : Tells(x, D, tx)
  <2> TAKE x \in Uttered(z.out)
  <2>1. Utters(n, nd[n], z.r, x)
    BY DEF Turn, Good, Says, Uttered
  <2>2. Follows(nd[n], D, sl, tx, ot)
    BY <1>1 DEF Story
  <2> QED
    BY <2>1, <2>2 DEF Utters, Tells, Follows
<1>6. \A x \in Mail(ce) : Tells(x, D, tx)
  BY <1>5 DEF Turn, Story
<1>7. \A m \in Node : \A x \in Mailbox(ne[m]) : Tells(x, D, tx)
  BY <1>1, <1>4 DEF Turn, Good, Story
<1>8. ASSUME D > 0
      PROVE  /\ All(ne, D - 1, Past3)
             /\ Same(ne, D - 1) => tx[D - 1] = Xored(sl[D - 1], Mines(ne))
  <2> DEFINE p == D - 1
  <2>1. p \in Nat
    BY <1>2, <1>8
  <2>2. All(nd, p, Past3) /\ (Same(nd, p) => tx[p] = Xored(sl[p], Mines(nd)))
    BY <1>8 DEF Story
  <2> HIDE DEF p
  <2>3. All(ne, p, Past3)
    BY <1>2, <2>1, <2>2, AllForward
  <2>4. Same(ne, p) => \A u \in Server : nd[u].phase = p /\ ne[u].mine = nd[u].mine
    BY <1>2, <2>1, <2>2, Stay DEF Same, All
  <2>5. Same(ne, p) => Same(nd, p) /\ Mines(ne) = Mines(nd)
    BY <2>4 DEF Same, Mines
  <2> QED
    BY <2>2, <2>3, <2>5 DEF p
<1> QED
  BY <1>3, <1>6, <1>7, <1>8 DEF Story

\* The moves that follow a story that is told already.
LEMMA ServerFollows ==
  ASSUME NEW D \in Nat, NEW sl, NEW tx, NEW ot, Chain(D, sl, tx, ot),
         NEW r, NEW q, NEW msg, IsRound(r), Follows(r, D, sl, tx, ot),
         ServerMove(r, msg, q), r.st = "SHUFFLING" => r.online = DOMAIN r.got,
         Signs(r, msg, q) => r.phase < D /\ q.text = tx[r.phase]
  PROVE  Follows(q, D, sl, tx, ot)
<1>1. r.phase \in Nat
  BY DEF IsRound
<1> USE DEF Follows, Ended, Keeps
<1>2. CASE Quiet(r, q)
  BY <1>2 DEF Quiet
<1>3. CASE Stops(r, q)
  BY <1>3 DEF Stops
<1>4. CASE HearsClient(r, q) \/ ClosesWindow(r, q)
  BY <1>4 DEF HearsClient, ClosesWindow, Collects
<1>5. CASE HearsList(r, msg, q) \/ HearsCommit(r, msg, q) \/ HearsCipher(r, msg, q)
           \/ HearsSignature(r, msg, q)
  BY <1>5 DEF HearsList, HearsCommit, HearsCipher, HearsSignature, Hears
<1>6. CASE Commits(r, msg, q) \/ Reveals(r, msg, q)
  BY <1>6 DEF Commits, Reveals, HearsAll
<1>7. CASE Signs(r, msg, q)
  BY <1>7 DEF Signs, HearsAll
<1>8. CASE Opens(r, q)
  <2>1. InWindow(q)
    BY <1>8 DEF Opens
  <2> QED
    BY <1>8, <2>1 DEF Opens, InWindow
<1>9. CASE NextPhased(r, msg, q) \/ Blames(r, msg, q)
  <2>1. /\ r.phase < D /\ r.text = tx[r.phase]
        /\ r.slots = sl[r.phase] /\ r.out = ot[r.phase]
        /\ q.slots = SlotsAfter(r.slots, r.text) /\ q.out = OutAfter(r.out, r.slots, r.text)
    BY <1>9 DEF NextPhased, Blames, Passes
  <2>2. q.slots = sl[r.phase + 1] /\ q.out = ot[r.phase + 1]
    BY <1>1, <2>1 DEF Chain
  <2> QED
    BY <1>1, <1>9, <2>1, <2>2 DEF NextPhased, Blames, InWindow
<1> QED
  BY <1>2, <1>3, <1>4, <1>5, <1>6, <1>7, <1>8, <1>9 DEF ServerMove

LEMMA ClientFollows ==
  ASSUME NEW D \in Nat, NEW sl, NEW tx, NEW ot, Chain(D, sl, tx, ot),
         NEW r, NEW q, NEW msg, IsRound(r), Follows(r, D, sl, tx, ot),
         Tells(msg, D, tx), ClientMove(r, msg, q)
  PROVE  Follows(q, D, sl, tx, ot)
<1>1. r.phase \in Nat
  BY DEF IsRound
<1> USE DEF Follows, Ended, Keeps
<1>2. CASE Quiet(r, q)
  BY <1>2 DEF Quiet
<1>3. CASE Stops(r, q)
  BY <1>3 DEF Stops
<1>4. CASE ClientOpens(r, q)
  BY <1>4 DEF ClientOpens
<1>5. CASE ClientPasses(r, msg, q)
  <2>1. /\ r.phase < D /\ msg.body.text = tx[r.phase]
        /\ r.slots = sl[r.phase] /\ r.out = ot[r.phase]
        /\ q.slots = SlotsAfter(r.slots, msg.body.text)
        /\ q.out = OutAfter(r.out, r.slots, msg.body.text)
    BY <1>5 DEF ClientPasses, Tells
  <2>2. q.slots = sl[r.phase + 1] /\ q.out = ot[r.phase + 1]
    BY <1>1, <2>1 DEF Chain
  <2> QED
    BY <1>1, <1>5, <2>1, <2>2 DEF ClientPasses
<1> QED
  BY <1>2, <1>3, <1>4, <1>5 DEF ClientMove

LEMMA StoryTurn ==
  ASSUME NEW nd, NEW ch, NEW ne, NEW ce, NEW n, NEW msg, NEW z, Typed(nd, ch),
         Ordered(nd, ch), Turn(nd, ch, ne, ce, n, msg, z),
         NEW D, NEW sl, NEW tx, NEW ot, Story(nd, ch, D, sl, tx, ot)
  PROVE  \E E, sm, ty, ou :
           /\ Story(ne, ce, E, sm, ty, ou)
           /\ \/ Told(D, sl, tx, ot, E, sm, ty, ou)
              \/ /\ n \in Server /\ Signs(nd[n], msg, z.r) /\ nd[n].phase = D
                 /\ Adds(D, sl, tx, ot, E, sm, ty, ou, z.r.text)
<1> DEFINE r == nd[n] q == z.r
<1>0. Told(D, sl, tx, ot, D, sl, tx, ot)
  BY DEF Told
<1>1. /\ n \in Node /\ ne[n] = q /\ IsRound(r) /\ IsRound(q) /\ r.phase \in Nat
      /\ Follows(r, D, sl, tx, ot) /\ Chain(D, sl, tx, ot) /\ D \in Nat
  BY MoveFrame DEF Story, Chain, Typed, AreRounds, IsRound, Turn, Good
<1>2. CASE n \notin Server
  <2>1. ClientMove(r, msg, q) /\ Tells(msg, D, tx)
    BY <1>1, <1>2, NoMsgProcessable DEF Turn, Story, Tells
  <2>2. Follows(q, D, sl, tx, ot)
    BY <1>1, <2>1, ClientFollows
  <2> QED
    BY <1>0, <2>2, StoryKeep
<1>3. CASE n \in Server
  <2>1. ServerMove(r, msg, q) /\ (r.st = "SHUFFLING" => r.online = DOMAIN r.got)
    BY <1>3 DEF Turn, Ordered, Lockstep
  <2>2. CASE ~Signs(r, msg, q)
    <3>1. Follows(q, D, sl, tx, ot)
      BY <1>1, <2>1, <2>2, ServerFollows
    <3> QED
      BY <1>0, <3>1, StoryKeep
  <2>3. CASE Signs(r, msg, q)
    <3> DEFINE p == r.phase
    <3>1. Heard(nd, ne, n, msg)
      BY <1>1, <1>3, TurnForward, TurnSaid DEF Heard, Forward, Ordered
    <3>2. /\ Same(nd, p) /\ All(nd, p, Past3) /\ q.text = Xored(r.slots, Mines(nd))
      BY <1>1, <2>3, <3>1, SignLockstep
    <3>3. p <= D /\ r.slots = sl[p]
      BY <1>1, <2>3 DEF Follows, Signs, HearsAll, Ended
    <3>4. CASE p < D
      <4>1. D > 0 /\ D - 1 \in Nat
        BY <1>1, <3>4
      <4>2. /\ All(nd, D - 1, Past3)
            /\ Same(nd, D - 1) => tx[D - 1] = Xored(sl[D - 1], Mines(nd))
        BY <4>1 DEF Story
      <4>3. p = D - 1
        BY <1>1, <1>3, <3>4, <4>2 DEF All, Reached
      <4>4. q.text = tx[p]
        <5>1. Same(nd, D - 1)
          BY <3>2, <4>3
        <5>2. tx[p] = Xored(sl[p], Mines(nd))
          BY <4>2, <4>3, <5>1
        <5> QED
          BY <3>2, <3>3, <5>2
      <4>5. Follows(q, D, sl, tx, ot)
        BY <1>1, <2>1, <3>4, <4>4, ServerFollows
      <4> QED
        BY <1>0, <4>5, StoryKeep
    <3>5. CASE p = D
      <4> DEFINE t == Xored(sl[D], Mines(nd))
      <4>0. q.text = t
        BY <3>2, <3>3, <3>5
      <4> HIDE DEF t
      <4>1. PICK sm, ty, ou : /\ Story(nd, ch, D + 1, sm, ty, ou)
                              /\ Adds(D, sl, tx, ot, D + 1, sm, ty, ou, t)
        BY <3>2, <3>5, StoryExtend DEF t
      <4>2. q.text = ty[p] /\ p < D + 1 /\ D + 1 \in Nat
        BY <1>1, <3>5, <4>0, <4>1 DEF Adds
      <4>3. Follows(r, D + 1, sm, ty, ou) /\ Chain(D + 1, sm, ty, ou)
        BY <1>1, <4>1 DEF Story
      <4>4. Follows(q, D + 1, sm, ty, ou)
        BY <1>1, <2>1, <4>2, <4>3, ServerFollows
      <4>5. Story(ne, ce, D + 1, sm, ty, ou)
        BY <4>1, <4>4, StoryKeep
      <4> QED
        BY <1>3, <2>3, <3>5, <4>0, <4>1, <4>5
    <3> QED
      BY <1>1, <3>3, <3>4, <3>5
  <2> QED
    BY <2>2, <2>3
<1> QED
  BY <1>2, <1>3

LEMMA StoryEvent ==
  ASSUME NEW nd, NEW ch, NEW ne, NEW ce, EdgeEvent(nd, ch, ne, ce),
         NEW D, NEW sl, NEW tx, NEW ot, Story(nd, ch, D, sl, tx, ot)
  PROVE  Story(ne, ce, D, sl, tx, ot)
BY DEF EdgeEvent, Harmless, GarbledFrom, Story, Tells

OneStory == \E D, sl, tx, ot : Story(node, chan, D, sl, tx, ot)
Agreement == Synchrony /\ OneStory

LEMMA InitStory ==
  ASSUME Init,
         NEW sl, sl = [p \in Nat |-> NoSlots], NEW tx, tx = [p \in Nat |-> NoText],
         NEW ot, ot = [p \in Nat |-> <<>>]
  PROVE  Story(node, chan, 0, sl, tx, ot)
<1>1. \A n \in Node : /\ Mailbox(node[n]) = {} /\ node[n].st = "SHUFFLING"
                      /\ node[n].phase = 0 /\ node[n].out = <<>>
                      /\ node[n].slots = NoSlots
  BY NewRoundStep DEF Init
<1>2. Mail(chan) = {}
  BY SeqEmpty DEF Mail, Init
<1>3. /\ IsHistory(sl) /\ IsHistory(tx) /\ IsHistory(ot)
      /\ \A p \in Nat : sl[p] = NoSlots /\ ot[p] = <<>>
  BY DEF IsHistory
<1>4. Chain(0, sl, tx, ot)
  <2>1. Prefix(<<>>, <<>>)
    BY DEF Prefix
  <2> QED
    BY <1>3, <2>1, SeqEmpty DEF Chain
<1>5. \A n \in Node : Follows(node[n], 0, sl, tx, ot)
  BY <1>1, <1>3 DEF Follows, Ended
<1> QED
  BY <1>1, <1>2, <1>4, <1>5 DEF Story

LEMMA InitAgreement == Init => Agreement
<1> SUFFICES ASSUME Init PROVE OneStory
  BY InitSynchrony DEF Agreement
<1> DEFINE sl == [p \in Nat |-> NoSlots] tx == [p \in Nat |-> NoText]
           ot == [p \in Nat |-> <<>>]
<1>1. Story(node, chan, 0, sl, tx, ot)
  BY InitStory
<1> QED
  BY <1>1 DEF OneStory

LEMMA NextAgreement ==
  ASSUME Agreement, [Next]_vars
  PROVE  Agreement'
<1>1. Synchrony'
  BY NextSynchrony DEF Agreement
<1>2. PICK D, sl, tx, ot : Story(node, chan, D, sl, tx, ot)
  BY DEF Agreement, OneStory
<1>3. CASE UNCHANGED vars
  BY <1>2, <1>1, <1>3 DEF vars, Agreement, OneStory
<1>4. CASE Next
  <2>1. \A s \in Server : node[s].st # "WAIT_FOR_CLEARTEXT"
    BY DEF Agreement, Synchrony, Ordered, Lockstep
  <2>2. CASE EdgeEvent(node, chan, node', chan')
    <3>1. Story(node', chan', D, sl, tx, ot)
      BY <1>2, <2>2, StoryEvent
    <3> QED
      BY <1>1, <3>1 DEF Agreement, OneStory
  <2>3. CASE \E n, msg, z : Turn(node, chan, node', chan', n, msg, z)
    <3>1. \E E, sm, ty, ou : Story(node', chan', E, sm, ty, ou)
      BY <1>2, <2>3, StoryTurn DEF Agreement, Synchrony
    <3> QED
      BY <1>1, <3>1 DEF Agreement, OneStory
  <2> QED
    BY <1>4, <2>1, <2>2, <2>3, NextTurns DEF Agreement, Synchrony
<1> QED
  BY <1>3, <1>4

\* In every phase there is one list of clients and one cleartext: what a server has
\* come to, and what is on its way to it, are part of that one story.
THEOREM AgreementInvariant == Spec => []Agreement
<1>1. Init => Agreement
  BY InitAgreement
<1>2. Agreement /\ [Next]_vars => Agreement'
  BY NextAgreement
<1> QED
  BY <1>1, <1>2, PTL DEF Spec

\* Servers that sign in the same phase sign the same cleartext for the same clients.
THEOREM OneCleartext == Spec => []SameCleartext
<1>1. Agreement => SameCleartext
  <2> SUFFICES ASSUME Agreement, NEW s \in Server, NEW t \in Server,
                      node[s].st = "WAIT_FOR_SERVER_VALIDATION",
                      node[t].st = "WAIT_FOR_SERVER_VALIDATION",
                      node[s].phase = node[t].phase
               PROVE  node[s].text = node[t].text /\ node[s].online = node[t].online
    BY DEF SameCleartext
  <2>1. PICK D, sl, tx, ot : Story(node, chan, D, sl, tx, ot)
    BY DEF Agreement, OneStory
  <2>2. Follows(node[s], D, sl, tx, ot) /\ Follows(node[t], D, sl, tx, ot)
    BY <2>1 DEF Story, Node
  <2>3. node[s].text = node[t].text
    BY <2>2 DEF Follows
  <2>4. node[s].online = node[t].online
    BY DEF Agreement, Synchrony, Ordered, SameLists, Listed
  <2> QED
    BY <2>3, <2>4
<1> QED
  BY <1>1, AgreementInvariant, PTL

-----------------------------------------------------------------------------
(* The exchange implements PhaseBroadcast. *)

LEMMA MoveOut ==
  ASSUME NEW r, NEW q, NEW msg, ServerMove(r, msg, q) \/ ClientMove(r, msg, q)
  PROVE  q.out = r.out \/ \E b : q.out = Append(r.out, b)
<1>1. CASE \/ NextPhased(r, msg, q) \/ Blames(r, msg, q) \/ ClientPasses(r, msg, q)
  <2>1. \E slots, text : q.out = OutAfter(r.out, slots, text)
    BY <1>1 DEF NextPhased, Blames, Passes, ClientPasses
  <2> QED
    BY <2>1 DEF OutAfter
<1>2. CASE ~(NextPhased(r, msg, q) \/ Blames(r, msg, q) \/ ClientPasses(r, msg, q))
  BY <1>2 DEF ServerMove, ClientMove, Keeps, Quiet, Stops, HearsClient, ClosesWindow,
     Collects, HearsList, Commits, HearsCommit, Reveals, HearsCipher, Signs,
     HearsSignature, Hears, HearsAll, Opens, ClientOpens
<1> QED
  BY <1>1, <1>2

\* Any two nodes were given beginnings of one sequence.
LEMMA OneSequence ==
  ASSUME NEW nd, NEW ch, AreRounds(nd), \E D, sl, tx, ot : Story(nd, ch, D, sl, tx, ot),
         NEW m \in Node, NEW n \in Node,
         NEW i \in Nat, 1 <= i, i <= Len(nd[m].out), i <= Len(nd[n].out)
  PROVE  nd[m].out[i] = nd[n].out[i]
<1>1. PICK D, sl, tx, ot : Story(nd, ch, D, sl, tx, ot)
  OBVIOUS
<1>2. ASSUME NEW k \in Node
      PROVE  \E p \in Nat : p <= D /\ nd[k].out = ot[p]
  <2> DEFINE r == nd[k]
  <2>1. r.phase \in Nat /\ D \in Nat /\ Follows(r, D, sl, tx, ot)
    BY <1>1 DEF Story, Chain, AreRounds, IsRound
  <2> HIDE DEF r
  <2>2. r.phase <= D
    BY <2>1 DEF Follows
  <2>3. CASE r.out = ot[r.phase]
    BY <2>1, <2>2, <2>3 DEF r
  <2>4. CASE r.phase < D /\ r.out = ot[r.phase + 1]
    <3>1. r.phase + 1 \in Nat /\ r.phase + 1 <= D
      BY <2>1, <2>4
    <3> QED
      BY <2>4, <3>1 DEF r
  <2> QED
    BY <2>1, <2>3, <2>4 DEF Follows
<1>3. PICK p \in Nat : p <= D /\ nd[m].out = ot[p]
  BY <1>2
<1>4. PICK k \in Nat : k <= D /\ nd[n].out = ot[k]
  BY <1>2
<1>5. /\ p <= k => Prefix(ot[p], ot[k])
      /\ k <= p => Prefix(ot[k], ot[p])
  BY <1>1, <1>3, <1>4 DEF Story, Chain
<1>6. Len(ot[p]) \in Nat /\ Len(ot[k]) \in Nat
  <2>1. IsSeq(ot[p]) /\ IsSeq(ot[k])
    BY <1>1, <1>3, <1>4 DEF Story, Chain
  <2> QED
    BY <2>1 DEF IsSeq
<1>7. i \in 1..Len(ot[p]) /\ i \in 1..Len(ot[k])
  BY <1>3, <1>4, <1>6
<1> QED
  BY <1>3, <1>4, <1>5, <1>7 DEF Prefix

LEMMA NextBroadcast ==
  ASSUME Agreement, Agreement', [Next]_vars
  PROVE  [Broadcast!Next]_Outputs
<1>1. CASE UNCHANGED vars
  BY <1>1 DEF vars, Outputs
<1>2. CASE EdgeEvent(node, chan, node', chan')
  BY <1>2 DEF EdgeEvent, Outputs
<1>3. ASSUME NEW n, NEW msg, NEW z, Turn(node, chan, node', chan', n, msg, z)
      PROVE  [Broadcast!Next]_Outputs
  <2>1. /\ n \in Node /\ node' = [m \in Node |-> node'[m]] /\ node'[n] = z.r
        /\ \A m \in Node : m # n => node'[m] = node[m]
    BY <1>3, MoveFrame DEF Agreement, Synchrony
  <2>2. z.r.out = node[n].out \/ \E b : z.r.out = Append(node[n].out, b)
    <3>1. ServerMove(node[n], msg, z.r) \/ ClientMove(node[n], msg, z.r)
      BY <1>3 DEF Turn
    <3> QED
      BY <3>1, MoveOut, ZenonT(60)
  <2>3. CASE z.r.out = node[n].out
    <3>1. \A m \in Node : node'[m].out = node[m].out
      BY <2>1, <2>3
    <3> QED
      BY <3>1 DEF Outputs
  <2>4. CASE \E b : z.r.out = Append(node[n].out, b)
    <3>1. PICK b : z.r.out = Append(node[n].out, b)
      BY <2>4
    <3> DEFINE k == Len(node[n].out) + 1
    <3>2. IsSeq(node[n].out)
      BY <2>1 DEF Agreement, Synchrony, Typed, AreRounds, IsRound
    <3>3. Len(z.r.out) = k /\ z.r.out[k] = b /\ k \in Nat /\ 1 <= k
      BY <3>1, <3>2, SeqAppend DEF IsSeq
    <3>4. /\ Outputs = [m \in Node |-> node[m].out]
          /\ Outputs' = [m \in Node |-> node'[m].out]
      BY DEF Outputs
    <3>5. /\ Outputs[n] = node[n].out /\ Outputs'[n] = z.r.out
          /\ \A m \in Node : Outputs[m] = node[m].out
          /\ \A m \in Node : m # n => Outputs'[m] = Outputs[m]
      BY <2>1, <3>4
    <3>6. Outputs' = [Outputs EXCEPT ![n] = Append(@, Outputs'[n][k])]
      <4> DEFINE o == Append(Outputs[n], Outputs'[n][k])
      <4>1. Outputs'[n] = o
        BY <3>1, <3>3, <3>5
      <4> HIDE DEF o, k
      <4>2. Outputs' = [Outputs EXCEPT ![n] = o]
        BY <2>1, <3>4, <3>5, <4>1
      <4> QED
        BY <4>2 DEF o
    <3>7. ASSUME NEW m \in Node, Len(Outputs[m]) >= k
          PROVE  Outputs[m][k] = Outputs'[n][k]
      <4>1. m # n
        BY <3>2, <3>3, <3>5, <3>7 DEF IsSeq
      <4>2. node'[m].out = node[m].out
        BY <2>1, <4>1
      <4>3. IsSeq(node[m].out)
        BY DEF Agreement, Synchrony, Typed, AreRounds, IsRound
      <4>4. k <= Len(node'[m].out) /\ k <= Len(node'[n].out)
        BY <2>1, <3>3, <3>5, <3>7, <4>2, <4>3 DEF IsSeq
      <4>5. node'[m].out[k] = node'[n].out[k]
        <5>1. ASSUME NEW i \in Nat, 1 <= i, i <= Len(node'[m].out), i <= Len(node'[n].out)
              PROVE  node'[m].out[i] = node'[n].out[i]
          <6>1. AreRounds(node') /\ \E D, sl, tx, ot : Story(node', chan', D, sl, tx, ot)
            BY DEF Agreement, OneStory, Synchrony, Typed
          <6> QED
            BY <2>1, <5>1, <6>1, OneSequence
        <5> QED
          BY <3>3, <4>4, <5>1
      <4> QED
        BY <2>1, <3>5, <4>2, <4>5
    <3>8. Broadcast!Give(n)
      BY <3>3, <3>5, <3>6, <3>7 DEF Broadcast!Give
    <3> QED
      BY <2>1, <3>8 DEF Broadcast!Next
  <2> QED
    BY <2>2, <2>3, <2>4
<1>4. \A s \in Server : node[s].st # "WAIT_FOR_CLEARTEXT"
  BY DEF Agreement, Synchrony, Ordered, Lockstep
<1> QED
  BY <1>1, <1>2, <1>3, <1>4, NextTurns DEF Agreement, Synchrony

\* All nodes are given one sequence of batches, each at its own speed: the exchange
\* implements PhaseBroadcast, however its messages interleave.
THEOREM Broadcasts == Spec => BroadcastSpec
<1>1. Init => Broadcast!Init
  <2> SUFFICES ASSUME Init PROVE Outputs = [n \in Node |-> <<>>]
    BY DEF Broadcast!Init
  <2>1. \A n \in Node : node[n].out = <<>>
    BY NewRoundStep DEF Init
  <2> QED
    BY <2>1 DEF Outputs
<1>2. Agreement /\ Agreement' /\ [Next]_vars => [Broadcast!Next]_Outputs
  BY NextBroadcast
<1> QED
  BY <1>1, <1>2, AgreementInvariant, PTL DEF Spec, BroadcastSpec, Broadcast!Spec
-----------------------------------------------------------------------------
(* The pads cancel.  Once the lists are exchanged, what a server has computed *)
(* or has been sent carries the pads of the sender's share, for the one list  *)
(* that all have, as long as all are in that phase.                           *)

ShareOf(nd, u, p, t) ==
  Same(nd, p) => PadsOf(t.bits) = Shares(u, p, Lists(nd, Server), DOMAIN nd[u].got)

Sealed(nd, x) == x.type = "SERVER_CIPHERTEXT" => ShareOf(nd, x.from, x.phase, x.body)

Veils(nd, s) ==
  LET r == nd[s]
      p == nd[s].phase
  IN /\ Padded(s, r) /\ PadsOf(r.text.bits) = {}
     /\ r.st \in Listed => ShareOf(nd, s, p, r.mine)
     /\ r.st = "WAIT_FOR_SERVER_CIPHERTEXT" =>
          \A u \in r.heard : ShareOf(nd, u, p, r.ciphers[u])

Veiled(nd, ch) ==
  /\ \A s \in Server : Veils(nd, s)
  /\ \A x \in Mail(ch) : Sealed(nd, x)
  /\ \A n \in Node : \A x \in Mailbox(nd[n]) : Sealed(nd, x)

LEMMA ShareKept ==
  ASSUME NEW nd, NEW ne, Forward(nd, ne), NEW p \in Nat, NEW u \in Server,
         All(nd, p, Past1), NEW t, ShareOf(nd, u, p, t)
  PROVE  ShareOf(ne, u, p, t)
<1> SUFFICES ASSUME Same(ne, p)
             PROVE  PadsOf(t.bits) = Shares(u, p, Lists(ne, Server), DOMAIN ne[u].got)
  BY DEF ShareOf
<1>1. \A v \in Server : Reached(nd[v], p, Past1) /\ ne[v].phase = p
  BY DEF All, Same
<1>2. Lists(ne, Server) = Lists(nd, Server) /\ Same(nd, p)
  BY <1>1, ListsStay DEF Same
<1>3. DOMAIN ne[u].got = DOMAIN nd[u].got
  BY <1>1, Stay
<1> QED
  BY <1>2, <1>3 DEF ShareOf

LEMMA SealedKept ==
  ASSUME NEW nd, NEW ne, Forward(nd, ne), NEW x, x.phase \in Nat, Said(nd, x), Sealed(nd, x)
  PROVE  Sealed(ne, x)
<1> SUFFICES ASSUME x.type = "SERVER_CIPHERTEXT"
             PROVE  ShareOf(ne, x.from, x.phase, x.body)
  BY DEF Sealed
<1>1. x.from \in Server /\ All(nd, x.phase, Past2)
  BY DEF Said, ServerTypes
<1>2. All(nd, x.phase, Past1)
  BY <1>1 DEF All, Reached, Past1
<1> QED
  BY <1>1, <1>2, ShareKept DEF Sealed

\* A server that does not move.
LEMMA VeilsKept ==
  ASSUME NEW nd, NEW ne, Forward(nd, ne), NEW s \in Server, Lockstep(nd, s),
         Veils(nd, s), ne[s] = nd[s]
  PROVE  Veils(ne, s)
<1> DEFINE r == nd[s] p == r.phase
<1>1. p \in Nat /\ (r.st \in Listed => All(nd, p, Past1))
  BY DEF Forward, Phases, Lockstep
<1>2. r.st \in Listed => ShareOf(ne, s, p, r.mine)
  BY <1>1, ShareKept DEF Veils
<1>3. ASSUME r.st = "WAIT_FOR_SERVER_CIPHERTEXT"
      PROVE  \A u \in r.heard : ShareOf(ne, u, p, r.ciphers[u])
  <2>1. r.heard \subseteq Server /\ All(nd, p, Past1)
    BY <1>1, <1>3 DEF Lockstep, Exchange, Listed
  <2>2. \A u \in r.heard : ShareOf(nd, u, p, r.ciphers[u])
    BY <1>3 DEF Veils
  <2> QED
    BY <1>1, <2>1, <2>2, ShareKept
<1> QED
  BY <1>2, <1>3 DEF Veils

\* What a server signs is the XOR of all shares.
LEMMA SignedVeil ==
  ASSUME NEW nd, NEW ne, NEW n, NEW msg, Heard(nd, ne, n, msg), Signs(nd[n], msg, ne[n]),
         \A s \in Server : Veils(nd, s), Sealed(nd, msg)
  PROVE  PadsOf(ne[n].text.bits) = {}
<1> DEFINE r == nd[n] p == r.phase m == msg.from
           ciphers == [r.ciphers EXCEPT ![m] = msg.body]
           f == [t \in Server |-> ciphers[t].bits]
           G == [u \in Server |-> DOMAIN nd[u].got]
           L == Lists(nd, Server)
<1>1. /\ r.st = "WAIT_FOR_SERVER_CIPHERTEXT" /\ msg.type = "SERVER_CIPHERTEXT"
      /\ msg.phase = p /\ r.heard \cup {m} = Server
      /\ ne[n].text = Xored(r.slots, ciphers)
      /\ r.ciphers = [s \in Server |-> r.ciphers[s]] /\ n \in Server
  BY DEF Signs, HearsAll, Heard, IsRound
<1>2. Same(nd, p)
  BY SignLockstep
<1>3. \A u \in r.heard : PadsOf(r.ciphers[u].bits) = Shares(u, p, L, DOMAIN nd[u].got)
  BY <1>1, <1>2 DEF Veils, ShareOf
<1>4. PadsOf(msg.body.bits) = Shares(m, p, L, DOMAIN nd[m].got)
  BY <1>1, <1>2 DEF Sealed, ShareOf
<1>5. \A u \in Server : ciphers[u] = IF u = m THEN msg.body ELSE r.ciphers[u]
  BY <1>1
<1>6. \A u \in Server : PadsOf(ciphers[u].bits) = Shares(u, p, L, G[u])
  <2> HIDE DEF ciphers, L
  <2> QED
    BY <1>1, <1>3, <1>4, <1>5
<1>7. \A u \in Server : \A c \in G[u] : Home[c] = u
  BY DEF Veils, Padded
<1>8. L = UNION {G[u] : u \in Server}
  BY DEF Lists
<1> HIDE DEF ciphers, L
<1>9. PadsOf(XorAll(f)) = {}
  <2>1. DOMAIN f = Server /\ \A u \in Server : PadsOf(f[u]) = Shares(u, p, L, G[u])
    BY <1>6
  <2>2. G = [u \in Server |-> G[u]]
    OBVIOUS
  <2> HIDE DEF f, G, p
  <2> QED
    BY <1>7, <1>8, <2>1, <2>2, SharesCancel, SMTT(40)
<1>10. ne[n].text.bits = XorAll(f)
  BY <1>1 DEF Xored, Text
<1> QED
  BY <1>9, <1>10

\* The server that moves.
LEMMA MoveVeils ==
  ASSUME NEW nd, NEW ne, NEW n, NEW msg, Heard(nd, ne, n, msg), Lockstep(ne, n),
         ServerMove(nd[n], msg, ne[n]), Seals(n, nd[n], msg, ne[n]), Masked(msg),
         \A s \in Server : Veils(nd, s), Sealed(nd, msg)
  PROVE  Veils(ne, n)
<1> DEFINE r == nd[n] q == ne[n] p == r.phase
<1>1. n \in Server /\ p \in Nat /\ Forward(nd, ne) /\ Veils(nd, n) /\ Lockstep(nd, n)
  BY DEF Heard, Phases
<1>2. Padded(n, q)
  BY <1>1 DEF Veils, Seals
<1>3. PadsOf(q.text.bits) = {}
  BY <1>1, SignedVeil DEF Veils, Seals
<1>4. CASE Commits(r, msg, q)
  <2>1. /\ q.st = "WAIT_FOR_SERVER_COMMITS" /\ r.st # q.st
        /\ Same(ne, q.phase) => q.online = Lists(ne, Server)
    BY <1>4 DEF Commits, HearsAll, Lockstep, Listed
  <2>2. PadsOf(q.mine.bits) = Shares(n, q.phase, q.online, DOMAIN q.got)
    BY <1>1, <2>1 DEF Seals, Veils
  <2>3. ShareOf(ne, n, q.phase, q.mine)
    BY <2>1, <2>2 DEF ShareOf
  <2> QED
    BY <1>2, <1>3, <2>1, <2>3 DEF Veils
<1>5. CASE ~Commits(r, msg, q)
  <2>1. q.st \in Listed => r.st \in Listed /\ q.phase = p /\ q.mine = r.mine
    BY <1>5 DEF ServerMove, Listed, Keeps, Quiet, Stops, HearsClient, ClosesWindow, Collects,
       HearsList, HearsCommit, Reveals, HearsCipher, Signs, HearsSignature, Hears,
       HearsAll, NextPhased, Blames, Opens, InWindow, Heard, Lockstep
  <2>2. r.st \in Listed => All(nd, p, Past1) /\ ShareOf(nd, n, p, r.mine)
    BY <1>1 DEF Lockstep, Veils
  <2>3. q.st \in Listed => ShareOf(ne, n, q.phase, q.mine)
    BY <1>1, <2>1, <2>2, ShareKept
  <2>4. ASSUME q.st = "WAIT_FOR_SERVER_CIPHERTEXT"
        PROVE  \A u \in q.heard : ShareOf(ne, u, p, q.ciphers[u])
    <3>1. \/ Quiet(r, q) \/ q.heard = {} \/ HearsCipher(r, msg, q)
      BY <1>5, <2>4 DEF ServerMove, Stops, HearsClient, ClosesWindow, Collects, HearsList,
         HearsCommit, Reveals, Signs, HearsSignature, Hears, HearsAll, NextPhased, Blames,
         Opens, InWindow, Heard, Lockstep
    <3>2. CASE Quiet(r, q)
      <4>1. /\ r.st = "WAIT_FOR_SERVER_CIPHERTEXT" /\ q.heard = r.heard
            /\ q.ciphers = r.ciphers
        BY <2>4, <3>2 DEF Quiet
      <4>2. /\ r.heard \subseteq Server /\ All(nd, p, Past1)
            /\ \A u \in r.heard : ShareOf(nd, u, p, r.ciphers[u])
        BY <1>1, <2>2, <4>1 DEF Lockstep, Exchange, Listed, Veils
      <4> QED
        BY <1>1, <4>1, <4>2, ShareKept
    <3>3. CASE HearsCipher(r, msg, q)
      <4> DEFINE m == msg.from
      <4>1. /\ r.st = "WAIT_FOR_SERVER_CIPHERTEXT" /\ q.heard = r.heard \cup {m}
            /\ msg.type = "SERVER_CIPHERTEXT" /\ msg.phase = p
            /\ q.ciphers = [r.ciphers EXCEPT ![m] = msg.body]
            /\ r.ciphers = [s \in Server |-> r.ciphers[s]]
        BY <3>3 DEF HearsCipher, Hears, Heard, IsRound
      <4>2. /\ r.heard \subseteq Server /\ All(nd, p, Past1)
            /\ \A u \in r.heard : ShareOf(nd, u, p, r.ciphers[u])
        BY <1>1, <2>2, <4>1 DEF Lockstep, Exchange, Listed, Veils
      <4>3. m \in Server /\ ShareOf(nd, m, p, msg.body)
        BY <4>1 DEF Heard, Said, ServerTypes, Sealed
      <4>4. \A u \in q.heard : u \in Server /\ ShareOf(nd, u, p, q.ciphers[u])
        <5>1. \A u \in Server : q.ciphers[u] = IF u = m THEN msg.body ELSE r.ciphers[u]
          BY <4>1
        <5> HIDE DEF m, q, r
        <5> QED
          BY <4>1, <4>2, <4>3, <5>1
      <4> QED
        BY <1>1, <4>2, <4>4, ShareKept
    <3> QED
      BY <3>1, <3>2, <3>3
  <2>5. q.st = "WAIT_FOR_SERVER_CIPHERTEXT" => q.phase = p
    BY <2>1 DEF Listed
  <2> QED
    BY <1>2, <1>3, <2>3, <2>4, <2>5 DEF Veils
<1> QED
  BY <1>4, <1>5

LEMMA TurnVeiled ==
  ASSUME NEW nd, NEW ch, NEW ne, NEW ce, NEW n, NEW msg, NEW z, Typed(nd, ch),
         Ordered(nd, ch), Veiled(nd, ch), Turn(nd, ch, ne, ce, n, msg, z)
  PROVE  Veiled(ne, ce)
<1>1. /\ n \in Node /\ ne = [m \in Node |-> ne[m]] /\ ne[n] = z.r
      /\ \A m \in Node : m # n => ne[m] = nd[m]
  BY MoveFrame
<1>2. /\ Forward(nd, ne) /\ Said(nd, msg) /\ msg.phase \in Nat /\ Processable(msg)
      /\ Ordered(ne, ce)
  BY TurnForward, TurnSaid, TurnOrdered
<1>3. \A s \in Server : s \in Node /\ Lockstep(nd, s) /\ Lockstep(ne, s) /\ Veils(nd, s)
  BY <1>2 DEF Ordered, Node, Veiled
<1>4. Sealed(nd, msg)
  BY NoMsgProcessable DEF Turn, Veiled, Sealed
<1>5. n \in Server =>
        /\ Heard(nd, ne, n, msg) /\ ServerMove(nd[n], msg, ne[n])
        /\ Seals(n, nd[n], msg, ne[n])
  BY <1>1, <1>2, <1>3 DEF Heard, Typed, AreRounds, Turn, Good, Forward
<1>6. n \in Server => Veils(ne, n)
  BY <1>2, <1>3, <1>4, <1>5, MoveVeils DEF Processable
<1>7. \A s \in Server : s # n => Veils(ne, s)
  BY <1>1, <1>2, <1>3, VeilsKept
<1>8. ASSUME NEW x, x.phase \in Nat, Said(nd, x), Sealed(nd, x)
      PROVE  Sealed(ne, x)
  BY <1>2, <1>8, SealedKept
<1>9. \A x \in Uttered(z.out) : Sealed(ne, x)
  <2> TAKE x \in Uttered(z.out)
  <2>1. Utters(n, nd[n], ne[n], x)
    BY <1>1 DEF Turn, Good, Says, Uttered
  <2>2. CASE x.type # "SERVER_CIPHERTEXT"
    BY <2>2 DEF Sealed
  <2>3. CASE x.type = "SERVER_CIPHERTEXT"
    <3>1. /\ ne[n].st = "WAIT_FOR_SERVER_CIPHERTEXT" /\ n \in Server /\ x.from = n
          /\ x.phase = ne[n].phase /\ x.body = ne[n].mine
      BY <2>1, <2>3 DEF Utters
    <3>2. ShareOf(ne, n, ne[n].phase, ne[n].mine)
      BY <1>6, <3>1 DEF Veils, Listed
    <3> QED
      BY <3>1, <3>2 DEF Sealed
  <2> QED
    BY <2>2, <2>3
<1>10. \A x \in Mail(ce) : Sealed(ne, x)
  BY <1>8, <1>9 DEF Typed, Ordered, Mailed, Turn, IsMail, Veiled
<1>11. \A m \in Node : \A x \in Mailbox(ne[m]) : Sealed(ne, x)
  <2> TAKE m \in Node
  <2> TAKE x \in Mailbox(ne[m])
  <2>1. x \in Mailbox(nd[m]) \/ x = msg
    BY <1>1 DEF Turn, Good
  <2>2. CASE x \in Mailbox(nd[m])
    BY <1>8, <2>2 DEF Typed, AreRounds, Processable, Ordered, Mailed, Veiled
  <2>3. CASE x = msg
    BY <1>2, <1>4, <1>8, <2>3
  <2> QED
    BY <2>1, <2>2, <2>3
<1> QED
  BY <1>6, <1>7, <1>10, <1>11 DEF Veiled

Masking == Synchrony /\ Veiled(node, chan)

LEMMA InitMasking == Init => Masking
<1> SUFFICES ASSUME Init PROVE Veiled(node, chan)
  BY InitSynchrony DEF Masking
<1>1. \A n \in Node : /\ Mailbox(node[n]) = {} /\ node[n].st = "SHUFFLING"
                      /\ DOMAIN node[n].got = {}
  BY NewRoundStep DEF Init
<1>2. Mail(chan) = {}
  BY SeqEmpty DEF Mail, Init
<1>3. \A n \in Node : node[n].allowed = {c \in Client : Home[c] = n} /\ node[n].text.bits = {}
  BY DEF Init, NewRound, NoText, Text
<1>4. \A s \in Server : Padded(s, node[s]) /\ PadsOf(node[s].text.bits) = {}
  BY <1>1, <1>3 DEF Padded, PadsOf, Node
<1> QED
  BY <1>1, <1>2, <1>4 DEF Veiled, Veils, Listed, Node

LEMMA NextMasking ==
  ASSUME Masking, [Next]_vars
  PROVE  Masking'
<1>1. Synchrony'
  BY NextSynchrony DEF Masking
<1>2. CASE UNCHANGED vars
  BY <1>1, <1>2 DEF vars, Masking
<1>3. CASE Next
  <2>1. \A s \in Server : node[s].st # "WAIT_FOR_CLEARTEXT"
    BY DEF Masking, Synchrony, Ordered, Lockstep
  <2>2. CASE EdgeEvent(node, chan, node', chan')
    <3>1. Veiled(node', chan')
      BY <2>2 DEF EdgeEvent, Harmless, GarbledFrom, Masking, Veiled, Sealed
    <3> QED
      BY <1>1, <3>1 DEF Masking
  <2>3. CASE \E n, msg, z : Turn(node, chan, node', chan', n, msg, z)
    <3>1. Veiled(node', chan')
      BY <2>3, TurnVeiled DEF Masking, Synchrony
    <3> QED
      BY <1>1, <3>1 DEF Masking
  <2> QED
    BY <1>3, <2>1, <2>2, <2>3, NextTurns DEF Masking, Synchrony
<1> QED
  BY <1>2, <1>3

\* In every cleartext that a server computes (SubmitValidation) all pads have
\* cancelled: what is left are the clients' own bits.
THEOREM CleartextsAreClear == Spec => []PadsCancel
<1>1. Init => Masking
  BY InitMasking
<1>2. Masking /\ [Next]_vars => Masking'
  BY NextMasking
<1>3. Masking => PadsCancel
  BY DEF Masking, Veiled, Veils, PadsCancel, PadsOf
<1> QED
  BY <1>1, <1>2, <1>3, PTL DEF Spec

-----------------------------------------------------------------------------
(* Messages arrive in order.  Whatever stands for a client in what a server   *)
(* has, in what is under way and in the cleartexts of the story is what the   *)
(* client wrote in that phase, and carries the message after those that       *)
(* everybody has been given of it.                                            *)

\* x was written by its client in its phase, which it has not forgotten.
Genuine(nd, sl, ot, x) ==
  LET r == nd[x.c]
  IN /\ x.c \in Node \ Server /\ x.p \in Nat /\ x.p <= r.phase /\ r.st # "SHUFFLING"
     /\ r.st = "WAIT_FOR_CLEARTEXT" /\ r.phase = x.p => x \in OwnBits(x.c, r)
     /\ x.is = "slot" /\ sl[x.p][x.c] > 0 =>
          x.accuse \/ x.msg = 0 \/ x.msg = Total(ot[x.p], x.c) + 1

\* All data in the array b of phase p is of that phase and was written.
Real(nd, sl, ot, b, p) == \A x \in Data(b) : x.p = p /\ Genuine(nd, sl, ot, x)
RealMsg(nd, sl, ot, x) ==
  x.type \in {"CLIENT_CIPHERTEXT", "SERVER_CIPHERTEXT"} =>
    Real(nd, sl, ot, x.body.bits, x.phase)

\* What a server with round r has.
Holds(nd, sl, ot, r) ==
  /\ \A c \in DOMAIN r.got : Real(nd, sl, ot, r.got[c].bits, r.phase)
  /\ r.st \in Listed => Real(nd, sl, ot, r.mine.bits, r.phase)
  /\ r.st = "WAIT_FOR_SERVER_CIPHERTEXT" =>
       \A u \in r.heard : Real(nd, sl, ot, r.ciphers[u].bits, r.phase)

\* The batches with a message of c carry them in order.
OutInOrder(out, c) ==
  \A i \in 1..Len(out) : \A x \in out[i] :
    x[1] = c => x[2] = 0 \/ x[2] = Cardinality({j \in Batches(out, c) : j <= i})

Tracked(nd, ch, D, sl, tx, ot) ==
  /\ \A c \in Node \ Server : Remembers(c, nd[c])
  /\ \A s \in Server : Holds(nd, sl, ot, nd[s])
  /\ \A x \in Mail(ch) : RealMsg(nd, sl, ot, x)
  /\ \A n \in Node : \A x \in Mailbox(nd[n]) : RealMsg(nd, sl, ot, x)
  /\ \A p \in Nat : p < D => Real(nd, sl, ot, tx[p].bits, p)
  /\ \A p \in Nat : p <= D => \A c \in Client : OutInOrder(ot[p], c)

\* Node n moves, and the story may have got longer.
Moves(nd, ne, n, msg, D, sl, ot, sm, ou) ==
  /\ n \in Node /\ D \in Nat /\ \A m \in Node : m # n => ne[m] = nd[m]
  /\ \A m \in Node : nd[m].phase \in Nat /\ nd[m].phase <= D
  /\ n \notin Server => ClientMove(nd[n], msg, ne[n]) /\ Owned(n, nd[n], msg, ne[n])
  /\ \A p \in Nat : p <= D => sm[p] = sl[p] /\ ou[p] = ot[p]

LEMMA GenuineStays ==
  ASSUME NEW nd, NEW ne, NEW n, NEW msg, NEW D, NEW sl, NEW ot, NEW sm, NEW ou,
         Moves(nd, ne, n, msg, D, sl, ot, sm, ou), NEW x, Genuine(nd, sl, ot, x)
  PROVE  Genuine(ne, sm, ou, x)
<1> DEFINE c == x.c r == nd[c] q == ne[c]
<1>1. /\ c \in Node /\ c \notin Server /\ x.p \in Nat /\ x.p <= r.phase /\ r.st # "SHUFFLING"
      /\ r.st = "WAIT_FOR_CLEARTEXT" /\ r.phase = x.p => x \in OwnBits(c, r)
  BY DEF Genuine
<1>2. r.phase \in Nat /\ r.phase <= D /\ D \in Nat
  BY <1>1 DEF Moves
<1>3. sm[x.p] = sl[x.p] /\ ou[x.p] = ot[x.p]
  BY <1>1, <1>2 DEF Moves
<1>4. /\ x.p <= q.phase /\ q.st # "SHUFFLING"
      /\ q.st = "WAIT_FOR_CLEARTEXT" /\ q.phase = x.p => x \in OwnBits(c, q)
  <2>1. CASE c # n
    BY <1>1, <2>1 DEF Moves
  <2>2. CASE c = n
    <3>1. /\ ClientMove(r, msg, q)
          /\ r.st = "WAIT_FOR_CLEARTEXT" /\ q.st = r.st /\ q.phase = r.phase =>
               OwnBits(c, q) = OwnBits(c, r)
      BY <1>1, <2>2 DEF Moves, Owned
    <3> HIDE DEF c, r, q
    <3>2. CASE Quiet(r, q)
      BY <1>1, <3>1, <3>2 DEF Quiet, Keeps
    <3>3. CASE Stops(r, q)
      BY <1>1, <3>3 DEF Stops, Keeps
    <3>4. CASE ClientPasses(r, msg, q)
      BY <1>1, <1>2, <3>1, <3>4 DEF ClientPasses
    <3> QED
      BY <1>1, <3>1, <3>2, <3>3, <3>4 DEF ClientMove, ClientOpens
  <2> QED
    BY <2>1, <2>2
<1>5. x.is = "slot" /\ sm[x.p][c] > 0 =>
        x.accuse \/ x.msg = 0 \/ x.msg = Total(ou[x.p], c) + 1
  BY <1>3 DEF Genuine
<1> QED
  BY <1>1, <1>4, <1>5 DEF Genuine

LEMMA RealStays ==
  ASSUME NEW nd, NEW ne, NEW n, NEW msg, NEW D, NEW sl, NEW ot, NEW sm, NEW ou,
         Moves(nd, ne, n, msg, D, sl, ot, sm, ou)
  PROVE  /\ \A b, p : Real(nd, sl, ot, b, p) => Real(ne, sm, ou, b, p)
         /\ \A x : RealMsg(nd, sl, ot, x) => RealMsg(ne, sm, ou, x)
         /\ \A r : Holds(nd, sl, ot, r) => Holds(ne, sm, ou, r)
<1>1. ASSUME NEW b, NEW p, Real(nd, sl, ot, b, p) PROVE Real(ne, sm, ou, b, p)
  BY <1>1, GenuineStays DEF Real
<1> QED
  BY <1>1 DEF RealMsg, Holds

\* What a client says it writes in this phase is genuine.
LEMMA OwnGenuine ==
  ASSUME NEW nd, NEW sl, NEW ot, NEW c \in Client, c \notin Server,
         nd[c].st = "WAIT_FOR_CLEARTEXT", Remembers(c, nd[c]), nd[c].phase \in Nat,
         nd[c].slots = sl[nd[c].phase], nd[c].out = ot[nd[c].phase],
         NEW x \in OwnBits(c, nd[c])
  PROVE  x.p = nd[c].phase /\ Genuine(nd, sl, ot, x)
<1> DEFINE r == nd[c]
<1>1. InMemory(c, r) /\ c \in Node
  BY DEF Remembers, Node
<1>2. \/ x = Open(c, r.phase)
      \/ /\ r.open /\ r.read
         /\ x = Slot(c, r.phase, SlotHeaderLength + IF r.accuse THEN 0 ELSE r.next,
                     r.last, r.accuse)
  BY DEF OwnBits
<1>3. x.c = c /\ x.p = r.phase
  BY <1>2, OpenIs, SlotIs
<1>4. x.is = "slot" => r.open /\ r.read /\ x.msg = r.last /\ x.accuse = r.accuse
  BY <1>2, OpenIs, SlotIs
<1>5. ASSUME x.is = "slot", r.slots[c] > 0, ~x.accuse
      PROVE  x.msg = 0 \/ x.msg = Total(r.out, c) + 1
  <2>1. Numbered(c, r)
    BY <1>1, <1>4, <1>5 DEF InMemory
  <2> QED
    BY <1>4, <1>5, <2>1 DEF Numbered
<1> QED
  BY <1>1, <1>3, <1>5 DEF Genuine

\* A server that hears what is real has what is real.
LEMMA MoveHolds ==
  ASSUME NEW nd, NEW sl, NEW ot, NEW r, NEW msg, NEW q, Holds(nd, sl, ot, r),
         RealMsg(nd, sl, ot, msg), ServerMove(r, msg, q), Relays(r, msg, q), IsRound(r),
         r.st = "SHUFFLING" => r.online = DOMAIN r.got,
         r.st = "WAIT_FOR_SERVER_CIPHERTEXT" => r.heard \subseteq Server,
         msg.type = "SERVER_CIPHERTEXT" => msg.from \in Server
  PROVE  Holds(nd, sl, ot, q)
<1>1. \A c \in DOMAIN q.got : Real(nd, sl, ot, q.got[c].bits, q.phase)
  <2> TAKE c \in DOMAIN q.got
  <2>1. /\ q.phase = r.phase
        /\ \/ c \in DOMAIN r.got /\ q.got[c] = r.got[c]
           \/ msg.type = "CLIENT_CIPHERTEXT" /\ msg.phase = r.phase /\ q.got[c] = msg.body
    BY DEF Relays
  <2> QED
    BY <2>1 DEF Holds, RealMsg
<1>2. CASE Commits(r, msg, q)
  <2>1. q.st = "WAIT_FOR_SERVER_COMMITS" /\ r.st # q.st
    BY <1>2 DEF Commits, HearsAll
  <2>2. \A x \in Data(q.mine.bits) : \E c \in DOMAIN q.got : x \in q.got[c].bits
    BY <2>1 DEF Relays
  <2>3. \A x \in Data(q.mine.bits) : \E c \in DOMAIN q.got : x \in Data(q.got[c].bits)
    BY <2>2 DEF Data
  <2>4. Real(nd, sl, ot, q.mine.bits, q.phase)
    BY <1>1, <2>3 DEF Real
  <2> QED
    BY <1>1, <2>1, <2>4 DEF Holds
<1>3. CASE ~Commits(r, msg, q)
  <2>1. q.st \in Listed => r.st \in Listed /\ q.phase = r.phase /\ q.mine = r.mine
    BY <1>3 DEF ServerMove, Listed, Keeps, Quiet, Stops, HearsClient, ClosesWindow, Collects,
       HearsList, HearsCommit, Reveals, HearsCipher, Signs, HearsSignature, Hears,
       HearsAll, NextPhased, Blames, Opens, InWindow
  <2>2. q.st \in Listed => Real(nd, sl, ot, q.mine.bits, q.phase)
    BY <2>1 DEF Holds
  <2>3. ASSUME q.st = "WAIT_FOR_SERVER_CIPHERTEXT", NEW u \in q.heard
        PROVE  Real(nd, sl, ot, q.ciphers[u].bits, q.phase)
    <3>1. \/ Quiet(r, q) \/ q.heard = {} \/ HearsCipher(r, msg, q)
      BY <1>3, <2>3 DEF ServerMove, Stops, HearsClient, ClosesWindow, Collects, HearsList,
         HearsCommit, Reveals, Signs, HearsSignature, Hears, HearsAll, NextPhased, Blames,
         Opens, InWindow
    <3>2. CASE Quiet(r, q)
      BY <2>3, <3>2 DEF Quiet, Keeps, Holds
    <3>3. CASE HearsCipher(r, msg, q)
      <4> DEFINE m == msg.from
      <4>1. /\ r.st = "WAIT_FOR_SERVER_CIPHERTEXT" /\ q.heard = r.heard \cup {m}
            /\ msg.type = "SERVER_CIPHERTEXT" /\ msg.phase = r.phase /\ q.phase = r.phase
            /\ q.ciphers = [r.ciphers EXCEPT ![m] = msg.body]
            /\ r.ciphers = [s \in Server |-> r.ciphers[s]]
        BY <3>3 DEF HearsCipher, Hears, Keeps, IsRound
      <4>2. u \in Server
        BY <2>3, <4>1
      <4>3. q.ciphers[u] = IF u = m THEN msg.body ELSE r.ciphers[u]
        BY <4>1, <4>2
      <4>4. u # m => u \in r.heard
        BY <2>3, <4>1
      <4> HIDE DEF m
      <4> QED
        BY <4>1, <4>3, <4>4 DEF Holds, RealMsg
    <3> QED
      BY <2>3, <3>1, <3>2, <3>3
  <2> QED
    BY <1>1, <2>2, <2>3 DEF Holds
<1> QED
  BY <1>2, <1>3

\* So what it signs is real.
LEMMA SignsReal ==
  ASSUME NEW nd, NEW sl, NEW ot, NEW r, NEW msg, NEW q, Holds(nd, sl, ot, r), IsRound(r),
         RealMsg(nd, sl, ot, msg), Signs(r, msg, q)
  PROVE  Real(nd, sl, ot, q.text.bits, r.phase)
<1> DEFINE m == msg.from
           ciphers == [r.ciphers EXCEPT ![m] = msg.body]
           f == [t \in Server |-> ciphers[t].bits]
<1>1. /\ r.st = "WAIT_FOR_SERVER_CIPHERTEXT" /\ msg.type = "SERVER_CIPHERTEXT"
      /\ msg.phase = r.phase /\ r.heard \cup {m} = Server
      /\ q.text = Xored(r.slots, ciphers)
      /\ r.ciphers = [s \in Server |-> r.ciphers[s]]
  BY DEF Signs, HearsAll, IsRound
<1>2. \A u \in Server : ciphers[u] = IF u = m THEN msg.body ELSE r.ciphers[u]
  BY <1>1
<1>3. q.text.bits = XorAll(f)
  BY <1>1 DEF Xored, Text
<1> HIDE DEF ciphers
<1>4. \A u \in Server : Real(nd, sl, ot, ciphers[u].bits, r.phase)
  <2> TAKE u \in Server
  <2>1. CASE u = m
    BY <1>1, <1>2, <2>1 DEF RealMsg
  <2>2. CASE u # m
    BY <1>1, <1>2, <2>2 DEF Holds
  <2> QED
    BY <2>1, <2>2
<1>5. ASSUME NEW x \in XorAll(f) PROVE \E u \in Server : x \in ciphers[u].bits
  <2>1. x \in UNION Range(f)
    BY <1>5 DEF XorAll
  <2> QED
    BY <2>1 DEF Range
<1>6. \A x \in Data(q.text.bits) : \E u \in Server : x \in Data(ciphers[u].bits)
  BY <1>3, <1>5 DEF Data
<1> QED
  BY <1>4, <1>6 DEF Real

\* One more batch keeps the order.
LEMMA OrderAfter ==
  ASSUME NEW c \in Client, NEW out, IsSeq(out), OutInOrder(out, c), NEW slots, NEW t,
         slots[c] > 0 => \A w \in Written(t, c) :
           w.accuse \/ w.msg = 0 \/ w.msg = Total(out, c) + 1,
         NEW o, o = OutAfter(out, slots, t)
  PROVE  OutInOrder(o, c)
<1> DEFINE b == Pushed([slots |-> slots, text |-> t])
<1>1. o = IF b = {} THEN out ELSE Append(out, b)
  BY DEF OutAfter
<1>2. /\ (\E x \in b : x[1] = c) <=> GivenNow(slots, t, c)
      /\ \A x \in b : x[1] = c =>
           \E w \in Written(t, c) : x[2] = IF w.accuse THEN 0 ELSE w.msg
  BY PushedOf
<1> HIDE DEF b
<1>3. CASE b = {}
  BY <1>1, <1>3
<1>4. CASE b # {}
  <2> DEFINE k == Len(out) + 1
  <2>1. o = Append(out, b) /\ Len(out) \in Nat /\ k \in Nat
    BY <1>1, <1>4 DEF IsSeq
  <2>2. /\ Len(o) = k /\ o[k] = b
        /\ \A i \in 1..Len(out) : o[i] = out[i]
    BY <2>1, SeqAppend
  <2>3. \A j \in Batches(o, c) : j \in Batches(out, c) \/ j = k
    BY <2>1, <2>2 DEF Batches
  <2>4. \A j \in Batches(out, c) : j \in Batches(o, c) /\ j \in 1..Len(out)
    BY <2>1, <2>2 DEF Batches
  <2>5. ASSUME NEW i \in 1..Len(out), NEW x \in o[i], x[1] = c
        PROVE  x[2] = 0 \/ x[2] = Cardinality({j \in Batches(o, c) : j <= i})
    <3>1. {j \in Batches(o, c) : j <= i} = {j \in Batches(out, c) : j <= i}
      BY <2>1, <2>3, <2>4
    <3>2. x \in out[i]
      BY <2>2
    <3> QED
      BY <2>5, <3>1, <3>2 DEF OutInOrder
  <2>6. ASSUME NEW x \in o[k], x[1] = c
        PROVE  x[2] = 0 \/ x[2] = Cardinality({j \in Batches(o, c) : j <= k})
    <3>1. x \in b
      BY <2>2
    <3>2. GivenNow(slots, t, c)
      BY <1>2, <2>6, <3>1
    <3>3. PICK w \in Written(t, c) : x[2] = IF w.accuse THEN 0 ELSE w.msg
      BY <1>2, <2>6, <3>1
    <3>4. w.accuse \/ w.msg = 0 \/ w.msg = Total(out, c) + 1
      BY <3>2 DEF GivenNow
    <3>5. {j \in Batches(o, c) : j <= k} = Batches(o, c)
      BY <2>1, <2>3, <2>4
    <3>6. Total(o, c) = Total(out, c) + 1
      BY <3>2, BatchesAfter
    <3> QED
      BY <3>3, <3>4, <3>5, <3>6 DEF Total
  <2>7. \A i \in 1..Len(o) : i \in 1..Len(out) \/ i = k
    BY <2>1, <2>2
  <2> QED
    BY <2>5, <2>6, <2>7 DEF OutInOrder
<1> QED
  BY <1>3, <1>4

LEMMA TurnTracked ==
  ASSUME NEW nd, NEW ch, NEW ne, NEW ce, NEW n, NEW msg, NEW z, Typed(nd, ch),
         Ordered(nd, ch), Turn(nd, ch, ne, ce, n, msg, z),
         NEW D, NEW sl, NEW tx, NEW ot, Story(nd, ch, D, sl, tx, ot),
         NEW E, NEW sm, NEW ty, NEW ou, Story(ne, ce, E, sm, ty, ou),
         Told(D, sl, tx, ot, E, sm, ty, ou)
           \/ (n \in Server /\ Signs(nd[n], msg, z.r) /\ nd[n].phase = D
               /\ Adds(D, sl, tx, ot, E, sm, ty, ou, z.r.text)),
         Tracked(nd, ch, D, sl, tx, ot)
  PROVE  Tracked(ne, ce, E, sm, ty, ou)
<1> DEFINE r == nd[n] q == ne[n]
<1>1. /\ n \in Node /\ q = z.r /\ \A m \in Node : m # n => ne[m] = nd[m]
  BY MoveFrame
<1>2. /\ Said(nd, msg) /\ msg.phase \in Nat /\ Processable(msg)
      /\ D \in Nat /\ Chain(E, sm, ty, ou)
      /\ \A m \in Node : IsRound(nd[m]) /\ nd[m].phase \in Nat /\ nd[m].phase <= D
  BY TurnSaid DEF Typed, AreRounds, IsRound, Story, Chain, Follows
<1>3. /\ IsRound(q) /\ Mailbox(q) \subseteq Mailbox(r) \cup {msg}
      /\ Says(n, r, q, z.out) /\ Mail(ce) \subseteq Mail(ch) \cup Uttered(z.out)
  BY <1>1 DEF Turn, Good
<1>4. Moves(nd, ne, n, msg, D, sl, ot, sm, ou)
  <2>1. \A p \in Nat : p <= D => sm[p] = sl[p] /\ ou[p] = ot[p]
    BY DEF Told, Adds
  <2> QED
    BY <1>1, <1>2, <2>1 DEF Moves, Turn
<1>5. RealMsg(nd, sl, ot, msg)
  <2>1. CASE msg \in Mail(ch) \cup Mailbox(nd[n])
    BY <1>1, <2>1 DEF Tracked
  <2>2. CASE msg = NoMsg(n)
    <3>1. Data(msg.body.bits) = {}
      BY <2>2, PadIs DEF NoMsg, Text, Data, PhasePads
    <3> QED
      BY <3>1 DEF RealMsg, Real
  <2> QED
    BY <2>1, <2>2 DEF Turn
<1>6. \A c \in Node \ Server : Remembers(c, ne[c])
  <2> TAKE c \in Node \ Server
  <2>1. CASE c # n
    BY <1>1, <2>1 DEF Tracked
  <2>2. CASE c = n
    <3>1. Owned(n, r, msg, q) /\ Remembers(n, r)
      BY <1>4, <2>2 DEF Moves, Tracked
    <3>2. Honest(n, r, msg)
      <4> SUFFICES ASSUME msg.type = "SERVER_CLEARTEXT", msg.phase = r.phase,
                          r.st = "WAIT_FOR_CLEARTEXT",
                          NEW x \in Data(msg.body.text.bits), x.c = n
                   PROVE  x \in OwnBits(n, r)
        BY DEF Honest
      <4>1. Tells(msg, D, tx)
        BY <1>1, NoMsgProcessable DEF Turn, Story, Tells
      <4>2. Real(nd, sl, ot, msg.body.text.bits, r.phase)
        BY <1>2, <4>1 DEF Tells, Tracked
      <4>3. x.p = r.phase /\ Genuine(nd, sl, ot, x)
        BY <4>2 DEF Real
      <4> QED
        BY <4>3 DEF Genuine
    <3> QED
      BY <2>2, <3>1, <3>2 DEF Owned
  <2> QED
    BY <2>1, <2>2
<1>7. \A s \in Server : Holds(ne, sm, ou, ne[s])
  <2> TAKE s \in Server
  <2>1. s \in Node /\ Holds(nd, sl, ot, nd[s])
    BY DEF Node, Tracked
  <2>2. CASE s # n
    <3>1. ne[s] = nd[s]
      BY <1>1, <2>1, <2>2
    <3>2. Holds(ne, sm, ou, nd[s])
      BY <1>4, <2>1, RealStays
    <3> QED
      BY <3>1, <3>2
  <2>3. CASE s = n
    <3>1. ServerMove(r, msg, q) /\ Relays(r, msg, q)
      BY <1>1, <2>3 DEF Turn, Seals
    <3>2. /\ r.st = "SHUFFLING" => r.online = DOMAIN r.got
          /\ r.st = "WAIT_FOR_SERVER_CIPHERTEXT" => r.heard \subseteq Server
      BY <2>3 DEF Ordered, Lockstep, Exchange, Listed
    <3>3. msg.type = "SERVER_CIPHERTEXT" => msg.from \in Server
      BY <1>2 DEF Processable
    <3>4. IsRound(r) /\ Holds(nd, sl, ot, r)
      BY <1>1, <1>2, <2>1, <2>3
    <3> HIDE DEF r, q
    <3>5. Holds(nd, sl, ot, q)
      BY <1>5, <3>1, <3>2, <3>3, <3>4, MoveHolds
    <3>6. Holds(ne, sm, ou, q)
      BY <1>4, <3>5, RealStays
    <3> QED
      BY <2>3, <3>6 DEF q
  <2> QED
    BY <2>2, <2>3
<1>8. \A x \in Uttered(z.out) : RealMsg(ne, sm, ou, x)
  <2> SUFFICES ASSUME NEW x \in Uttered(z.out),
                      x.type \in {"CLIENT_CIPHERTEXT", "SERVER_CIPHERTEXT"}
               PROVE  Real(ne, sm, ou, x.body.bits, x.phase)
    BY DEF RealMsg
  <2>1. Utters(n, r, q, x)
    BY <1>3 DEF Says, Uttered
  <2>2. CASE x.type = "SERVER_CIPHERTEXT"
    <3>1. /\ q.st = "WAIT_FOR_SERVER_CIPHERTEXT" /\ n \in Server
          /\ x.phase = q.phase /\ x.body = q.mine
      BY <2>1, <2>2 DEF Utters
    <3> QED
      BY <1>7, <3>1 DEF Holds, Listed
  <2>3. CASE x.type = "CLIENT_CIPHERTEXT"
    <3>1. /\ q.st = "WAIT_FOR_CLEARTEXT" /\ n \notin Server /\ x.phase = q.phase
          /\ Data(x.body.bits) \subseteq OwnBits(n, q)
      BY <2>1, <2>3 DEF Utters
    <3>2. n \in Client /\ Remembers(n, q) /\ q.phase \in Nat
      BY <1>1, <1>3, <1>6, <3>1 DEF Node, IsRound
    <3>3. q.slots = sm[q.phase] /\ q.out = ou[q.phase]
      BY <1>1, <3>1 DEF Story, Follows, Ended
    <3>4. \A y \in OwnBits(n, q) : y.p = q.phase /\ Genuine(ne, sm, ou, y)
      BY <3>1, <3>2, <3>3, OwnGenuine
    <3> QED
      BY <3>1, <3>4 DEF Real
  <2> QED
    BY <2>2, <2>3
<1>9. \A x : RealMsg(nd, sl, ot, x) => RealMsg(ne, sm, ou, x)
  BY <1>4, RealStays
<1>10. \A x \in Mail(ce) : RealMsg(ne, sm, ou, x)
  BY <1>3, <1>8, <1>9 DEF Tracked
<1>11. \A m \in Node : \A x \in Mailbox(ne[m]) : RealMsg(ne, sm, ou, x)
  BY <1>1, <1>3, <1>5, <1>9 DEF Tracked
<1>12. \A p \in Nat : p < D => Real(ne, sm, ou, tx[p].bits, p)
  BY <1>4, RealStays DEF Tracked
<1>13. CASE Told(D, sl, tx, ot, E, sm, ty, ou)
  BY <1>6, <1>7, <1>10, <1>11, <1>12, <1>13 DEF Tracked, Told
<1>14. CASE n \in Server /\ Signs(r, msg, q) /\ r.phase = D
            /\ Adds(D, sl, tx, ot, E, sm, ty, ou, q.text)
  <2>1. E = D + 1 /\ ty[D] = q.text /\ sm[D] = sl[D] /\ ou[D] = ot[D]
    BY <1>2, <1>14 DEF Adds
  <2>2. Real(nd, sl, ot, q.text.bits, D)
    <3>1. IsRound(r) /\ Holds(nd, sl, ot, r)
      BY <1>1, <1>2, <1>14 DEF Tracked
    <3> QED
      BY <1>5, <1>14, <3>1, SignsReal
  <2>3. Real(ne, sm, ou, ty[D].bits, D)
    BY <1>4, <2>1, <2>2, RealStays
  <2>4. \A p \in Nat : p < E => Real(ne, sm, ou, ty[p].bits, p)
    <3> TAKE p \in Nat
    <3>1. CASE p < D
      <4>1. ty[p] = tx[p]
        BY <1>14, <3>1 DEF Adds
      <4> QED
        BY <1>12, <3>1, <4>1
    <3>2. CASE p = D
      BY <2>3, <3>2
    <3> QED
      BY <1>2, <2>1, <3>1, <3>2
  <2>5. \A p \in Nat : p <= E => \A c \in Client : OutInOrder(ou[p], c)
    <3> SUFFICES ASSUME NEW p \in Nat, p <= E, NEW c \in Client PROVE OutInOrder(ou[p], c)
      OBVIOUS
    <3>1. CASE p <= D
      <4>1. ou[p] = ot[p]
        BY <1>14, <3>1 DEF Adds
      <4> QED
        BY <3>1, <4>1 DEF Tracked
    <3>2. CASE p = D + 1
      <4>1. ou[D + 1] = OutAfter(ou[D], sm[D], ty[D]) /\ IsSeq(ou[D])
        BY <1>2, <2>1 DEF Chain
      <4>2. OutInOrder(ou[D], c)
        BY <1>2, <2>1 DEF Tracked
      <4>3. sm[D][c] > 0 => \A w \in Written(ty[D], c) :
              w.accuse \/ w.msg = 0 \/ w.msg = Total(ou[D], c) + 1
        <5> SUFFICES ASSUME sm[D][c] > 0, NEW w \in Written(ty[D], c)
                     PROVE  w.accuse \/ w.msg = 0 \/ w.msg = Total(ou[D], c) + 1
          OBVIOUS
        <5>1. w.is = "slot" /\ w.c = c /\ w \in Data(ty[D].bits)
          BY DEF Written, Data
        <5>2. w.p = D /\ Genuine(ne, sm, ou, w)
          BY <2>3, <5>1 DEF Real
        <5> QED
          BY <5>1, <5>2 DEF Genuine
      <4> QED
        BY <3>2, <4>1, <4>2, <4>3, OrderAfter
    <3> QED
      BY <1>2, <2>1, <3>1, <3>2
  <2> QED
    BY <1>6, <1>7, <1>10, <1>11, <2>4, <2>5 DEF Tracked
<1> QED
  BY <1>1, <1>13, <1>14

LEMMA EventTracked ==
  ASSUME NEW nd, NEW ch, NEW ne, NEW ce, EdgeEvent(nd, ch, ne, ce),
         NEW D, NEW sl, NEW tx, NEW ot, Tracked(nd, ch, D, sl, tx, ot)
  PROVE  Tracked(ne, ce, D, sl, tx, ot)
<1>1. ASSUME NEW x, Harmless(ch, x) PROVE RealMsg(nd, sl, ot, x)
  <2>1. CASE x.type = "CLOSED"
    BY <2>1 DEF RealMsg
  <2>2. CASE \E y \in Mail(ch) : GarbledFrom(x, y)
    <3>1. PICK y \in Mail(ch) : GarbledFrom(x, y)
      BY <2>2
    <3>2. RealMsg(nd, sl, ot, y)
      BY DEF Tracked
    <3> QED
      BY <3>1, <3>2 DEF GarbledFrom, RealMsg, Real
  <2> QED
    BY <1>1, <2>1, <2>2 DEF Harmless
<1>2. \A x \in Mail(ce) : RealMsg(nd, sl, ot, x)
  BY <1>1 DEF EdgeEvent, Tracked
<1> QED
  BY <1>2 DEF EdgeEvent, Tracked

Delivery ==
  /\ Synchrony
  /\ \E D, sl, tx, ot : Story(node, chan, D, sl, tx, ot) /\ Tracked(node, chan, D, sl, tx, ot)

LEMMA NextDelivery ==
  ASSUME Delivery, [Next]_vars
  PROVE  Delivery'
<1>1. Synchrony'
  BY NextSynchrony DEF Delivery
<1>2. PICK D, sl, tx, ot : /\ Story(node, chan, D, sl, tx, ot)
                           /\ Tracked(node, chan, D, sl, tx, ot)
  BY DEF Delivery
<1>3. CASE UNCHANGED vars
  BY <1>1, <1>2, <1>3 DEF vars, Delivery
<1>4. CASE EdgeEvent(node, chan, node', chan')
  <2>1. Story(node', chan', D, sl, tx, ot) /\ Tracked(node', chan', D, sl, tx, ot)
    BY <1>2, <1>4, StoryEvent, EventTracked
  <2> QED
    BY <1>1, <2>1 DEF Delivery
<1>5. ASSUME NEW n, NEW msg, NEW z, Turn(node, chan, node', chan', n, msg, z)
      PROVE  Delivery'
  <2>1. Typed(node, chan) /\ Ordered(node, chan)
    BY DEF Delivery, Synchrony
  <2>2. PICK E, sm, ty, ou :
          /\ Story(node', chan', E, sm, ty, ou)
          /\ \/ Told(D, sl, tx, ot, E, sm, ty, ou)
             \/ /\ n \in Server /\ Signs(node[n], msg, z.r) /\ node[n].phase = D
                /\ Adds(D, sl, tx, ot, E, sm, ty, ou, z.r.text)
    BY <1>2, <1>5, <2>1, StoryTurn
  <2>3. Tracked(node', chan', E, sm, ty, ou)
    BY <1>2, <1>5, <2>1, <2>2, TurnTracked
  <2> QED
    BY <1>1, <2>2, <2>3 DEF Delivery
<1>6. \A s \in Server : node[s].st # "WAIT_FOR_CLEARTEXT"
  BY DEF Delivery, Synchrony, Ordered, Lockstep
<1> QED
  BY <1>3, <1>4, <1>5, <1>6, NextTurns DEF Delivery, Synchrony

LEMMA InitDelivery == Init => Delivery
<1> SUFFICES ASSUME Init PROVE Delivery
  OBVIOUS
<1> DEFINE sl == [p \in Nat |-> NoSlots] tx == [p \in Nat |-> NoText]
           ot == [p \in Nat |-> <<>>]
<1>1. Story(node, chan, 0, sl, tx, ot)
  BY InitStory
<1>2. \A p \in Nat : ot[p] = <<>>
  OBVIOUS
<1> HIDE DEF sl, tx, ot
<1>3. \A n \in Node : /\ Mailbox(node[n]) = {} /\ node[n].st = "SHUFFLING"
                      /\ DOMAIN node[n].got = {} /\ node[n].out = <<>>
                      /\ node[n].slots = NoSlots
  BY NewRoundStep DEF Init
<1>4. Mail(chan) = {}
  BY SeqEmpty DEF Mail, Init
<1>5. \A c : Total(<<>>, c) = 0
  BY FS_EmptySet DEF Total, Batches
<1>6. ASSUME NEW c \in Node \ Server PROVE Remembers(c, node[c])
  <2> DEFINE r == node[c]
  <2>1. c \in Client /\ c \in Node
    BY DEF Node
  <2>2. /\ r.next = 0 /\ r.last = 0 /\ r.taken = 0 /\ r.read = FALSE /\ r.open = FALSE
        /\ r.accuse = FALSE
    BY <2>1 DEF Init, NewRound
  <2>3. r.slots[c] = 0 /\ Total(r.out, c) = 0 /\ r.st = "SHUFFLING"
    BY <1>3, <1>5, <2>1 DEF NoSlots
  <2> HIDE DEF r
  <2>4. Unopened(c, r)
    BY <2>2, <2>3 DEF Unopened
  <2>5. r.read \in BOOLEAN /\ r.open \in BOOLEAN /\ r.accuse \in BOOLEAN /\ ~r.open
    BY <2>2, Zenon
  <2>6. r.slots[c] \in Nat /\ r.next \in Nat /\ r.last \in Nat /\ r.taken \in Nat
    BY <2>2, <2>3, SMT
  <2>7. InMemory(c, r)
    BY <2>4, <2>5, <2>6, Zenon DEF InMemory
  <2> QED
    BY <2>3, <2>5, <2>7 DEF Remembers, r
<1>7. \A s \in Server : Holds(node, sl, ot, node[s])
  BY <1>3 DEF Holds, Listed, Node
<1>8. \A p \in Nat : p <= 0 => \A c \in Client : OutInOrder(ot[p], c)
  BY <1>2 DEF OutInOrder
<1>9. Tracked(node, chan, 0, sl, tx, ot)
  BY <1>3, <1>4, <1>6, <1>7, <1>8 DEF Tracked
<1> QED
  BY <1>1, <1>9, InitSynchrony DEF Delivery

\* Everybody is given the messages of every client in order, none twice and none left
\* out, although a client whose slot was lost or garbled sends it again
\* (read, last_msg and next_msg in GenerateSlotMessage and ProcessCleartext).
THEOREM MessagesInOrder == Spec => []InOrder
<1>1. Init => Delivery
  BY InitDelivery
<1>2. Delivery /\ [Next]_vars => Delivery'
  BY NextDelivery
<1>3. Delivery => InOrder
  <2> SUFFICES ASSUME Delivery, NEW n \in Node, NEW c \in Client,
                      NEW i \in DOMAIN Given(n, c), Given(n, c)[i] # 0
               PROVE  Given(n, c)[i] = Cardinality({j \in DOMAIN Given(n, c) : j <= i})
    BY DEF InOrder
  <2> DEFINE out == node[n].out
             in(k) == CHOOSE x \in out[k] : x[1] = c
  <2>1. PICK D, sl, tx, ot : /\ Story(node, chan, D, sl, tx, ot)
                             /\ Tracked(node, chan, D, sl, tx, ot)
    BY DEF Delivery
  <2>2. IsSeq(out) /\ node[n].phase \in Nat /\ D \in Nat
    BY <2>1 DEF Delivery, Synchrony, Typed, AreRounds, IsRound, Story, Chain
  <2>3. OutInOrder(out, c)
    <3>1. Follows(node[n], D, sl, tx, ot)
      BY <2>1 DEF Story
    <3>2. \E p \in Nat : p <= D /\ out = ot[p]
      BY <2>2, <3>1 DEF Follows
    <3> QED
      BY <2>1, <3>2 DEF Tracked
  <2>4. DOMAIN out = 1..Len(out)
    BY <2>2 DEF IsSeq
  <2>5. DOMAIN Given(n, c) = Batches(out, c)
    BY <2>4 DEF Given, Batches
  <2>6. Given(n, c)[i] = in(i)[2]
    BY DEF Given
  <2>7. i \in 1..Len(out) /\ in(i) \in out[i] /\ in(i)[1] = c
    BY <2>5 DEF Batches
  <2> HIDE DEF out, in
  <2> QED
    BY <2>3, <2>5, <2>6, <2>7 DEF OutInOrder
<1> QED
  BY <1>1, <1>2, <1>3, PTL DEF Spec
=============================================================================
