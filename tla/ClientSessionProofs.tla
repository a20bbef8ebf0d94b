------------------------ MODULE ClientSessionProofs ------------------------
(***************************************************************************)
(* A client runs the round it registered for, with the list that all its   *)
(* servers signed for that round, and the starts of that round begin it    *)
(* exactly if the configuration lists the servers by Id: proofs for every  *)
(* set of servers, every configuration of them and every bound.            *)
(***************************************************************************)
EXTENDS ClientSession, FiniteSetTheorems, TLAPS

-----------------------------------------------------------------------------
(* The invariant.  What the servers have sent the client and it has not yet  *)
(* handled, first the messages it has stored, then those of the current turn,*)
(* then those on the edge, is in the order of the attempts, and is about no  *)
(* attempt before the one it registered for; only the copies of stops come   *)
(* in any order.  As long as no edge has broken, an attempt is offered once. *)

IsStop(m) == m.type = "ServerStop"
Once(b, m) == b = 0 /\ m.type = "ServerQueued"
Later(b, m, n) ==
  \/ IsStop(m) \/ IsStop(n)
  \/ m.rid <= n.rid /\ (Once(b, m) /\ Once(b, n) => m.rid # n.rid)
Newer(b, a, m) == IsStop(m) \/ (a <= m.rid /\ (Once(b, m) => a # m.rid))

Ascends(q, b) == \A i, j \in DOMAIN q : i < j => Later(b, q[i], q[j])
Ahead(p, q, b) == \A i \in DOMAIN p, j \in DOMAIN q : Later(b, p[i], q[j])
Above(q, b, a) == \A i \in DOMAIN q : Newer(b, a, q[i])

\* Stored w, current turn q and edges d of a client in attempt a, after b breaks.
Chain(w, q, d, b, a) ==
  /\ Ascends(w, b) /\ Ascends(q, b) /\ Ahead(w, q, b) /\ Above(w, b, a) /\ Above(q, b, a)
  /\ \A s \in Server :
       Ascends(d[s], b) /\ Ahead(w, d[s], b) /\ Ahead(q, d[s], b) /\ Above(d[s], b, a)

\* The list of attempt a does not change any more.
Frozen(a) == a < attempt \/ \E t \in Server : srv[t].signed = a

\* A message under way is a stop, is about an attempt that was offered, or has the
\* list that the servers signed for an attempt the client has registered for, with the
\* client's own key if it registered once.
Started(a) ==
  /\ a <= c.rid /\ Frozen(a)
  /\ breaks = 0 /\ a = c.rid => roster[a] = c.eph
Messages ==
  {ServerQueued(a, s) : a \in offered, s \in Server} \cup
  {SessionData(a) : a \in 0..attempt} \cup halted \cup
  {ServerStart(a, roster[a]) : a \in {b \in Attempt : Started(b)}}
Registrations ==
  {m \in [rid : 0..c.rid, key : Nat] : breaks = 0 /\ m.rid = c.rid => m.key = c.eph}

ClientStates == {"Offline", "WaitingForServer", "Queuing", "Registering", "Communicating"}
ServerStates ==
  {"Forming", "Agree", "Registering", "Listing", "VerifyList", "Communicating"}

ClientRecord ==
  [st : ClientStates, rid : Nat, eph : Nat, server : Server \cup {None},
   round : [rid : Nat, eph : Nat, of : Nat, key : Nat]]

ClientTypes ==
  /\ c \in ClientRecord
  /\ storage \in Seq(Messages) /\ todo \in Seq(Messages)
  /\ down \in [Server -> Seq(Messages)] /\ up \in [Server -> Seq(Registrations)]
  /\ breaks \in Nat
ServerTypes ==
  /\ attempt \in 0..MaxAttempt /\ roster \in [Attempt -> Nat] /\ offered \subseteq 1..attempt
  /\ \A m \in halted : IsStop(m)
  /\ srv \in [Server -> [st : ServerStates, rid : {attempt}, key : Nat,
                         listed : 0..attempt, signed : 0..attempt]]

\* The client has one connection, and only over it does anything reach it.
OneConnection ==
  /\ edge \subseteq conn /\ conn \subseteq Server
  /\ \A s, t \in conn : s = t
  /\ \A s \in Server \ conn : down[s] = <<>>
  /\ breaks = 0 => edge = conn /\ table \subseteq conn

\* A server that has taken a key in this attempt took it from a client that had
\* registered for it.  No list is signed before all lists are made, no key is taken
\* after that, and so a key in a signed list is one that some server took.
ServersInStep ==
  \A s \in Server :
    /\ attempt = 0 => srv[s].st = "Forming" /\ srv[s].key = None
    /\ srv[s].key # None /\ (srv[s].st \notin {"Forming", "Agree"} \/ srv[s].listed = attempt) =>
         attempt = c.rid /\ (breaks = 0 => srv[s].key = c.eph)
    /\ srv[s].st \in {"Agree", "Registering"} => srv[s].listed < attempt
    /\ srv[s].st \in {"Agree", "Registering", "Listing"} => srv[s].signed < attempt
    /\ srv[s].signed = attempt => \A t \in Server : srv[t].listed = attempt
    /\ srv[s].signed = attempt /\ attempt \in Attempt /\ roster[attempt] # None =>
         attempt = c.rid /\ (breaks = 0 => roster[attempt] = c.eph)

\* An attempt is offered to the client when its server has it in its table, and
\* once if that stays so.
OfferedOnce ==
  /\ c.rid \in offered \cup {0}
  /\ breaks = 0 =>
       /\ table = {} => offered = {}
       /\ \A s \in table : srv[s].st = "Agree" => attempt \notin offered

InOrder == Chain(storage, todo, down, breaks, c.rid)
Configured == order \in [1..Cardinality(Server) -> Server]
NothingStored == c.st = "Queuing" => storage = <<>>
RunsItsRoster ==
  c.st = "Communicating" =>
    /\ c.round.of \in Attempt /\ Frozen(c.round.of)
    /\ RosterOfRound /\ KeyInRoster

Inv ==
  /\ ClientTypes /\ ServerTypes /\ OneConnection /\ ServersInStep /\ OfferedOnce
  /\ InOrder /\ NothingStored /\ RunsItsRoster /\ Configured

LEMMA MessageKinds ==
  ASSUME Inv, NEW x \in Messages
  PROVE  /\ x.type = "ServerQueued" => x.rid \in offered
         /\ x.type = "ServerStart" =>
              \E a \in Attempt : Started(a) /\ x = ServerStart(a, roster[a])
         /\ x.type # "ServerStop" =>
              \/ x.rid \in offered \cup (0..attempt)
              \/ \E a \in Attempt : Started(a) /\ x = ServerStart(a, roster[a])
<1>1. CASE \E a \in offered, s \in Server : x = ServerQueued(a, s)
  BY <1>1 DEF ServerQueued
<1>2. CASE \E a \in 0..attempt : x = SessionData(a)
  BY <1>2 DEF SessionData
<1>3. CASE x \in halted
  BY <1>3 DEF Inv, ServerTypes, IsStop
<1>4. CASE \E a \in Attempt : Started(a) /\ x = ServerStart(a, roster[a])
  BY <1>4 DEF ServerStart
<1> QED
  BY <1>1, <1>2, <1>3, <1>4 DEF Messages

-----------------------------------------------------------------------------
(* What each way of moving messages along does to their order *)

LEMMA TailParts ==
  ASSUME NEW M, NEW q \in Seq(M), q # <<>>
  PROVE  /\ Tail(q) \in Seq(M) /\ Head(q) \in M /\ Head(q) = q[1] /\ 1 \in DOMAIN q
         /\ \A i \in DOMAIN Tail(q) : i + 1 \in DOMAIN q /\ Tail(q)[i] = q[i + 1] /\ i + 1 # 1
<1> QED
  OBVIOUS

LEMMA AppendParts ==
  ASSUME NEW M, NEW q \in Seq(M), NEW m \in M
  PROVE  /\ Append(q, m) \in Seq(M) /\ DOMAIN q \subseteq DOMAIN Append(q, m)
         /\ Append(q, m)[Len(q) + 1] = m /\ Len(q) + 1 \notin DOMAIN q
         /\ \A i \in DOMAIN Append(q, m) :
              (i \in DOMAIN q /\ Append(q, m)[i] = q[i] /\ i < Len(q) + 1) \/ i = Len(q) + 1
<1> QED
  OBVIOUS

\* What is left of the turn q: all, all but the first message, or nothing.
Rest(r, q) == r \in {q, <<>>} \/ (q # <<>> /\ r = Tail(q))

LEMMA RestChain ==
  ASSUME NEW M, NEW w \in Seq(M), NEW q \in Seq(M), NEW d \in [Server -> Seq(M)], NEW b, NEW a,
         NEW r, Rest(r, q), Chain(w, q, d, b, a)
  PROVE  r \in Seq(M) /\ Chain(w, r, d, b, a)
<1>1. r \in Seq(M)
  <2>1. <<>> \in Seq(M)
    OBVIOUS
  <2>2. q # <<>> => Tail(q) \in Seq(M)
    OBVIOUS
  <2> QED
    BY <2>1, <2>2 DEF Rest
<1>2. \E k \in {0, 1} : \A i \in DOMAIN r : i + k \in DOMAIN q /\ r[i] = q[i + k]
  <2>1. CASE r = q
    BY <2>1
  <2>2. CASE r = <<>>
    BY <2>2
  <2>3. CASE q # <<>> /\ r = Tail(q)
    BY <2>3, TailParts
  <2> QED
    BY <2>1, <2>2, <2>3 DEF Rest
<1>3. PICK k \in {0, 1} : \A i \in DOMAIN r : i + k \in DOMAIN q /\ r[i] = q[i + k]
  BY <1>2
<1>4. \A i, j \in DOMAIN r : i \in Nat /\ j \in Nat /\ (i < j => i + k < j + k)
  BY <1>1
<1>5. Ascends(r, b)
  BY <1>3, <1>4 DEF Chain, Ascends
<1>6. Ahead(w, r, b) /\ Above(r, b, a) /\ \A s \in Server : Ahead(r, d[s], b)
  BY <1>3 DEF Chain, Ahead, Above
<1> QED
  BY <1>1, <1>5, <1>6 DEF Chain

LEMMA JoinChain ==
  ASSUME NEW M, NEW w \in Seq(M), NEW q \in Seq(M), NEW d \in [Server -> Seq(M)], NEW b, NEW a,
         Chain(w, q, d, b, a)
  PROVE  w \o q \in Seq(M) /\ Chain(<<>>, w \o q, d, b, a)
<1> DEFINE r == w \o q
<1>1. r \in Seq(M)
  OBVIOUS
<1>2. \A i \in DOMAIN r :
        \/ i \in DOMAIN w /\ r[i] = w[i]
        \/ i \notin DOMAIN w /\ i - Len(w) \in DOMAIN q /\ r[i] = q[i - Len(w)]
  OBVIOUS
<1>3. \A i, j \in DOMAIN r :
        i < j => (j \in DOMAIN w => i \in DOMAIN w) /\ i - Len(w) < j - Len(w)
  BY <1>1
<1> HIDE DEF r
<1>4. Ascends(r, b)
  BY <1>2, <1>3 DEF Chain, Ascends, Ahead
<1>5. Above(r, b, a) /\ \A s \in Server : Ahead(r, d[s], b)
  BY <1>2 DEF Chain, Ahead, Above
<1>6. Ascends(<<>>, b) /\ Above(<<>>, b, a) /\ Ahead(<<>>, r, b)
      /\ \A s \in Server : Ahead(<<>>, d[s], b)
  BY DEF Ascends, Above, Ahead
<1>7. \A s \in Server : Ascends(d[s], b) /\ Above(d[s], b, a)
  BY DEF Chain
<1>8. Chain(<<>>, r, d, b, a)
  BY <1>4, <1>5, <1>6, <1>7 DEF Chain
<1> QED
  BY <1>1, <1>8 DEF r

LEMMA ReplayChain ==
  ASSUME NEW M, NEW w \in Seq(M), NEW q \in Seq(M), NEW d \in [Server -> Seq(M)], NEW b, NEW a,
         NEW r, Rest(r, q), Chain(w, q, d, b, a)
  PROVE  w \o r \in Seq(M) /\ Chain(<<>>, w \o r, d, b, a)
<1> QED
  BY RestChain, JoinChain

LEMMA StoreChain ==
  ASSUME NEW M, NEW w \in Seq(M), NEW q \in Seq(M), NEW d \in [Server -> Seq(M)], NEW b, NEW a,
         q # <<>>, Chain(w, q, d, b, a)
  PROVE  Append(w, Head(q)) \in Seq(M) /\ Tail(q) \in Seq(M)
         /\ Chain(Append(w, Head(q)), Tail(q), d, b, a)
<1> DEFINE m == q[1]
           v == Append(w, m)
           r == Tail(q)
<1>1. /\ r \in Seq(M) /\ Head(q) = m /\ m \in M /\ 1 \in DOMAIN q
      /\ \A i \in DOMAIN r : i + 1 \in DOMAIN q /\ r[i] = q[i + 1] /\ 1 < i + 1
  BY TailParts
<1>2. /\ v \in Seq(M)
      /\ \A i \in DOMAIN v :
           (i \in DOMAIN w /\ v[i] = w[i] /\ i < Len(w) + 1) \/ (i = Len(w) + 1 /\ v[i] = m)
  BY <1>1, AppendParts
<1>3. Ascends(v, b)
  <2> SUFFICES ASSUME NEW i \in DOMAIN v, NEW j \in DOMAIN v, i < j
               PROVE  Later(b, v[i], v[j])
    BY DEF Ascends
  <2>1. i \in DOMAIN w /\ v[i] = w[i]
    BY <1>2
  <2> HIDE DEF m, v
  <2>2. CASE j \in DOMAIN w /\ v[j] = w[j]
    BY <2>1, <2>2 DEF Chain, Ascends
  <2>3. CASE v[j] = m
    <3>1. m = q[1]
      BY DEF m
    <3> QED
      BY <1>1, <2>1, <2>3, <3>1 DEF Chain, Ahead
  <2> QED
    BY <1>2, <2>2, <2>3
<1>4. Ahead(v, r, b)
  <2> SUFFICES ASSUME NEW i \in DOMAIN v, NEW j \in DOMAIN r
               PROVE  Later(b, v[i], r[j])
    BY DEF Ahead
  <2>1. j + 1 \in DOMAIN q /\ r[j] = q[j + 1] /\ 1 < j + 1
    BY <1>1
  <2>2. CASE i \in DOMAIN w /\ v[i] = w[i]
    BY <2>1, <2>2 DEF Chain, Ahead
  <2>3. CASE v[i] = m
    BY <1>1, <2>1, <2>3 DEF Chain, Ascends
  <2> QED
    BY <1>2, <2>2, <2>3
<1>5. Above(v, b, a) /\ \A s \in Server : Ahead(v, d[s], b)
  <2> HIDE DEF v
  <2> QED
    BY <1>1, <1>2 DEF Chain, Above, Ahead
<1>6. Chain(w, r, d, b, a)
  BY RestChain DEF Rest
<1> HIDE DEF v, r
<1>7. Chain(v, r, d, b, a)
  BY <1>3, <1>4, <1>5, <1>6 DEF Chain
<1> QED
  BY <1>1, <1>2, <1>7 DEF v, r

LEMMA DeliverChain ==
  ASSUME NEW M, NEW w \in Seq(M), NEW d \in [Server -> Seq(M)], NEW b, NEW a,
         NEW s \in Server, d[s] # <<>>, \A t \in Server \ {s} : d[t] = <<>>,
         Chain(w, <<>>, d, b, a)
  PROVE  LET e == [d EXCEPT ![s] = Tail(@)]
         IN <<Head(d[s])>> \in Seq(M) /\ e \in [Server -> Seq(M)]
            /\ Chain(w, <<Head(d[s])>>, e, b, a)
<1> DEFINE r == Tail(d[s])
           e == [d EXCEPT ![s] = r]
           q == <<Head(d[s])>>
<1>1. /\ r \in Seq(M) /\ Head(d[s]) = d[s][1] /\ Head(d[s]) \in M /\ 1 \in DOMAIN d[s]
      /\ \A i \in DOMAIN r : i + 1 \in DOMAIN d[s] /\ r[i] = d[s][i + 1] /\ 1 < i + 1
  BY TailParts
<1>2. q \in Seq(M) /\ DOMAIN q = {1} /\ q[1] = d[s][1]
  BY <1>1
<1>3. e \in [Server -> Seq(M)] /\ e[s] = r /\ \A t \in Server \ {s} : e[t] = <<>>
  BY <1>1
<1> HIDE DEF q, e
<1>4. Ascends(q, b) /\ Ahead(w, q, b) /\ Above(q, b, a) /\ Ascends(w, b) /\ Above(w, b, a)
  BY <1>1, <1>2 DEF Chain, Ascends, Ahead, Above
<1>5. Ascends(r, b) /\ Ahead(w, r, b) /\ Above(r, b, a) /\ Ahead(q, r, b)
  <2>1. \A i, j \in DOMAIN r : i \in Nat /\ j \in Nat /\ (i < j => i + 1 < j + 1)
    BY <1>1
  <2> HIDE DEF r
  <2>2. Ascends(r, b)
    BY <1>1, <2>1 DEF Chain, Ascends
  <2>3. Ahead(w, r, b) /\ Above(r, b, a)
    BY <1>1 DEF Chain, Ahead, Above
  <2>4. Ahead(q, r, b)
    BY <1>1, <1>2 DEF Chain, Ascends, Ahead
  <2> QED
    BY <2>2, <2>3, <2>4
<1>6. \A t \in Server : Ascends(e[t], b) /\ Ahead(w, e[t], b) /\ Ahead(q, e[t], b)
                        /\ Above(e[t], b, a)
  <2> TAKE t \in Server
  <2>1. CASE t = s
    BY <1>3, <1>5, <2>1
  <2>2. CASE t # s
    <3>1. e[t] = <<>>
      BY <1>3, <2>2
    <3> QED
      BY <3>1 DEF Ascends, Ahead, Above
  <2> QED
    BY <2>1, <2>2
<1>7. Chain(w, q, e, b, a)
  BY <1>4, <1>6 DEF Chain
<1> QED
  BY <1>2, <1>3, <1>7 DEF q, e

LEMMA SendChain ==
  ASSUME NEW M, NEW w \in Seq(M), NEW q \in Seq(M), NEW d \in [Server -> Seq(M)], NEW b, NEW a,
         NEW s \in Server, NEW m, Newer(b, a, m), \A x \in M : Later(b, x, m),
         Chain(w, q, d, b, a)
  PROVE  Chain(w, q, [d EXCEPT ![s] = Append(@, m)], b, a)
<1> DEFINE v == Append(d[s], m)
           e == [d EXCEPT ![s] = v]
<1>1. \A i \in DOMAIN v :
        (i \in DOMAIN d[s] /\ v[i] = d[s][i] /\ i < Len(d[s]) + 1)
        \/ (i = Len(d[s]) + 1 /\ v[i] = m)
  OBVIOUS
<1>2. /\ \A i \in DOMAIN w : w[i] \in M
      /\ \A i \in DOMAIN q : q[i] \in M
      /\ \A i \in DOMAIN d[s] : d[s][i] \in M
  OBVIOUS
<1>3. Ascends(v, b)
  <2> SUFFICES ASSUME NEW i \in DOMAIN v, NEW j \in DOMAIN v, i < j
               PROVE  Later(b, v[i], v[j])
    BY DEF Ascends
  <2>1. i \in DOMAIN d[s] /\ v[i] = d[s][i]
    BY <1>1
  <2> HIDE DEF v
  <2> QED
    BY <1>1, <1>2, <2>1 DEF Chain, Ascends
<1>4. Ahead(w, v, b) /\ Ahead(q, v, b) /\ Above(v, b, a)
  <2> HIDE DEF v
  <2> QED
    BY <1>1, <1>2 DEF Chain, Ahead, Above
<1>5. \A t \in Server : e[t] = IF t = s THEN v ELSE d[t]
  OBVIOUS
<1> HIDE DEF v, e
<1>6. Chain(w, q, e, b, a)
  BY <1>3, <1>4, <1>5 DEF Chain
<1> QED
  BY <1>6 DEF v, e

LEMMA CutChain ==
  ASSUME NEW M, NEW w \in Seq(M), NEW q \in Seq(M), NEW d \in [Server -> Seq(M)],
         NEW b \in Nat, NEW a, NEW s \in Server, NEW k \in 0..Len(d[s]),
         Chain(w, q, d, b, a)
  PROVE  Chain(w, q, [d EXCEPT ![s] = SubSeq(@, 1, k)], b + 1, a)
<1> DEFINE v == SubSeq(d[s], 1, k)
           e == [d EXCEPT ![s] = v]
<1>1. \A i \in DOMAIN v : i \in DOMAIN d[s] /\ v[i] = d[s][i]
  OBVIOUS
<1>2. \A t \in Server : \A i \in DOMAIN e[t] : i \in DOMAIN d[t] /\ e[t][i] = d[t][i]
  BY <1>1
<1>3. \A x, y : Later(b, x, y) => Later(b + 1, x, y)
  BY DEF Later, Once
<1>4. \A x : Newer(b, a, x) => Newer(b + 1, a, x)
  BY DEF Newer, Once
<1> HIDE DEF v, e
<1>5. Ascends(w, b + 1) /\ Ascends(q, b + 1) /\ Ahead(w, q, b + 1)
      /\ Above(w, b + 1, a) /\ Above(q, b + 1, a)
  BY <1>3, <1>4 DEF Chain, Ascends, Ahead, Above
<1>6. \A t \in Server : Ascends(e[t], b + 1) /\ Ahead(w, e[t], b + 1) /\ Ahead(q, e[t], b + 1)
                        /\ Above(e[t], b + 1, a)
  BY <1>2, <1>3, <1>4 DEF Chain, Ascends, Ahead, Above
<1>7. Chain(w, q, e, b + 1, a)
  BY <1>5, <1>6 DEF Chain
<1> QED
  BY <1>7 DEF v, e

LEMMA RegisterChain ==
  ASSUME NEW M, NEW q \in Seq(M), NEW d \in [Server -> Seq(M)], NEW b, NEW a,
         q # <<>>, Head(q).type = "ServerQueued", Chain(<<>>, q, d, b, a)
  PROVE  Tail(q) \in Seq(M) /\ Chain(<<>>, Tail(q), d, b, Head(q).rid)
<1> DEFINE r == Tail(q)
           n == Head(q).rid
<1>1. /\ r \in Seq(M) /\ Head(q) = q[1] /\ 1 \in DOMAIN q
      /\ \A i \in DOMAIN r : i + 1 \in DOMAIN q /\ r[i] = q[i + 1] /\ 1 < i + 1
  BY TailParts
<1>2. \A x : Later(b, Head(q), x) => Newer(b, n, x)
  BY DEF Later, Newer, Once, IsStop
<1>3. Chain(<<>>, r, d, b, a)
  <2>1. <<>> \in Seq(M)
    OBVIOUS
  <2>2. Rest(r, q)
    BY DEF Rest
  <2> HIDE DEF r
  <2> QED
    BY <2>1, <2>2, RestChain
<1> HIDE DEF r, n
<1>4. Above(r, b, n)
  BY <1>1, <1>2 DEF Chain, Ascends, Above
<1>5. \A s \in Server : Above(d[s], b, n)
  BY <1>1, <1>2 DEF Chain, Ahead, Above
<1>6. Above(<<>>, b, n)
  BY DEF Above
<1>7. Chain(<<>>, r, d, b, n)
  BY <1>3, <1>4, <1>5, <1>6 DEF Chain
<1> QED
  BY <1>1, <1>7 DEF r, n

-----------------------------------------------------------------------------
(* What the steps of the client do *)

\* SetNewState: the client waits for a server or a round again.
WaitStep ==
  /\ \E r : Rest(r, todo) /\ todo' = storage \o r
  /\ storage' = <<>> /\ UNCHANGED <<down, up>>
  /\ c' \in ClientRecord /\ c'.st \in {"WaitingForServer", "Queuing"}
  /\ c'.rid = c.rid /\ c'.eph = c.eph /\ c'.round = c.round
DropStep == todo # <<>> /\ todo' = Tail(todo) /\ UNCHANGED <<c, storage, down, up>>
Quiet == UNCHANGED <<c, storage, todo, down, up>>

OfTheClient ==
  \/ ClientStep
  \/ \E s \in Server : Deliver(s) \/ HandleConnection(s) \/ HandleDisconnection(s)
OfOthers ==
  \/ Open
  \/ \E s \in Server :
       \/ AtServer(s) \/ Break(s) \/ ServerLoses(s) \/ Registering(s) \/ TakeRegister(s)
       \/ FinishClientRegister(s) \/ VerifyList(s) \/ EnterComm(s) \/ SendData(s)
       \/ BroadcastStop(s) \/ LeaveAttempt(s) \/ RelayStop(s) \/ ServerRoundOver(s)

LEMMA WaitingWaits ==
  ASSUME c \in ClientRecord, NEW cn \in SUBSET Server, NEW r, Rest(r, todo), Waiting(c, cn, r),
         UNCHANGED <<down, up>>
  PROVE  WaitStep
<1>1. CASE cn = {}
  BY <1>1 DEF Waiting, Goto, WaitStep, ClientRecord, ClientStates
<1>2. CASE cn # {}
  <2>1. PICK s \in cn : Goto([c EXCEPT !.st = "Queuing", !.server = s], r)
    BY <1>2 DEF Waiting
  <2> QED
    BY <2>1 DEF Goto, WaitStep, ClientRecord, ClientStates
<1> QED
  BY <1>1, <1>2

LEMMA ClientStepKinds ==
  ASSUME Inv, OfTheClient
  PROVE  /\ UNCHANGED <<servers, table, breaks>>
         /\ WaitStep \/ DropStep \/ Quiet \/ StoreMessage \/ ProcessQueued \/ ProcessStart
            \/ \E s \in Server : Deliver(s)
<1> USE DEF servers
<1>1. c \in ClientRecord /\ conn \in SUBSET Server
  BY DEF Inv, ClientTypes, OneConnection
<1>2. Rest(<<>>, todo) /\ (todo # <<>> => Rest(Tail(todo), todo))
  BY DEF Rest
<1>3. CASE StoreMessage \/ ProcessQueued \/ ProcessStart
  BY <1>3 DEF StoreMessage, ProcessQueued, ProcessStart
<1>4. CASE Drop
  BY <1>4 DEF Drop, DropStep
<1>5. CASE ProcessStop
  <2>1. CASE last # Msg /\ CheckServerStop(Msg)
    BY <1>1, <1>2, <1>5, <2>1, WaitingWaits DEF ProcessStop, Processing
  <2>2. CASE ~(last # Msg /\ CheckServerStop(Msg))
    BY <1>5, <2>2 DEF ProcessStop, Processing, DropStep
  <2>3. UNCHANGED <<servers, table, breaks>>
    BY <1>5 DEF ProcessStop
  <2> QED
    BY <2>1, <2>2, <2>3
<1>6. CASE CommStop
  BY <1>1, <1>2, <1>6, WaitingWaits DEF CommStop, Processing
<1>7. CASE Start \/ RoundFinished
  BY <1>1, <1>2, <1>7, WaitingWaits DEF Start, RoundFinished
<1>8. ASSUME NEW s \in Server, Deliver(s)
      PROVE  UNCHANGED <<servers, table, breaks>>
  BY <1>8 DEF Deliver
<1>9. ASSUME NEW s \in Server, HandleConnection(s)
      PROVE  (WaitStep \/ Quiet) /\ UNCHANGED <<servers, table, breaks>>
  <2>1. {s} \in SUBSET Server
    OBVIOUS
  <2>2. UNCHANGED <<servers, table, breaks, down, up>>
    BY <1>9 DEF HandleConnection
  <2>3. CASE c.st = "WaitingForServer"
    <3>1. Waiting(c, {s}, <<>>)
      BY <1>9, <2>3 DEF HandleConnection
    <3> QED
      BY <1>1, <1>2, <2>1, <2>2, <3>1, WaitingWaits
  <2>4. CASE c.st # "WaitingForServer"
    BY <1>9, <2>2, <2>4 DEF HandleConnection, Quiet
  <2> QED
    BY <2>2, <2>3, <2>4
<1>10. ASSUME NEW s \in Server, HandleDisconnection(s)
       PROVE  (WaitStep \/ Quiet) /\ UNCHANGED <<servers, table, breaks>>
  <2>1. conn' \in SUBSET Server
    BY <1>1, <1>10 DEF HandleDisconnection
  <2>2. UNCHANGED <<servers, table, breaks, down, up>>
    BY <1>10 DEF HandleDisconnection
  <2>3. Waiting(c, conn', <<>>) \/ UNCHANGED <<c, storage, todo>>
    BY <1>10 DEF HandleDisconnection
  <2> QED
    BY <1>1, <1>2, <2>1, <2>2, <2>3, WaitingWaits DEF Quiet
<1> QED
  BY <1>3, <1>4, <1>5, <1>6, <1>7, <1>8, <1>9, <1>10 DEF OfTheClient, ClientStep

-----------------------------------------------------------------------------
(* Nothing is taken back: what was sound stays sound *)

Advances ==
  /\ c'.rid \in Nat /\ attempt' \in Nat /\ breaks' \in Nat
  /\ c.rid <= c'.rid /\ attempt <= attempt' /\ offered \subseteq offered' /\ breaks <= breaks'
  /\ breaks = 0 /\ c'.rid = c.rid => c'.eph = c.eph
  /\ halted \subseteq halted'
  /\ \A a \in Attempt : Frozen(a) => Frozen(a)' /\ roster'[a] = roster[a]

LEMMA ClientAdvances ==
  ASSUME Inv, OfTheClient
  PROVE  Advances
<1>1. UNCHANGED <<attempt, offered, breaks, srv, roster, halted>>
  BY ClientStepKinds DEF servers
<1>2. c \in ClientRecord /\ attempt \in Nat /\ breaks \in Nat
  BY AttemptAssumption DEF Inv, ClientTypes, ServerTypes
<1>3. c'.rid \in Nat /\ c.rid <= c'.rid /\ (breaks = 0 /\ c'.rid = c.rid => c'.eph = c.eph)
  <2>1. CASE ProcessQueued
    <3>1. todo # <<>> /\ Msg.type = "ServerQueued" /\ c'.rid = Msg.rid
      BY <1>2, <2>1 DEF ProcessQueued, Processing, Goto, NewRound, ClientRecord
    <3>2. todo \in Seq(Messages)
      BY DEF Inv, ClientTypes
    <3>3. 1 \in DOMAIN todo /\ Msg = todo[1] /\ Msg \in Messages
      BY <3>1, <3>2, TailParts DEF Msg
    <3>4. Newer(breaks, c.rid, Msg)
      BY <3>3 DEF Inv, InOrder, Chain, Above
    <3>6. Msg.rid \in offered
      BY <3>1, <3>3, MessageKinds
    <3>7. Msg.rid \in Nat
      <4>1. offered \subseteq 1..attempt
        BY DEF Inv, ServerTypes
      <4>2. \A n \in offered : n \in Nat
        BY <1>2, <4>1
      <4> QED
        BY <3>6, <4>2
    <3> QED
      BY <1>2, <3>1, <3>4, <3>7 DEF Newer, Once, IsStop
  <2>2. CASE ~ProcessQueued
    <3>1. c'.rid = c.rid /\ c'.eph = c.eph
      BY <1>2, <2>2, ClientStepKinds
      DEF WaitStep, DropStep, Quiet, StoreMessage, ProcessStart, Goto, NextRound, Deliver,
          ClientRecord
    <3> QED
      BY <1>2, <3>1 DEF ClientRecord
  <2> QED
    BY <2>1, <2>2
<1>4. \A a : Frozen(a)' <=> Frozen(a)
  BY <1>1 DEF Frozen
<1> QED
  BY <1>1, <1>2, <1>3, <1>4 DEF Advances

LEMMA OthersAdvance ==
  ASSUME Inv, OfOthers
  PROVE  Advances /\ UNCHANGED <<client, conn>>
<1>1. /\ c \in ClientRecord /\ attempt \in Nat /\ breaks \in Nat
      /\ srv \in [Server -> [st : ServerStates, rid : {attempt}, key : Nat,
                         listed : 0..attempt, signed : 0..attempt]]
      /\ roster \in [Attempt -> Nat]
  BY AttemptAssumption DEF Inv, ClientTypes, ServerTypes
<1>2. CASE Open
  <2>1. attempt' = attempt + 1 /\ UNCHANGED <<client, conn, offered, breaks, roster, halted>>
    BY <1>2 DEF Open
  <2>2. \A a \in Attempt : Frozen(a) => a < attempt'
    BY <1>1, <2>1 DEF Frozen, Attempt
  <2> QED
    BY <1>1, <2>1, <2>2 DEF Advances, Frozen, client, ClientRecord
<1>3. ASSUME NEW s \in Server, VerifyList(s)
      PROVE  Advances /\ UNCHANGED <<client, conn>>
  <2>1. /\ UNCHANGED <<client, conn, attempt, offered, breaks, halted>>
        /\ srv' = [srv EXCEPT ![s].st = "VerifyList", ![s].signed = srv[s].rid]
        /\ \E k : (\A t \in Server : srv[t].signed = srv[s].rid => roster[srv[s].rid] = k)
                  /\ roster' = [roster EXCEPT ![srv[s].rid] = k]
    BY <1>3 DEF VerifyList
  <2>2. srv[s].rid = attempt
    BY <1>1
  <2>3. \A t \in Server : srv[t].signed = attempt => srv'[t].signed = attempt
    BY <1>1, <2>1, <2>2
  <2>4. \A t \in Server \ {s} : srv'[t].signed = srv[t].signed
    BY <1>1, <2>1
  <2>5. ASSUME NEW a \in Attempt, Frozen(a)
        PROVE  Frozen(a)' /\ roster'[a] = roster[a]
    <3>1. CASE a < attempt
      BY <1>1, <2>1, <2>2, <3>1 DEF Frozen
    <3>2. CASE a = attempt
      BY <1>1, <2>1, <2>2, <2>3, <2>5, <3>2 DEF Frozen
    <3>3. CASE a > attempt
      BY <1>1, <2>5, <3>3 DEF Frozen, Attempt
    <3> QED
      BY <1>1, <3>1, <3>2, <3>3 DEF Attempt
  <2> QED
    BY <1>1, <2>1, <2>5 DEF Advances, client, ClientRecord
<1>4. ASSUME NEW s \in Server,
             \/ AtServer(s) \/ Break(s) \/ ServerLoses(s) \/ Registering(s) \/ TakeRegister(s)
             \/ FinishClientRegister(s) \/ EnterComm(s) \/ SendData(s)
             \/ BroadcastStop(s) \/ LeaveAttempt(s) \/ RelayStop(s) \/ ServerRoundOver(s)
      PROVE  Advances /\ UNCHANGED <<client, conn>>
  <2>1. UNCHANGED <<client, conn, attempt, roster>>
    BY <1>4 DEF AtServer, Break, ServerLoses, Registering, TakeRegister, FinishClientRegister,
                EnterComm, SendData, BroadcastStop, LeaveAttempt, RelayStop, ServerRoundOver,
                servers
  <2>2. offered \subseteq offered'
    BY <1>4 DEF AtServer, Break, ServerLoses, Registering, TakeRegister, FinishClientRegister,
                EnterComm, SendData, BroadcastStop, LeaveAttempt, RelayStop, ServerRoundOver,
                servers
  <2>6. halted \subseteq halted'
    BY <1>4 DEF AtServer, Break, ServerLoses, Registering, TakeRegister, FinishClientRegister,
                EnterComm, SendData, BroadcastStop, LeaveAttempt, RelayStop, ServerRoundOver,
                servers
  <2>3. breaks' \in {breaks, breaks + 1}
    BY <1>4 DEF AtServer, Break, ServerLoses, Registering, TakeRegister, FinishClientRegister,
                EnterComm, SendData, BroadcastStop, LeaveAttempt, RelayStop, ServerRoundOver
  <2>4. \A t \in Server : srv'[t].signed = srv[t].signed
    <3>1. CASE AtServer(s) \/ Break(s) \/ ServerLoses(s) \/ SendData(s)
               \/ BroadcastStop(s) \/ RelayStop(s)
      BY <3>1 DEF AtServer, Break, ServerLoses, SendData, BroadcastStop, RelayStop, servers
    <3>2. CASE Registering(s)
      BY <1>1, <3>2 DEF Registering
    <3>3. CASE TakeRegister(s)
      BY <1>1, <3>3 DEF TakeRegister
    <3>4. CASE FinishClientRegister(s)
      BY <1>1, <3>4 DEF FinishClientRegister
    <3>5. CASE EnterComm(s)
      BY <1>1, <3>5 DEF EnterComm
    <3>6. CASE LeaveAttempt(s) \/ ServerRoundOver(s)
      BY <1>1, <3>6 DEF LeaveAttempt, ServerRoundOver
    <3> QED
      BY <1>4, <3>1, <3>2, <3>3, <3>4, <3>5, <3>6
  <2>5. \A a : Frozen(a)' <=> Frozen(a)
    BY <2>1, <2>4 DEF Frozen
  <2> QED
    BY <1>1, <2>1, <2>2, <2>3, <2>5, <2>6 DEF Advances, client, ClientRecord
<1> QED
  BY <1>2, <1>3, <1>4 DEF OfOthers

LEMMA SoundStaysSound ==
  ASSUME Inv, Advances
  PROVE  Messages \subseteq Messages' /\ Registrations \subseteq Registrations'
<1>1. c \in ClientRecord /\ attempt \in Nat /\ breaks \in Nat
  BY AttemptAssumption DEF Inv, ClientTypes, ServerTypes

<1>2. ASSUME NEW a \in {b \in Attempt : Started(b)}
      PROVE  a \in {b \in Attempt : Started(b)'} /\ roster'[a] = roster[a]
  <2>1. a \in Attempt /\ a \in Nat /\ Started(a)
    BY AttemptAssumption DEF Attempt
  <2>2. Frozen(a)' /\ roster'[a] = roster[a]
    BY <2>1 DEF Started, Advances
  <2>3. a <= c'.rid
    BY <1>1, <2>1 DEF Started, Advances, ClientRecord
  <2>4. breaks' = 0 /\ a = c'.rid => roster'[a] = c'.eph
    BY <1>1, <2>1, <2>2 DEF Started, Advances, ClientRecord
  <2> QED
    BY <2>1, <2>2, <2>3, <2>4 DEF Started
<1>3. \A a \in 0..attempt : a \in 0..attempt'
  BY <1>1 DEF Advances
<1>4. ASSUME NEW m \in Messages PROVE m \in Messages'
  <2>1. CASE m \in {ServerQueued(a, s) : a \in offered, s \in Server}
    BY <2>1 DEF Advances, Messages, ServerQueued
  <2>2. CASE m \in {SessionData(a) : a \in 0..attempt}
    BY <1>3, <2>2 DEF Messages, SessionData
  <2>3. CASE m \in halted
    BY <2>3 DEF Messages, Advances
  <2>4. CASE m \in {ServerStart(a, roster[a]) : a \in {b \in Attempt : Started(b)}}
    <3>1. PICK a \in {b \in Attempt : Started(b)} : m = ServerStart(a, roster[a])
      BY <2>4
    <3>2. a \in {b \in Attempt : Started(b)'} /\ m = ServerStart(a, roster'[a])
      BY <1>2, <3>1
    <3> QED
      BY <3>2 DEF Messages, ServerStart
  <2> QED
    BY <2>1, <2>2, <2>3, <2>4 DEF Messages
<1>5. ASSUME NEW m \in Registrations PROVE m \in Registrations'
  BY <1>1, <1>5 DEF Registrations, Advances, ClientRecord
<1> QED
  BY <1>4, <1>5

LEMMA Numbers ==
  ASSUME Inv
  PROVE  /\ attempt \in Nat /\ c.rid \in Nat /\ c.rid <= attempt
         /\ \A a \in offered : a \in Nat /\ a # 0 /\ a <= attempt
<1>1. attempt \in Nat /\ offered \subseteq 1..attempt
  BY AttemptAssumption DEF Inv, ServerTypes
<1>2. \A a \in offered : a \in Nat /\ a # 0 /\ a <= attempt
  BY <1>1
<1>3. c.rid \in offered \/ c.rid = 0
  BY DEF Inv, OfferedOnce
<1>4. c.rid \in Nat /\ c.rid <= attempt
  <2> DEFINE n == c.rid
  <2> HIDE DEF n
  <2>1. n \in offered \/ n = 0
    BY <1>3 DEF n
  <2>2. n = 0 => n \in Nat /\ n <= attempt
    BY <1>1
  <2>3. n \in offered => n \in Nat /\ n <= attempt
    BY <1>2
  <2>4. n \in Nat /\ n <= attempt
    BY <2>1, <2>2, <2>3
  <2> QED
    BY <2>4 DEF n
<1> QED
  BY <1>1, <1>2, <1>4

LEMMA MessageAttempts ==
  ASSUME Inv, NEW x \in Messages
  PROVE  x.type # "ServerStop" => x.rid \in 0..attempt
<1>1. \A a \in offered : a \in 0..attempt
  <2>1. attempt \in Nat /\ \A a \in offered : a \in Nat /\ a <= attempt
    BY Numbers
  <2> QED
    BY <2>1
<1>2. CASE \E a \in Attempt : Started(a) /\ x = ServerStart(a, roster[a])
  <2>1. PICK a \in Attempt : Started(a) /\ x = ServerStart(a, roster[a])
    BY <1>2
  <2>2. a \in Nat /\ a <= c.rid
    BY <2>1, AttemptAssumption DEF Started, Attempt
  <2>3. a \in 0..attempt
    BY <2>2, Numbers
  <2> QED
    BY <2>1, <2>3 DEF ServerStart
<1> QED
  BY <1>1, <1>2, MessageKinds

-----------------------------------------------------------------------------
(* The order of the messages, and what they are *)

LEMMA ClientInOrder ==
  ASSUME Inv, OfTheClient
  PROVE  /\ storage' \in Seq(Messages) /\ todo' \in Seq(Messages)
         /\ down' \in [Server -> Seq(Messages)] /\ InOrder'
<1>1. /\ storage \in Seq(Messages) /\ todo \in Seq(Messages)
      /\ down \in [Server -> Seq(Messages)] /\ c \in ClientRecord
      /\ Chain(storage, todo, down, breaks, c.rid) /\ <<>> \in Seq(Messages)
  BY DEF Inv, ClientTypes, InOrder
<1>2. breaks' = breaks
  BY ClientStepKinds
<1>3. CASE WaitStep
  <2>1. PICK r : Rest(r, todo) /\ todo' = storage \o r
    BY <1>3 DEF WaitStep
  <2>2. storage' = <<>> /\ down' = down /\ c'.rid = c.rid
    BY <1>3 DEF WaitStep
  <2> QED
    BY <1>1, <1>2, <2>1, <2>2, ReplayChain DEF InOrder
<1>4. CASE DropStep
  BY <1>1, <1>2, <1>4, RestChain DEF DropStep, InOrder, Rest
<1>5. CASE Quiet
  BY <1>1, <1>2, <1>5 DEF Quiet, InOrder
<1>6. CASE StoreMessage
  BY <1>1, <1>2, <1>6, StoreChain DEF StoreMessage, Msg, InOrder
<1>7. CASE ProcessQueued
  <2>1. todo # <<>> /\ Head(todo).type = "ServerQueued" /\ storage = <<>>
    BY <1>7 DEF ProcessQueued, Processing, Msg, Inv, NothingStored
  <2>2. storage' = <<>> /\ todo' = <<>> \o Tail(todo) /\ down' = down
    BY <1>7, <2>1 DEF ProcessQueued, Goto
  <2>3. c'.rid = Head(todo).rid
    BY <1>1, <1>7 DEF ProcessQueued, Goto, NewRound, Msg, ClientRecord
  <2>4. Tail(todo) \in Seq(Messages)
        /\ Chain(<<>>, Tail(todo), down, breaks, Head(todo).rid)
    BY <1>1, <2>1, RegisterChain
  <2>5. todo' = Tail(todo)
    BY <2>2, <2>4
  <2> HIDE DEF InOrder
  <2>6. storage' = <<>> /\ <<>> \in Seq(Messages)
    BY <1>1, <2>2
  <2>7. Chain(storage', todo', down', breaks', c'.rid)
    BY <1>2, <2>2, <2>3, <2>4, <2>5
  <2> QED
    BY <1>1, <2>2, <2>4, <2>5, <2>6, <2>7 DEF InOrder
<1>8. CASE ProcessStart
  <2>1. todo # <<>> /\ storage' = <<>> /\ todo' = storage \o Tail(todo) /\ down' = down
    BY <1>8 DEF ProcessStart, Processing, Goto
  <2>2. c'.rid = c.rid
    BY <1>1, <1>8 DEF ProcessStart, Goto, NextRound, ClientRecord
  <2>3. Rest(Tail(todo), todo)
    BY <2>1 DEF Rest
  <2> QED
    BY <1>1, <1>2, <2>1, <2>2, <2>3, ReplayChain DEF InOrder
<1>9. ASSUME NEW s \in Server, Deliver(s)
      PROVE  /\ storage' \in Seq(Messages) /\ todo' \in Seq(Messages)
             /\ down' \in [Server -> Seq(Messages)] /\ InOrder'
  <2>1. todo = <<>> /\ down[s] # <<>> /\ todo' = <<Head(down[s])>>
        /\ down' = [down EXCEPT ![s] = Tail(@)] /\ UNCHANGED <<c, storage>>
    BY <1>9 DEF Deliver, Idle
  <2>2. \A t \in Server \ {s} : down[t] = <<>>
    BY <2>1 DEF Inv, OneConnection
  <2>3. Chain(storage, <<>>, down, breaks, c.rid)
    BY <1>1, <2>1
  <2> QED
    BY <1>1, <1>2, <2>1, <2>2, <2>3, DeliverChain DEF InOrder
<1> QED
  BY <1>3, <1>4, <1>5, <1>6, <1>7, <1>8, <1>9, ClientStepKinds

\* m is a stop or is sent in the current attempt, for the first time if it offers it.
Fresh(m) ==
  \/ IsStop(m)
  \/ m.rid = attempt /\ (Once(breaks, m) => attempt # 0 /\ attempt \notin offered)

LEMMA SendInOrder ==
  ASSUME Inv, NEW s \in Server, NEW m, Fresh(m), NEW M, Messages \subseteq M, m \in M
  PROVE  LET e == [down EXCEPT ![s] = Append(@, m)]
         IN e \in [Server -> Seq(M)] /\ Chain(storage, todo, e, breaks, c.rid)
<1>1. /\ storage \in Seq(Messages) /\ todo \in Seq(Messages)
      /\ down \in [Server -> Seq(Messages)] /\ Chain(storage, todo, down, breaks, c.rid)
  BY DEF Inv, ClientTypes, InOrder
<1>2. \A x \in Messages : Later(breaks, x, m)
  <2> SUFFICES ASSUME NEW x \in Messages, ~IsStop(x), ~IsStop(m) PROVE Later(breaks, x, m)
    BY DEF Later
  <2>1. x.rid \in 0..attempt /\ (x.type = "ServerQueued" => x.rid \in offered)
    BY MessageAttempts, MessageKinds DEF IsStop
  <2> QED
    BY <2>1 DEF Fresh, Later, Once
<1>3. Newer(breaks, c.rid, m)
  <2>1. c.rid \in offered \/ c.rid = 0
    BY DEF Inv, OfferedOnce
  <2> QED
    BY <2>1, Numbers DEF Newer, Fresh, Once
<1>4. Chain(storage, todo, [down EXCEPT ![s] = Append(@, m)], breaks, c.rid)
  BY <1>1, <1>2, <1>3, SendChain
<1>5. [down EXCEPT ![s] = Append(@, m)] \in [Server -> Seq(M)]
  <2>1. ASSUME NEW t \in Server PROVE down[t] \in Seq(M)
    <3>1. down[t] \in Seq(Messages)
      BY <1>1
    <3> QED
      BY <3>1
  <2>2. Append(down[s], m) \in Seq(M)
    BY <2>1
  <2> QED
    BY <1>1, <2>1, <2>2
<1> QED
  BY <1>4, <1>5

ServerRecord ==
  [st : ServerStates, rid : {attempt}, key : Nat,
   listed : 0..attempt, signed : 0..attempt]

\* What a step of the others does to the edges.
EdgesKept ==
  /\ down' \in [Server -> Seq(Messages')] /\ InOrder'
  /\ \A t \in Server \ edge : down[t] = <<>> => down'[t] = <<>>

LEMMA SameEdges ==
  ASSUME Inv, Messages \subseteq Messages', UNCHANGED <<client, down, breaks>>
  PROVE  EdgesKept
<1>1. down \in [Server -> Seq(Messages)] /\ Chain(storage, todo, down, breaks, c.rid)
  BY DEF Inv, ClientTypes, InOrder
<1>2. \A t \in Server : down[t] \in Seq(Messages')
  <2> TAKE t \in Server
  <2>1. down[t] \in Seq(Messages)
    BY <1>1
  <2> QED
    BY <2>1
<1>3. down' \in [Server -> Seq(Messages')]
  BY <1>1, <1>2
<1>4. InOrder'
  BY <1>1 DEF InOrder, client
<1> QED
  BY <1>3, <1>4 DEF EdgesKept

LEMMA SentEdges ==
  ASSUME Inv, Messages \subseteq Messages', UNCHANGED <<client, breaks>>,
         NEW s \in Server, NEW m, Send(s, m),
         s \in table \cap edge => Fresh(m) /\ m \in Messages'
  PROVE  EdgesKept
<1>1. down \in [Server -> Seq(Messages)]
  BY DEF Inv, ClientTypes
<1>2. CASE s \in table \cap edge
  <2>1. down' = [down EXCEPT ![s] = Append(@, m)]
    BY <1>2 DEF Send
  <2>2. down' \in [Server -> Seq(Messages')] /\ Chain(storage, todo, down', breaks, c.rid)
    BY <1>2, <2>1, SendInOrder
  <2>3. \A t \in Server \ edge : down'[t] = down[t]
    BY <1>1, <1>2, <2>1
  <2> QED
    BY <2>2, <2>3 DEF EdgesKept, InOrder, client
<1>3. CASE s \notin table \cap edge
  <2>1. down' = down
    BY <1>1, <1>3 DEF Send
  <2> QED
    BY <2>1, SameEdges
<1> QED
  BY <1>2, <1>3

LEMMA OfferIsFresh ==
  ASSUME Inv, NEW s \in edge \cap Server,
         \/ s \in table /\ srv[s].st = "Agree"
         \/ s \notin table /\ srv[s].st = "Registering"
  PROVE  srv[s].rid = attempt /\ attempt # 0 /\ Fresh(ServerQueued(srv[s].rid, s))
<1>1. srv[s].rid = attempt
  BY DEF Inv, ServerTypes
<1>2. attempt # 0
  BY DEF Inv, ServersInStep
<1>3. breaks = 0 => attempt \notin offered
  <2>1. CASE s \in table
    BY <2>1 DEF Inv, OfferedOnce
  <2>2. CASE s \notin table
    <3>1. breaks = 0 => table = {}
      BY <2>2 DEF Inv, OneConnection
    <3> QED
      BY <2>2, <3>1 DEF Inv, OfferedOnce
  <2> QED
    BY <2>1, <2>2
<1> QED
  BY <1>1, <1>2, <1>3 DEF Fresh, Once, ServerQueued

LEMMA StartIsSound ==
  ASSUME Inv, NEW s \in Server, EnterComm(s), roster[srv[s].rid] # None
  PROVE  ServerStart(srv[s].rid, roster[srv[s].rid]) \in Messages
         /\ Fresh(ServerStart(srv[s].rid, roster[srv[s].rid]))
<1>1. srv[s].rid = attempt /\ srv[s].st = "VerifyList" /\ srv[s].signed = attempt
  BY DEF EnterComm, Inv, ServerTypes
<1>2. attempt \in Attempt
  BY <1>1, AttemptAssumption DEF Inv, ServerTypes, ServersInStep, Attempt
<1>3. attempt = c.rid /\ (breaks = 0 => roster[attempt] = c.eph)
  BY <1>1, <1>2 DEF Inv, ServersInStep
<1>4. Started(attempt)
  BY <1>1, <1>3, Numbers DEF Started, Frozen
<1>5. ServerStart(attempt, roster[attempt]) \in Messages
  BY <1>2, <1>4 DEF Messages
<1>6. Fresh(ServerStart(attempt, roster[attempt]))
  BY DEF Fresh, ServerStart, Once
<1> QED
  BY <1>1, <1>5, <1>6

LEMMA OthersInOrder ==
  ASSUME Inv, OfOthers
  PROVE  EdgesKept
<1>1. Advances /\ UNCHANGED <<client, conn>> /\ Messages \subseteq Messages'
  BY OthersAdvance, SoundStaysSound
<1>2. CASE Open
  BY <1>1, <1>2, SameEdges DEF Open
<1>3. ASSUME NEW s \in Server,
             ServerLoses(s) \/ TakeRegister(s) \/ FinishClientRegister(s) \/ VerifyList(s)
             \/ LeaveAttempt(s) \/ ServerRoundOver(s)
      PROVE  EdgesKept
  <2>1. UNCHANGED <<down, breaks>>
    BY <1>3 DEF ServerLoses, TakeRegister, FinishClientRegister, VerifyList, LeaveAttempt,
                ServerRoundOver
  <2> QED
    BY <1>1, <2>1, SameEdges
<1>4. ASSUME NEW s \in Server, AtServer(s) PROVE EdgesKept
  <2>1. CASE srv[s].st = "Registering"
    <3>1. s \in edge /\ s \notin table /\ breaks' = breaks
          /\ down' = [down EXCEPT ![s] = Append(@, ServerQueued(srv[s].rid, s))]
          /\ srv[s].rid \in offered'
      BY <1>4, <2>1 DEF AtServer
    <3>2. Fresh(ServerQueued(srv[s].rid, s)) /\ ServerQueued(srv[s].rid, s) \in Messages'
      BY <2>1, <3>1, OfferIsFresh DEF Messages
    <3>3. down' \in [Server -> Seq(Messages')] /\ Chain(storage, todo, down', breaks, c.rid)
      BY <1>1, <3>1, <3>2, SendInOrder
    <3>4. \A t \in Server \ edge : down'[t] = down[t]
      BY <3>1 DEF Inv, ClientTypes
    <3> QED
      BY <1>1, <3>1, <3>3, <3>4 DEF EdgesKept, InOrder, client
  <2>2. CASE srv[s].st # "Registering"
    BY <1>1, <1>4, <2>2, SameEdges DEF AtServer
  <2> QED
    BY <2>1, <2>2
<1>5. ASSUME NEW s \in Server, Registering(s) PROVE EdgesKept
  <2>1. Send(s, ServerQueued(srv[s].rid, s)) /\ srv[s].st = "Agree" /\ breaks' = breaks
        /\ (s \in table => srv[s].rid \in offered')
    BY <1>5 DEF Registering
  <2>2. s \in table \cap edge => Fresh(ServerQueued(srv[s].rid, s))
                                 /\ ServerQueued(srv[s].rid, s) \in Messages'
    BY <2>1, OfferIsFresh DEF Messages
  <2> QED
    BY <1>1, <2>1, <2>2, SentEdges
<1>6. ASSUME NEW s \in Server, EnterComm(s) PROVE EdgesKept
  <2>1. breaks' = breaks
    BY <1>6 DEF EnterComm
  <2>2. CASE roster[srv[s].rid] = None
    BY <1>1, <1>6, <2>1, <2>2, SameEdges DEF EnterComm
  <2>3. CASE roster[srv[s].rid] # None
    <3>1. Send(s, ServerStart(srv[s].rid, roster[srv[s].rid]))
      BY <1>6, <2>3 DEF EnterComm
    <3> QED
      BY <1>1, <1>6, <2>1, <2>3, <3>1, StartIsSound, SentEdges
  <2> QED
    BY <2>2, <2>3
<1>7. ASSUME NEW s \in Server, SendData(s) PROVE EdgesKept
  <2>1. Send(s, SessionData(attempt)) /\ breaks' = breaks
    BY <1>7 DEF SendData
  <2>2. Fresh(SessionData(attempt)) /\ SessionData(attempt) \in Messages
    BY Numbers DEF Fresh, SessionData, Once, Messages
  <2> QED
    BY <1>1, <2>1, <2>2, SentEdges
<1>8. ASSUME NEW s \in Server, BroadcastStop(s) \/ RelayStop(s) PROVE EdgesKept
  <2>1. PICK m \in halted' : Send(s, m) /\ breaks' = breaks
    BY <1>8 DEF BroadcastStop, RelayStop, Stops, servers
  <2>2. IsStop(m)
    <3>1. \A x \in halted : IsStop(x)
      BY DEF Inv, ServerTypes
    <3>2. CASE BroadcastStop(s)
      <4>1. PICK x : IsStop(x) /\ halted' = halted \cup {x}
        BY <3>2 DEF BroadcastStop, ServerStop, IsStop
      <4> QED
        BY <2>1, <3>1, <4>1
    <3>3. CASE RelayStop(s)
      BY <2>1, <3>1, <3>3 DEF RelayStop, servers
    <3> QED
      BY <1>8, <3>2, <3>3
  <2>3. Fresh(m) /\ m \in Messages'
    BY <2>1, <2>2 DEF Fresh, Messages
  <2> QED
    BY <1>1, <2>1, <2>3, SentEdges
<1>9. ASSUME NEW s \in Server, Break(s) PROVE EdgesKept
  <2>1. PICK j \in 0..Len(down[s]) : down' = [down EXCEPT ![s] = SubSeq(@, 1, j)]
    BY <1>9 DEF Break
  <2>2. breaks' = breaks + 1 /\ s \in edge
    BY <1>9 DEF Break
  <2>3. /\ down \in [Server -> Seq(Messages)] /\ Chain(storage, todo, down, breaks, c.rid)
        /\ storage \in Seq(Messages) /\ todo \in Seq(Messages) /\ breaks \in Nat
    BY DEF Inv, ClientTypes, InOrder
  <2>4. Chain(storage, todo, down', breaks + 1, c.rid)
    BY <2>1, <2>3, CutChain
  <2>5. \A t \in Server : down'[t] \in Seq(Messages')
    <3> TAKE t \in Server
    <3>1. down[t] \in Seq(Messages) /\ down[t] \in Seq(Messages')
      BY <1>1, <2>3
    <3>2. down'[t] = IF t = s THEN SubSeq(down[t], 1, j) ELSE down[t]
      BY <2>1, <2>3
    <3> QED
      BY <2>1, <3>1, <3>2
  <2>6. down' \in [Server -> Seq(Messages')] /\ \A t \in Server \ edge : down'[t] = down[t]
    BY <2>1, <2>2, <2>3, <2>5
  <2> QED
    BY <1>1, <2>2, <2>4, <2>6 DEF EdgesKept, InOrder, client
<1> QED
  BY <1>2, <1>3, <1>4, <1>5, <1>6, <1>7, <1>8, <1>9 DEF OfOthers

-----------------------------------------------------------------------------
(* The other parts of the invariant *)

LEMMA WiderSeq ==
  ASSUME NEW M, NEW N, M \subseteq N
  PROVE  Seq(M) \subseteq Seq(N) /\ [Server -> Seq(M)] \subseteq [Server -> Seq(N)]
<1>1. Seq(M) \subseteq Seq(N)
  OBVIOUS
<1> QED
  BY <1>1

LEMMA NewRoundType ==
  ASSUME NEW d \in ClientRecord, NEW n \in Nat
  PROVE  NewRound(d, n) \in ClientRecord
<1>1. d.eph \in Nat
  BY DEF ClientRecord
<1>2. d.eph + 1 \in Nat
  BY <1>1
<1> DEFINE k == d.eph + 1
<1> HIDE DEF k
<1>3. k \in Nat
  BY <1>2 DEF k
<1>4. [d EXCEPT !.rid = n, !.eph = k] \in ClientRecord
  BY <1>3 DEF ClientRecord
<1> QED
  BY <1>4 DEF NewRound, k

LEMMA NextClientTypes ==
  ASSUME Inv, OfTheClient \/ OfOthers, Advances, Messages \subseteq Messages',
         Registrations \subseteq Registrations'
  PROVE  ClientTypes'
<1>1. /\ storage \in Seq(Messages) /\ todo \in Seq(Messages) /\ c \in ClientRecord
      /\ up \in [Server -> Seq(Registrations)] /\ up \in [Server -> Seq(Registrations')]
  BY WiderSeq DEF Inv, ClientTypes
<1>2. breaks' \in Nat
  BY DEF Advances
<1>3. CASE OfTheClient
  <2>1. /\ storage' \in Seq(Messages') /\ todo' \in Seq(Messages')
        /\ down' \in [Server -> Seq(Messages')]
    BY <1>3, ClientInOrder, WiderSeq
  <2>2. CASE ProcessQueued
    <3>1. c' \in ClientRecord /\ c'.rid = Msg.rid /\ c'.eph = c.eph + 1
          /\ c' = [NewRound(c, Msg.rid) EXCEPT !.st = "Registering"]
      <4>1. c' = [NewRound(c, Msg.rid) EXCEPT !.st = "Registering"]
        BY <2>2 DEF ProcessQueued, Goto
      <4>2. c'.rid = Msg.rid /\ c'.eph = c.eph + 1 /\ c'.rid \in Nat
        BY <1>1, <4>1 DEF NewRound, ClientRecord, Advances
      <4> DEFINE n == Msg.rid
      <4>3. n \in Nat
        BY <4>2
      <4> HIDE DEF n
      <4>4. [NewRound(c, n) EXCEPT !.st = "Registering"] \in ClientRecord
        <5>1. NewRound(c, n) \in ClientRecord
          BY <1>1, <4>3, NewRoundType
        <5>2. \A d \in ClientRecord : [d EXCEPT !.st = "Registering"] \in ClientRecord
          BY DEF ClientRecord, ClientStates
        <5> QED
          BY <5>1, <5>2
      <4> QED
        BY <4>1, <4>2, <4>4 DEF n
    <3>2. ClientRegister(c'.rid, c'.eph) \in Registrations'
      BY <1>1, <3>1 DEF Registrations, ClientRegister, ClientRecord
    <3>3. PICK t : up' = [up EXCEPT ![t] = Append(@, ClientRegister(c'.rid, c'.eph))] \/ up' = up
      <4>1. up' = [up EXCEPT ![c.server] =
                     IF c.server \in edge THEN Append(@, ClientRegister(c'.rid, c'.eph)) ELSE @]
        BY <2>2 DEF ProcessQueued, Goto
      <4>2. CASE c.server \in edge
        BY <4>1, <4>2
      <4>3. CASE c.server \notin edge
        BY <1>1, <4>1, <4>3
      <4> QED
        BY <4>2, <4>3
    <3>4. \A s \in Server : up'[s] \in {up[s], Append(up[s], ClientRegister(c'.rid, c'.eph))}
      BY <1>1, <3>3
    <3>5. \A s \in Server : up[s] \in Seq(Registrations')
                            /\ Append(up[s], ClientRegister(c'.rid, c'.eph)) \in Seq(Registrations')
      BY <1>1, <3>2
    <3>6. up' \in [Server -> Seq(Registrations')]
      BY <1>1, <3>3, <3>4, <3>5
    <3> QED
      BY <1>2, <2>1, <3>1, <3>6 DEF ClientTypes
  <2>3. CASE ProcessStart
    <3>1. todo # <<>> /\ c' = NextRound(c, Msg) /\ Msg.type = "ServerStart" /\ up' = up
      BY <2>3 DEF ProcessStart, Processing, Goto
    <3>2. Msg \in Messages
      BY <1>1, <3>1, TailParts DEF Msg
    <3>3. \E a \in Attempt : Msg = ServerStart(a, roster[a])
      BY <3>1, <3>2, MessageKinds
    <3>4. Msg.rid \in Nat /\ Msg.key \in Nat
      BY <3>3, AttemptAssumption DEF Inv, ServerTypes, Attempt, ServerStart
    <3>5. c' \in ClientRecord
      BY <1>1, <3>1, <3>4 DEF NextRound, ClientRecord, ClientStates
    <3> QED
      BY <1>1, <1>2, <2>1, <3>1, <3>5 DEF ClientTypes
  <2>4. CASE ~ProcessQueued /\ ~ProcessStart
    <3>1. c' \in ClientRecord /\ up' = up
      BY <1>1, <1>3, <2>4, ClientStepKinds DEF WaitStep, DropStep, Quiet, StoreMessage, Deliver
    <3> QED
      BY <1>1, <1>2, <2>1, <3>1 DEF ClientTypes
  <2> QED
    BY <2>2, <2>3, <2>4
<1>4. CASE OfOthers
  <2>1. c' \in ClientRecord /\ storage' \in Seq(Messages') /\ todo' \in Seq(Messages')
    BY <1>1, <1>4, OthersAdvance, WiderSeq DEF client
  <2>2. down' \in [Server -> Seq(Messages')]
    BY <1>4, OthersInOrder DEF EdgesKept
  <2>3. up' \in [Server -> Seq(Registrations')]
    <3>1. ASSUME NEW s \in Server, Break(s) PROVE up' \in [Server -> Seq(Registrations')]
      <4>1. PICK i \in 0..Len(up[s]) : up' = [up EXCEPT ![s] = SubSeq(@, 1, i)]
        BY <3>1 DEF Break
      <4>2. up[s] \in Seq(Registrations')
        BY <1>1
      <4>3. SubSeq(up[s], 1, i) \in Seq(Registrations')
        BY <4>2
      <4> QED
        BY <1>1, <4>1, <4>3
    <3>2. ASSUME NEW s \in Server, TakeRegister(s) PROVE up' \in [Server -> Seq(Registrations')]
      <4>1. up[s] # <<>> /\ up' = [up EXCEPT ![s] = Tail(@)]
        BY <3>2 DEF TakeRegister
      <4>2. up[s] \in Seq(Registrations')
        BY <1>1
      <4>3. Tail(up[s]) \in Seq(Registrations')
        BY <4>1, <4>2, TailParts
      <4> QED
        BY <1>1, <4>1, <4>3
    <3>3. ASSUME NEW s \in Server,
                 \/ AtServer(s) \/ ServerLoses(s) \/ Registering(s) \/ FinishClientRegister(s)
                 \/ VerifyList(s) \/ EnterComm(s) \/ SendData(s) \/ BroadcastStop(s)
                 \/ LeaveAttempt(s)
                 \/ RelayStop(s) \/ ServerRoundOver(s)
          PROVE  up' = up
      BY <3>3 DEF AtServer, ServerLoses, Registering, FinishClientRegister, VerifyList, EnterComm,
                  SendData, BroadcastStop, LeaveAttempt, RelayStop, ServerRoundOver
    <3>4. Open => up' = up
      BY DEF Open
    <3> QED
      BY <1>1, <1>4, <3>1, <3>2, <3>3, <3>4 DEF OfOthers
  <2> QED
    BY <1>2, <2>1, <2>2, <2>3 DEF ClientTypes
<1> QED
  BY <1>3, <1>4

LEMMA NextServerTypes ==
  ASSUME Inv, OfTheClient \/ OfOthers
  PROVE  ServerTypes'
<1> USE AttemptAssumption
<1>1. /\ attempt \in 0..MaxAttempt /\ attempt \in Nat /\ roster \in [Attempt -> Nat]
      /\ offered \subseteq 1..attempt
      /\ srv \in [Server -> ServerRecord]
  BY DEF Inv, ServerTypes, ServerRecord
<1>2. CASE OfTheClient
  BY <1>1, <1>2, ClientStepKinds DEF servers, Inv, ServerTypes, ServerRecord
<1>3. CASE Open
  <2>1. attempt' = attempt + 1 /\ UNCHANGED <<roster, offered>> /\ attempt < MaxAttempt
        /\ srv' = [s \in Server |-> [srv[s] EXCEPT !.st = "Agree", !.rid = attempt']]
        /\ halted' = halted
    BY <1>3 DEF Open
  <2>0. attempt \in Nat /\ attempt' = attempt + 1 /\ attempt < MaxAttempt
    BY <1>1, <2>1
  <2>2. ASSUME NEW s \in Server PROVE srv'[s] \in ServerRecord'
    <3>1. srv[s] \in ServerRecord
      BY <1>1, <2>1
    <3>2. \A n \in 0..attempt : n \in 0..attempt'
      BY <2>0
    <3>3. srv'[s] = [srv[s] EXCEPT !.st = "Agree", !.rid = attempt']
      BY <2>1
    <3> QED
      BY <3>1, <3>2, <3>3 DEF ServerRecord, ServerStates
  <2>3. offered' \subseteq 1..attempt'
    <3>1. \A a \in offered : a \in Nat /\ a # 0 /\ a <= attempt
      BY Numbers
    <3>2. \A a \in offered : a \in 1..attempt'
      BY <2>0, <3>1
    <3> QED
      BY <2>1, <3>2
  <2>4. DOMAIN srv' = Server /\ srv' = [s \in Server |-> srv'[s]]
    BY <2>1
  <2>5. srv' \in [Server -> ServerRecord']
    BY <2>2, <2>4
  <2>6. attempt' \in 0..MaxAttempt
    BY <2>0
  <2> QED
    BY <1>1, <2>1, <2>3, <2>5, <2>6 DEF Inv, ServerTypes, ServerRecord
<1>4. ASSUME NEW s \in Server,
             \/ AtServer(s) \/ Break(s) \/ ServerLoses(s) \/ Registering(s) \/ TakeRegister(s)
             \/ FinishClientRegister(s) \/ EnterComm(s) \/ SendData(s)
             \/ BroadcastStop(s) \/ LeaveAttempt(s) \/ RelayStop(s) \/ ServerRoundOver(s)
      PROVE  UNCHANGED <<attempt, roster>>
  BY <1>4 DEF AtServer, Break, ServerLoses, Registering, TakeRegister, FinishClientRegister,
              EnterComm, SendData, BroadcastStop, LeaveAttempt, RelayStop, ServerRoundOver, servers
<1>5. ASSUME NEW s \in Server, AtServer(s) \/ Registering(s)
      PROVE  offered' \subseteq 1..attempt
  <2>1. srv[s].rid = attempt /\ (srv[s].st # "Forming" => attempt # 0)
    BY <1>1 DEF Inv, ServersInStep, ServerRecord
  <2>2. srv[s].st # "Forming" => attempt \in 1..attempt
    BY <1>1, <2>1
  <2> QED
    BY <1>1, <1>5, <2>1, <2>2 DEF AtServer, Registering
<1>6. ASSUME NEW s \in Server,
             \/ Break(s) \/ ServerLoses(s) \/ TakeRegister(s) \/ FinishClientRegister(s)
             \/ VerifyList(s) \/ EnterComm(s) \/ SendData(s) \/ BroadcastStop(s) \/ LeaveAttempt(s)
             \/ RelayStop(s) \/ ServerRoundOver(s)
      PROVE  offered' = offered
  BY <1>6 DEF Break, ServerLoses, TakeRegister, FinishClientRegister, VerifyList, EnterComm,
              SendData, BroadcastStop, LeaveAttempt, RelayStop, ServerRoundOver, servers
<1>7. ASSUME NEW s \in Server, VerifyList(s)
      PROVE  attempt' = attempt /\ roster' \in [Attempt -> Nat]
  <2>1. PICK k \in (IF Listed = {None} THEN {None} ELSE Listed \ {None}) :
          roster' = [roster EXCEPT ![srv[s].rid] = k]
    BY <1>7 DEF VerifyList
  <2>2. k \in Nat
    BY <1>1, <2>1 DEF Listed, ServerRecord, None
  <2> QED
    BY <1>1, <1>7, <2>1, <2>2 DEF VerifyList
<1>8. ASSUME NEW s \in Server,
             \/ AtServer(s) \/ Break(s) \/ ServerLoses(s) \/ SendData(s)
             \/ BroadcastStop(s) \/ RelayStop(s)
      PROVE  srv' = srv
  BY <1>8 DEF AtServer, Break, ServerLoses, SendData, BroadcastStop, RelayStop, servers
<1>9. ASSUME NEW s \in Server, TakeRegister(s)
      PROVE  srv' \in [Server -> ServerRecord]
  <2>1. up[s] \in Seq(Registrations) /\ up[s] # <<>>
    BY <1>9 DEF Inv, ClientTypes, TakeRegister
  <2>2. Head(up[s]) \in Registrations
    BY <2>1, TailParts
  <2>3. Head(up[s]).key \in Nat
    BY <2>2 DEF Registrations
  <2> QED
    BY <1>1, <1>9, <2>3 DEF TakeRegister, ServerRecord
<1>10. ASSUME NEW s \in Server, Registering(s) \/ FinishClientRegister(s)
       PROVE  srv' \in [Server -> ServerRecord]
  BY <1>1, <1>10 DEF Registering, FinishClientRegister, ServerRecord, ServerStates, None
<1>11. ASSUME NEW s \in Server, VerifyList(s) \/ EnterComm(s)
       PROVE  srv' \in [Server -> ServerRecord]
  BY <1>1, <1>11 DEF VerifyList, EnterComm, ServerRecord, ServerStates
<1>12. ASSUME NEW s \in Server, LeaveAttempt(s) \/ ServerRoundOver(s)
       PROVE  srv' \in [Server -> ServerRecord]
  BY <1>1, <1>12 DEF LeaveAttempt, ServerRoundOver, ServerRecord, ServerStates
<1>15. ASSUME NEW s \in Server, OfOthers PROVE \A m \in halted' : IsStop(m)
  <2>1. \A m \in halted : IsStop(m)
    BY DEF Inv, ServerTypes
  <2>2. ASSUME NEW t \in Server, BroadcastStop(t) PROVE \A m \in halted' : IsStop(m)
    <3>1. PICK m : IsStop(m) /\ halted' = halted \cup {m}
      BY <2>2 DEF BroadcastStop, ServerStop, IsStop
    <3> QED
      BY <2>1, <3>1
  <2>3. ASSUME NEW t \in Server,
               \/ AtServer(t) \/ Break(t) \/ ServerLoses(t) \/ Registering(t) \/ TakeRegister(t)
               \/ FinishClientRegister(t) \/ VerifyList(t) \/ EnterComm(t) \/ SendData(t)
               \/ LeaveAttempt(t) \/ RelayStop(t) \/ ServerRoundOver(t)
        PROVE  halted' = halted
    BY <2>3 DEF AtServer, Break, ServerLoses, Registering, TakeRegister, FinishClientRegister,
                VerifyList, EnterComm, SendData, LeaveAttempt, RelayStop, ServerRoundOver, servers
  <2>4. Open => halted' = halted
    BY DEF Open
  <2> QED
    BY <1>15, <2>1, <2>2, <2>3, <2>4 DEF OfOthers
<1>13. ASSUME NEW s \in Server, OfOthers, ~Open
       PROVE  attempt' = attempt /\ roster' \in [Attempt -> Nat] /\ offered' \subseteq 1..attempt
              /\ srv' \in [Server -> ServerRecord]
              /\ \A m \in halted' : IsStop(m)
  BY <1>1, <1>4, <1>5, <1>6, <1>7, <1>8, <1>9, <1>10, <1>11, <1>12, <1>13, <1>15 DEF OfOthers
<1>14. CASE OfOthers /\ ~Open
  <2>1. attempt' = attempt /\ roster' \in [Attempt -> Nat] /\ offered' \subseteq 1..attempt
        /\ srv' \in [Server -> ServerRecord] /\ \A m \in halted' : IsStop(m)
    BY <1>13, <1>14 DEF OfOthers
  <2> QED
    BY <1>1, <2>1 DEF ServerTypes, ServerRecord
<1> QED
  BY <1>2, <1>3, <1>14

LEMMA NextOneConnection ==
  ASSUME Inv, OfTheClient \/ OfOthers
  PROVE  OneConnection'
<1>1. /\ edge \subseteq conn /\ conn \subseteq Server /\ \A s, t \in conn : s = t
      /\ \A s \in Server \ conn : down[s] = <<>>
      /\ breaks = 0 => edge = conn /\ table \subseteq conn
      /\ down \in [Server -> Seq(Messages)] /\ breaks \in Nat
  BY DEF Inv, OneConnection, ClientTypes
<1>2. ASSUME NEW s \in Server, HandleConnection(s) PROVE OneConnection'
  <2>1. conn = {} /\ conn' = {s} /\ edge' = {s} /\ UNCHANGED <<down, table, breaks>>
    BY <1>2 DEF HandleConnection
  <2> QED
    BY <1>1, <2>1 DEF OneConnection
<1>3. ASSUME NEW s \in Server, HandleDisconnection(s) PROVE OneConnection'
  <2>1. s \in conn \ edge /\ down[s] = <<>> /\ conn' = conn \ {s}
        /\ UNCHANGED <<edge, down, table, breaks>>
    BY <1>3 DEF HandleDisconnection
  <2> QED
    BY <1>1, <2>1 DEF OneConnection
<1>4. ASSUME NEW s \in Server, Deliver(s) PROVE OneConnection'
  <2>1. down[s] # <<>> /\ down' = [down EXCEPT ![s] = Tail(@)]
        /\ UNCHANGED <<conn, edge, table, breaks>>
    BY <1>4 DEF Deliver
  <2>2. s \in conn /\ \A t \in Server \ conn : down'[t] = down[t]
    BY <1>1, <2>1
  <2> QED
    BY <1>1, <2>1, <2>2 DEF OneConnection
<1>5. CASE ClientStep
  <2>1. UNCHANGED <<conn, edge, down, table, breaks>>
    BY <1>5 DEF ClientStep, StoreMessage, ProcessQueued, ProcessStart, ProcessStop, CommStop, Drop,
                Start, RoundFinished
  <2> QED
    BY <1>1, <2>1 DEF OneConnection
<1>6. CASE OfOthers
  <2>1. conn' = conn /\ \A t \in Server \ conn : down'[t] = <<>>
    BY <1>1, <1>6, OthersAdvance, OthersInOrder DEF EdgesKept
  <2>2. ASSUME NEW s \in Server, AtServer(s) \/ Break(s) \/ ServerLoses(s)
        PROVE  /\ edge' \subseteq conn
               /\ breaks' = 0 => edge' = conn /\ table' \subseteq conn
    BY <1>1, <2>2 DEF AtServer, Break, ServerLoses
  <2>3. ASSUME NEW s \in Server,
               \/ Registering(s) \/ TakeRegister(s) \/ FinishClientRegister(s) \/ VerifyList(s)
               \/ EnterComm(s) \/ SendData(s) \/ BroadcastStop(s) \/ LeaveAttempt(s) \/ RelayStop(s)
               \/ ServerRoundOver(s)
        PROVE  UNCHANGED <<edge, table, breaks>>
    BY <2>3 DEF Registering, TakeRegister, FinishClientRegister, VerifyList, EnterComm, SendData,
                BroadcastStop, LeaveAttempt, RelayStop, ServerRoundOver
  <2>4. Open => UNCHANGED <<edge, table, breaks>>
    BY DEF Open
  <2>5. edge' \subseteq conn /\ (breaks' = 0 => edge' = conn /\ table' \subseteq conn)
    BY <1>1, <1>6, <2>2, <2>3, <2>4 DEF OfOthers
  <2> QED
    BY <1>1, <2>1, <2>5 DEF OneConnection
<1> QED
  BY <1>2, <1>3, <1>4, <1>5, <1>6 DEF OfTheClient

LEMMA NextNothingStored ==
  ASSUME Inv, OfTheClient \/ OfOthers
  PROVE  NothingStored'
<1>1. CASE OfOthers
  BY <1>1, OthersAdvance DEF Inv, NothingStored, client
<1>2. CASE WaitStep \/ ProcessQueued \/ ProcessStart
  <2>1. storage' = <<>>
    BY <1>2 DEF WaitStep, ProcessQueued, ProcessStart, Goto
  <2> QED
    BY <2>1 DEF NothingStored
<1>3. CASE DropStep \/ Quiet \/ \E s \in Server : Deliver(s)
  <2>1. UNCHANGED <<c, storage>>
    BY <1>3 DEF DropStep, Quiet, Deliver
  <2> QED
    BY <2>1 DEF Inv, NothingStored
<1>4. CASE StoreMessage
  <2>1. c' = c /\ c.st # "Queuing"
    BY <1>4 DEF StoreMessage, Stored
  <2> QED
    BY <2>1 DEF NothingStored
<1> QED
  BY <1>1, <1>2, <1>3, <1>4, ClientStepKinds

LEMMA NextOfferedOnce ==
  ASSUME Inv, OfTheClient \/ OfOthers
  PROVE  OfferedOnce'
<1>1. /\ c.rid \in offered \cup {0} /\ c \in ClientRecord
      /\ breaks = 0 => /\ table = {} => offered = {}
                       /\ \A s \in table : srv[s].st = "Agree" => attempt \notin offered
      /\ srv \in [Server -> ServerRecord] /\ breaks \in Nat
      /\ breaks = 0 => edge = conn /\ table \subseteq conn
      /\ conn \subseteq Server /\ \A s, t \in conn : s = t
  BY DEF Inv, OfferedOnce, ClientTypes, ServerTypes, ServerRecord, OneConnection
<1>2. CASE OfTheClient
  <2>1. UNCHANGED <<srv, table, attempt, offered, breaks>>
    BY <1>2, ClientStepKinds DEF servers
  <2>2. c'.rid \in offered \cup {0}
    <3>1. CASE ProcessQueued
      <4>1. c'.rid = Msg.rid /\ todo # <<>> /\ Msg.type = "ServerQueued"
        BY <1>1, <3>1 DEF ProcessQueued, Processing, Goto, NewRound, ClientRecord
      <4>2. Msg \in Messages
        BY <4>1, TailParts DEF Msg, Inv, ClientTypes
      <4> QED
        BY <4>1, <4>2, MessageKinds
    <3>2. CASE ~ProcessQueued
      <4>1. c'.rid = c.rid
        BY <1>1, <1>2, <3>2, ClientStepKinds
        DEF WaitStep, DropStep, Quiet, StoreMessage, ProcessStart, Goto, NextRound, Deliver,
            ClientRecord
      <4> QED
        BY <1>1, <4>1
    <3> QED
      BY <3>1, <3>2
  <2> QED
    BY <1>1, <2>1, <2>2 DEF OfferedOnce
<1>3. CASE OfOthers
  <2>1. c'.rid \in offered' \cup {0} /\ conn' = conn
    BY <1>1, <1>3, OthersAdvance DEF Advances, client
  <2>2. ASSUME breaks' = 0, NEW s \in Server, AtServer(s)
        PROVE  /\ table' # {}
               /\ \A t \in table' : srv'[t].st = "Agree" => attempt' \notin offered'
    <3>1. s \in edge \ table /\ table' = table \cup {s} /\ UNCHANGED <<srv, attempt, breaks>>
          /\ (srv[s].st # "Registering" => offered' = offered)
      BY <2>2 DEF AtServer
    <3>2. table = {}
      BY <1>1, <2>2, <3>1
    <3> QED
      BY <1>1, <2>2, <3>1, <3>2
  <2>3. ASSUME breaks' = 0, NEW s \in Server, Registering(s)
        PROVE  /\ table' = {} => offered' = {}
               /\ \A t \in table' : srv'[t].st = "Agree" => attempt' \notin offered'
    <3>1. /\ UNCHANGED <<table, attempt, breaks>>
          /\ s \notin table => offered' = offered
          /\ srv' = [srv EXCEPT ![s].st = "Registering", ![s].key = None]
      BY <2>3 DEF Registering
    <3>2. CASE s \in table
      <4>1. table = {s} /\ srv'[s].st # "Agree"
        BY <1>1, <2>3, <3>1, <3>2 DEF ServerRecord
      <4> QED
        BY <3>1, <4>1
    <3>3. CASE s \notin table
      <4>1. breaks = 0 /\ table \subseteq Server
        BY <1>1, <2>3, <3>1
      <4>2. \A t \in table : srv'[t] = srv[t]
        BY <1>1, <3>1, <3>3, <4>1
      <4> QED
        BY <1>1, <3>1, <3>3, <4>1, <4>2
    <3> QED
      BY <3>2, <3>3
  <2>4. ASSUME breaks' = 0, Open
        PROVE  /\ table' = {} => offered' = {}
               /\ \A t \in table' : srv'[t].st = "Agree" => attempt' \notin offered'
    <3>1. attempt' = attempt + 1 /\ UNCHANGED <<table, offered, breaks>>
      BY <2>4 DEF Open
    <3>2. attempt + 1 \notin offered
      BY Numbers
    <3> QED
      BY <1>1, <2>4, <3>1, <3>2
  <2>5. ASSUME breaks' = 0, NEW s \in Server, Break(s) \/ ServerLoses(s)
        PROVE  FALSE
    BY <1>1, <2>5 DEF Break, ServerLoses
  <2>6. ASSUME NEW s \in Server,
               \/ TakeRegister(s) \/ FinishClientRegister(s) \/ VerifyList(s)
               \/ EnterComm(s) \/ SendData(s) \/ BroadcastStop(s) \/ LeaveAttempt(s) \/ RelayStop(s)
               \/ ServerRoundOver(s)
        PROVE  /\ UNCHANGED <<table, offered, attempt, breaks>>
               /\ \A t \in Server : srv'[t].st = "Agree" => srv[t].st = "Agree"
    <3>1. UNCHANGED <<table, offered, attempt, breaks>>
      BY <2>6 DEF TakeRegister, FinishClientRegister, VerifyList, EnterComm, SendData,
                  BroadcastStop, LeaveAttempt, RelayStop, ServerRoundOver, servers
    <3>2. \A t \in Server : srv'[t].st = "Agree" => srv[t].st = "Agree"
      <4>0. CASE TakeRegister(s)
        <5>1. PICK k : srv' = [srv EXCEPT ![s].key = k]
          BY <4>0 DEF TakeRegister
        <5> QED
          BY <1>1, <5>1 DEF ServerRecord
      <4>2. CASE FinishClientRegister(s)
        BY <1>1, <4>2 DEF FinishClientRegister, ServerRecord
      <4>3. CASE VerifyList(s)
        BY <1>1, <4>3 DEF VerifyList, ServerRecord
      <4>4. CASE EnterComm(s) \/ ServerRoundOver(s)
        BY <1>1, <4>4 DEF EnterComm, ServerRoundOver, ServerRecord
      <4>5. CASE SendData(s) \/ BroadcastStop(s) \/ RelayStop(s)
        BY <4>5 DEF SendData, BroadcastStop, RelayStop, servers
      <4>6. CASE LeaveAttempt(s)
        BY <1>1, <4>6 DEF LeaveAttempt, ServerRecord
      <4> QED
        BY <2>6, <4>0, <4>2, <4>3, <4>4, <4>5, <4>6
    <3> QED
      BY <3>1, <3>2
  <2>7. ASSUME breaks' = 0
        PROVE  /\ table' = {} => offered' = {}
               /\ \A t \in table' : srv'[t].st = "Agree" => attempt' \notin offered'
    <3>1. CASE Open
      BY <2>4, <2>7, <3>1
    <3>2. ASSUME NEW s \in Server,
                 AtServer(s) \/ Registering(s) \/ Break(s) \/ ServerLoses(s)
          PROVE  /\ table' = {} => offered' = {}
                 /\ \A t \in table' : srv'[t].st = "Agree" => attempt' \notin offered'
      BY <2>2, <2>3, <2>5, <2>7, <3>2
    <3>3. ASSUME NEW s \in Server,
                 \/ TakeRegister(s) \/ FinishClientRegister(s) \/ VerifyList(s)
                 \/ EnterComm(s) \/ SendData(s) \/ BroadcastStop(s) \/ LeaveAttempt(s) \/ RelayStop(s)
                 \/ ServerRoundOver(s)
          PROVE  /\ table' = {} => offered' = {}
                 /\ \A t \in table' : srv'[t].st = "Agree" => attempt' \notin offered'
      <4>1. breaks = 0 /\ UNCHANGED <<table, offered, attempt>>
            /\ \A t \in Server : srv'[t].st = "Agree" => srv[t].st = "Agree"
        BY <2>6, <2>7, <3>3
      <4>2. table \subseteq Server
        BY <1>1, <4>1
      <4> QED
        BY <1>1, <4>1, <4>2
    <3> QED
      BY <1>3, <3>1, <3>2, <3>3 DEF OfOthers
  <2> QED
    BY <2>1, <2>7 DEF OfferedOnce
<1> QED
  BY <1>2, <1>3

InStep(s) ==
  /\ attempt = 0 => srv[s].st = "Forming" /\ srv[s].key = None
  /\ srv[s].key # None /\ (srv[s].st \notin {"Forming", "Agree"} \/ srv[s].listed = attempt) =>
       attempt = c.rid /\ (breaks = 0 => srv[s].key = c.eph)
  /\ srv[s].st \in {"Agree", "Registering"} => srv[s].listed < attempt
  /\ srv[s].st \in {"Agree", "Registering", "Listing"} => srv[s].signed < attempt
AllListed ==
  \A s \in Server :
    srv[s].signed = attempt =>
      /\ \A t \in Server : srv[t].listed = attempt
      /\ attempt \in Attempt /\ roster[attempt] # None =>
           attempt = c.rid /\ (breaks = 0 => roster[attempt] = c.eph)

LEMMA InStepParts == ServersInStep <=> AllListed /\ \A s \in Server : InStep(s)
<1> QED
  BY DEF ServersInStep, AllListed, InStep

\* Server s leaves its attempt, goes on to its round, or keeps its place.
Moves(s, r) ==
  /\ srv' = [srv EXCEPT ![s] = r]
  /\ r.key = srv[s].key /\ r.listed = srv[s].listed /\ r.signed = srv[s].signed
  /\ \/ r.st = "Forming"
     \/ r.st = srv[s].st
     \/ r.st = "Communicating" /\ srv[s].st = "VerifyList"

LEMMA NextServersInStep ==
  ASSUME Inv, OfTheClient \/ OfOthers, Advances, ServerTypes', OfferedOnce'
  PROVE  ServersInStep'
<1> USE DEF ServerRecord
<1>1. /\ c \in ClientRecord /\ attempt \in Nat /\ breaks \in Nat /\ c.rid \in Nat
      /\ srv \in [Server -> ServerRecord] /\ roster \in [Attempt -> Nat]
      /\ AllListed /\ \A s \in Server : InStep(s)
  BY AttemptAssumption, InStepParts DEF Inv, ClientTypes, ServerTypes, ClientRecord
<1>2. CASE OfTheClient
  <2>1. UNCHANGED <<srv, attempt, roster, breaks>>
    BY <1>2, ClientStepKinds DEF servers
  <2>2. c'.rid \in Nat /\ c'.rid <= attempt /\ c.rid <= c'.rid
        /\ (breaks = 0 /\ c'.rid = c.rid => c'.eph = c.eph)
    <3>1. \A a \in offered' : a \in Nat /\ a <= attempt'
      <4>1. offered' \subseteq 1..attempt' /\ attempt' \in Nat
        BY DEF ServerTypes, Advances
      <4> QED
        BY <4>1
    <3>2. c'.rid \in Nat /\ (c'.rid \in offered' \/ c'.rid = 0)
      BY DEF OfferedOnce, Advances
    <3>3. c'.rid <= attempt'
      <4> DEFINE n == c'.rid
      <4>1. n = 0 \/ n \in offered'
        BY <3>2
      <4> HIDE DEF n
      <4>2. n <= attempt'
        BY <3>1, <4>1 DEF Advances
      <4> QED
        BY <4>2 DEF n
    <3> QED
      BY <2>1, <3>2, <3>3 DEF Advances
  <2>3. attempt = c.rid => c'.rid = attempt /\ (breaks = 0 => c'.eph = c.eph)
    BY <1>1, <2>2
  <2>4. \A s \in Server : InStep(s)'
    BY <1>1, <2>1, <2>3 DEF InStep
  <2>5. AllListed'
    BY <1>1, <2>1, <2>3 DEF AllListed
  <2> QED
    BY <2>4, <2>5, InStepParts DEF InStep, AllListed, ServersInStep

<1>3. CASE Open
  <2>1. attempt' = attempt + 1
        /\ srv' = [s \in Server |-> [srv[s] EXCEPT !.st = "Agree", !.rid = attempt']]
    BY <1>3 DEF Open
  <2>2. ASSUME NEW s \in Server
        PROVE  srv'[s].st = "Agree" /\ srv'[s].listed < attempt' /\ srv'[s].signed < attempt'
               /\ srv'[s].listed # attempt' /\ srv'[s].signed # attempt' /\ attempt' # 0
    <3>1. srv[s] \in ServerRecord /\ srv'[s] = [srv[s] EXCEPT !.st = "Agree", !.rid = attempt']
      BY <1>1, <2>1
    <3>2. srv'[s].st = "Agree" /\ srv'[s].listed = srv[s].listed /\ srv'[s].signed = srv[s].signed
      <4> DEFINE e == srv[s]
      <4>1. \A n : LET d == [e EXCEPT !.st = "Agree", !.rid = n]
                  IN d.st = "Agree" /\ d.listed = e.listed /\ d.signed = e.signed
        BY <3>1
      <4> QED
        BY <3>1, <4>1
    <3>3. srv[s].listed \in 0..attempt /\ srv[s].signed \in 0..attempt
      BY <3>1
    <3>4. attempt' # 0 /\ \A n \in 0..attempt : n < attempt' /\ n # attempt'
      <4>1. attempt \in Nat /\ attempt' = attempt + 1
        BY <1>1, <2>1
      <4> QED
        BY <4>1
    <3> QED
      BY <3>2, <3>3, <3>4
  <2>3. (\A s \in Server : InStep(s)') /\ AllListed'
    BY <2>2 DEF InStep, AllListed
  <2> QED
    BY <2>3, InStepParts DEF InStep, AllListed, ServersInStep
<1>4. ASSUME NEW s \in Server, OfOthers,
             \/ AtServer(s) \/ Break(s) \/ ServerLoses(s) \/ SendData(s)
             \/ BroadcastStop(s) \/ RelayStop(s)
      PROVE  ServersInStep'
  <2>1. UNCHANGED <<srv, attempt, roster, c>>
    BY <1>4 DEF AtServer, Break, ServerLoses, SendData, BroadcastStop, RelayStop, servers, client
  <2>2. breaks' = 0 => breaks = 0
    BY <1>1 DEF Advances
  <2>3. (\A t \in Server : InStep(t)') /\ AllListed'
    BY <1>1, <2>1, <2>2 DEF InStep, AllListed
  <2> QED
    BY <2>3 DEF InStep, AllListed, ServersInStep
<1>5. ASSUME NEW s \in Server, NEW r, srv' = [srv EXCEPT ![s] = r],
             UNCHANGED <<c, attempt, roster, breaks>>,
             InStep(s)', r.signed = srv[s].signed,
             \/ r.listed = srv[s].listed /\ r.key = srv[s].key
             \/ srv[s].st \in {"Agree", "Registering"}
      PROVE  ServersInStep'
  <2>1. srv'[s] = r /\ \A t \in Server \ {s} : srv'[t] = srv[t]
    BY <1>1, <1>5
  <2>2. \A t \in Server : InStep(t)'
    <3> TAKE t \in Server
    <3>1. CASE t = s
      BY <1>5, <3>1
    <3>2. CASE t # s
      <4>1. InStep(t) /\ srv'[t] = srv[t]
        BY <1>1, <2>1, <3>2
      <4> QED
        BY <1>5, <4>1 DEF InStep
    <3> QED
      BY <3>1, <3>2
  <2>3. AllListed'
    <3>1. CASE r.listed = srv[s].listed /\ r.key = srv[s].key
      <4>1. \A t \in Server : srv'[t].listed = srv[t].listed /\ srv'[t].key = srv[t].key
                              /\ srv'[t].signed = srv[t].signed
        BY <1>5, <2>1, <3>1
      <4> QED
        BY <1>1, <1>5, <4>1 DEF AllListed
    <3>2. CASE srv[s].st \in {"Agree", "Registering"}
      <4>1. srv[s].listed < attempt
        BY <1>1, <3>2 DEF InStep
      <4>2. srv[s].listed # attempt
        BY <1>1, <4>1
      <4>3. \A t \in Server : srv[t].signed # attempt
        BY <1>1, <4>2 DEF AllListed
      <4>4. \A t \in Server : srv'[t].signed # attempt
        BY <1>5, <2>1, <4>3
      <4> QED
        BY <1>5, <4>4 DEF AllListed
    <3> QED
      BY <1>5, <3>1, <3>2
  <2> QED
    BY <2>2, <2>3 DEF InStep, AllListed, ServersInStep
<1>6. ASSUME NEW s \in Server, Registering(s)
      PROVE  ServersInStep'
  <2> DEFINE r == [srv[s] EXCEPT !.st = "Registering", !.key = None]
  <2>1. UNCHANGED <<c, attempt, roster, breaks>> /\ srv[s].st = "Agree"
        /\ srv' = [srv EXCEPT ![s] = r]
    BY <1>1, <1>6 DEF Registering, client
  <2>2. srv[s] \in ServerRecord /\ r.st = "Registering" /\ r.key = None
        /\ r.listed = srv[s].listed /\ r.signed = srv[s].signed /\ srv'[s] = r
    BY <1>1, <2>1
  <2> HIDE DEF r
  <2>3. InStep(s)'
    BY <1>1, <2>1, <2>2 DEF InStep
  <2> QED
    BY <1>5, <2>1, <2>2, <2>3
<1>7. ASSUME NEW s \in Server, TakeRegister(s)
      PROVE  ServersInStep'
  <2>1. up[s] # <<>> /\ srv[s].st # "Agree" /\ UNCHANGED <<c, attempt, roster, breaks>>
    BY <1>7 DEF TakeRegister, client
  <2>2. Head(up[s]) \in Registrations
    <3>1. up[s] \in Seq(Registrations)
      BY DEF Inv, ClientTypes
    <3> QED
      BY <2>1, <3>1, TailParts
  <2>3. CASE srv[s].st = "Registering" /\ Takes(s, Head(up[s]))
    <3> DEFINE k == Head(up[s]).key
               r == [srv[s] EXCEPT !.key = k]
    <3>1. srv' = [srv EXCEPT ![s] = r]
      BY <1>1, <1>7, <2>3 DEF TakeRegister
    <3>2. attempt = c.rid /\ (breaks = 0 => k = c.eph)
      <4>1. Head(up[s]).rid = attempt
        BY <1>1, <2>3 DEF Takes
      <4>2. attempt <= c.rid
        BY <1>1, <2>2, <4>1 DEF Registrations
      <4>3. attempt = c.rid
        BY <1>1, <4>2, Numbers
      <4> QED
        BY <2>2, <4>1, <4>3 DEF Registrations
    <3> HIDE DEF k
    <3>3. srv[s] \in ServerRecord /\ r.st = srv[s].st /\ r.key = k
          /\ r.listed = srv[s].listed /\ r.signed = srv[s].signed /\ srv'[s] = r
      BY <1>1, <3>1
    <3> HIDE DEF r
    <3>4. InStep(s)'
      BY <1>1, <2>1, <2>3, <3>2, <3>3 DEF InStep
    <3> QED
      BY <1>5, <2>1, <2>3, <3>1, <3>3, <3>4
  <2>4. CASE ~(srv[s].st = "Registering" /\ Takes(s, Head(up[s])))
    <3>1. srv' = srv
      BY <1>1, <1>7, <2>4 DEF TakeRegister
    <3>2. (\A t \in Server : InStep(t)') /\ AllListed'
      BY <1>1, <2>1, <3>1 DEF InStep, AllListed
    <3> QED
      BY <3>2 DEF InStep, AllListed, ServersInStep
  <2> QED
    BY <2>3, <2>4
<1>8. ASSUME NEW s \in Server, FinishClientRegister(s)
      PROVE  ServersInStep'
  <2> DEFINE r == [srv[s] EXCEPT !.st = "Listing", !.listed = srv[s].rid]
  <2>1. UNCHANGED <<c, attempt, roster, breaks>> /\ srv[s].st = "Registering"
        /\ srv' = [srv EXCEPT ![s] = r]
    BY <1>1, <1>8 DEF FinishClientRegister, client
  <2>2. srv[s] \in ServerRecord /\ r.st = "Listing" /\ r.key = srv[s].key
        /\ r.listed = attempt /\ r.signed = srv[s].signed /\ srv'[s] = r
    BY <1>1, <2>1
  <2> HIDE DEF r
  <2>3. InStep(s)'
    BY <1>1, <2>1, <2>2 DEF InStep
  <2> QED
    BY <1>5, <2>1, <2>2, <2>3
<1>9. ASSUME NEW s \in Server, EnterComm(s) \/ LeaveAttempt(s) \/ ServerRoundOver(s)
      PROVE  ServersInStep'
  <2>1. UNCHANGED <<c, attempt, roster, breaks>>
    BY <1>9 DEF EnterComm, LeaveAttempt, ServerRoundOver, client
  <2>2. PICK r : Moves(s, r)
    <3>1. CASE EnterComm(s)
      <4> DEFINE r == [srv[s] EXCEPT !.st = "Communicating"]
      <4>1. srv' = [srv EXCEPT ![s] = r] /\ srv[s] \in ServerRecord /\ srv[s].st = "VerifyList"
        BY <1>1, <3>1 DEF EnterComm
      <4>2. Moves(s, r)
        BY <4>1 DEF Moves
      <4> QED
        BY <4>2
    <3>2. CASE LeaveAttempt(s) \/ ServerRoundOver(s)
      <4> DEFINE r == [srv[s] EXCEPT !.st = "Forming"]
      <4>1. srv' = [srv EXCEPT ![s] = r] /\ srv[s] \in ServerRecord
        BY <1>1, <3>2 DEF LeaveAttempt, ServerRoundOver
      <4>2. Moves(s, r)
        BY <4>1 DEF Moves
      <4> QED
        BY <4>2
    <3> QED
      BY <1>9, <3>1, <3>2
  <2>3. srv'[s] = r
    BY <1>1, <2>2 DEF Moves
  <2>4. InStep(s)'
    BY <1>1, <2>1, <2>2, <2>3 DEF InStep, Moves
  <2> QED
    BY <1>5, <2>1, <2>2, <2>4 DEF Moves

<1>10. ASSUME NEW s \in Server, VerifyList(s)
       PROVE  ServersInStep'
  <2> DEFINE r == [srv[s] EXCEPT !.st = "VerifyList", !.signed = srv[s].rid]
  <2>1. /\ UNCHANGED <<c, attempt, breaks>> /\ srv[s].st = "Listing" /\ srv[s].rid = attempt
        /\ srv' = [srv EXCEPT ![s] = r]
        /\ \A t \in Server : srv[t].listed = attempt
    BY <1>1, <1>10 DEF VerifyList, client
  <2>2. srv[s] \in ServerRecord /\ r.st = "VerifyList" /\ r.key = srv[s].key
        /\ r.listed = srv[s].listed /\ r.signed = attempt /\ srv'[s] = r
    BY <1>1, <2>1
  <2>3. PICK k \in (IF Listed = {None} THEN {None} ELSE Listed \ {None}) :
          roster' = [roster EXCEPT ![attempt] = k]
    BY <1>10, <2>1 DEF VerifyList
  <2> HIDE DEF r
  <2>4. \A t \in Server \ {s} : srv'[t] = srv[t]
    BY <1>1, <2>1
  <2>5. \A t \in Server : InStep(t)'
    <3>1. InStep(s)'
      BY <1>1, <2>1, <2>2 DEF InStep
    <3>2. \A t \in Server \ {s} : InStep(t)'
      BY <1>1, <2>1, <2>4 DEF InStep
    <3> QED
      BY <3>1, <3>2
  <2>6. \A t \in Server : srv'[t].listed = attempt /\ srv'[t].key = srv[t].key
    BY <2>1, <2>2, <2>4
  <2>7. attempt \in Attempt
    <3>1. attempt # 0
      BY <1>1, <2>1 DEF InStep
    <3> QED
      BY <1>1, <3>1, AttemptAssumption DEF Inv, ServerTypes, Attempt
  <2>8. k # None => attempt = c.rid /\ (breaks = 0 => k = c.eph)
    <3> SUFFICES ASSUME k # None PROVE attempt = c.rid /\ (breaks = 0 => k = c.eph)
      OBVIOUS
    <3>1. PICK u \in Server : k = srv[u].key
      BY <2>3 DEF Listed
    <3> QED
      BY <1>1, <2>1, <3>1 DEF InStep
  <2>9. AllListed'
    BY <1>1, <2>1, <2>3, <2>6, <2>7, <2>8 DEF AllListed
  <2> QED
    BY <2>5, <2>9 DEF InStep, AllListed, ServersInStep
<1> QED
  BY <1>2, <1>3, <1>4, <1>6, <1>7, <1>8, <1>9, <1>10 DEF OfOthers

LEMMA NextRunsItsRoster ==
  ASSUME Inv, OfTheClient \/ OfOthers, Advances
  PROVE  RunsItsRoster'
<1>1. c \in ClientRecord /\ (breaks' = 0 => breaks = 0)
  BY DEF Inv, ClientTypes, Advances
<1>2. CASE c'.st = "Communicating" /\ c'.st = c.st /\ c'.round = c.round
  BY <1>1, <1>2 DEF Inv, RunsItsRoster, RosterOfRound, KeyInRoster, Advances
<1>3. CASE ProcessStart
  <2>1. todo # <<>> /\ c' = NextRound(c, Msg) /\ Msg.type = "ServerStart"
    BY <1>3 DEF ProcessStart, Processing, Goto
  <2>2. Msg \in Messages /\ 1 \in DOMAIN todo /\ Msg = todo[1]
    BY <2>1, TailParts DEF Msg, Inv, ClientTypes
  <2>3. PICK a \in Attempt : Started(a) /\ Msg = ServerStart(a, roster[a])
    BY <2>1, <2>2, MessageKinds
  <2>4. Msg.rid = a /\ Msg.key = roster[a]
    BY <2>3 DEF ServerStart
  <2>5. c.rid <= Msg.rid
    BY <2>1, <2>2 DEF Inv, InOrder, Chain, Above, Newer, IsStop
  <2>6. a = c.rid
    BY <2>3, <2>4, <2>5, Numbers, AttemptAssumption DEF Started, Attempt
  <2>7. /\ c'.round.rid = c.rid /\ c'.round.eph = c.eph
        /\ c'.round.of = a /\ c'.round.key = roster[a]
    BY <1>1, <2>1, <2>4 DEF NextRound, ClientRecord
  <2>8. Frozen(a)' /\ roster'[a] = roster[a]
    BY <2>3 DEF Advances, Started
  <2>9. breaks = 0 => roster[a] = c.eph
    BY <2>3, <2>6 DEF Started
  <2> QED
    BY <1>1, <2>3, <2>6, <2>7, <2>8, <2>9 DEF RunsItsRoster, RosterOfRound, KeyInRoster
<1>4. CASE ~ProcessStart /\ c'.st = "Communicating"
  <2>1. CASE OfOthers
    BY <1>2, <1>4, <2>1, OthersAdvance DEF client
  <2>2. CASE OfTheClient
    <3>1. ~WaitStep
      BY <1>4 DEF WaitStep
    <3>2. ~ProcessQueued
      BY <1>1, <1>4 DEF ProcessQueued, Goto, NewRound, ClientRecord
    <3>3. c' = c
      BY <1>4, <2>2, <3>1, <3>2, ClientStepKinds DEF DropStep, Quiet, StoreMessage, Deliver
    <3> QED
      BY <1>2, <1>4, <3>3
  <2> QED
    BY <2>1, <2>2
<1> QED
  BY <1>3, <1>4 DEF RunsItsRoster

-----------------------------------------------------------------------------
(* The theorems *)

LEMMA InitInv == Init => Inv
<1> SUFFICES ASSUME Init PROVE Inv
  OBVIOUS
<1>1. \A M : <<>> \in Seq(M)
  OBVIOUS
<1>2. ClientTypes
  <2>1. c \in ClientRecord
    BY DEF Init, ClientRecord, ClientStates, None
  <2>2. [s \in Server |-> <<>>] \in [Server -> Seq(Messages)]
        /\ [s \in Server |-> <<>>] \in [Server -> Seq(Registrations)]
    BY <1>1
  <2> QED
    BY <1>1, <2>1, <2>2 DEF Init, ClientTypes
<1>3. ServerTypes
  BY AttemptAssumption DEF Init, ServerTypes, ServerStates, None
<1>4. OneConnection /\ OfferedOnce /\ NothingStored /\ RunsItsRoster
  BY DEF Init, OneConnection, OfferedOnce, NothingStored, RunsItsRoster, None
<1>5. ServersInStep
  BY DEF Init, ServersInStep, None, Attempt
<1>6. InOrder
  BY DEF Init, InOrder, Chain, Ascends, Ahead, Above
<1>7. Configured
  BY DEF Init, Configured
<1> QED
  BY <1>2, <1>3, <1>4, <1>5, <1>6, <1>7 DEF Inv

LEMMA NextInv == Inv /\ [Next]_vars => Inv'
<1>1. ASSUME Inv, Next PROVE Inv'
  <2>1. OfTheClient \/ OfOthers
    BY <1>1 DEF Next, Step, OfTheClient, OfOthers
  <2>2. Advances /\ Messages \subseteq Messages' /\ Registrations \subseteq Registrations'
    BY <1>1, <2>1, ClientAdvances, OthersAdvance, SoundStaysSound
  <2>3. ClientTypes' /\ ServerTypes' /\ OneConnection' /\ OfferedOnce'
        /\ NothingStored' /\ RunsItsRoster'
    BY <1>1, <2>1, <2>2, NextClientTypes, NextServerTypes, NextOneConnection, NextOfferedOnce,
       NextNothingStored, NextRunsItsRoster
  <2>4. ServersInStep'
    BY <1>1, <2>1, <2>2, <2>3, NextServersInStep
  <2>5. InOrder'
    BY <1>1, <2>1, ClientInOrder, OthersInOrder DEF EdgesKept
  <2>6. Configured'
    BY <1>1 DEF Next, Inv, Configured
  <2> QED
    BY <2>3, <2>4, <2>5, <2>6 DEF Inv
<1>2. ASSUME Inv, UNCHANGED vars PROVE Inv'
  <2>1. UNCHANGED <<c, storage, todo, conn, srv, table, up, down, edge, attempt, roster, breaks,
                    halted, offered, order>>
    BY <1>2 DEF vars, client, servers
  <2>2. Messages' = Messages /\ Registrations' = Registrations /\ \A a : Frozen(a)' <=> Frozen(a)
    BY <2>1 DEF Messages, Registrations, Started, Frozen
  <2>3. ClientTypes' /\ ServerTypes' /\ OneConnection'
    BY <1>2, <2>1, <2>2 DEF Inv, ClientTypes, ServerTypes, OneConnection
  <2>4. ServersInStep' /\ OfferedOnce' /\ InOrder' /\ NothingStored' /\ Configured'
    BY <1>2, <2>1 DEF Inv, ServersInStep, OfferedOnce, InOrder, NothingStored, Configured
  <2>5. RunsItsRoster'
    BY <1>2, <2>1, <2>2 DEF Inv, RunsItsRoster, RosterOfRound, KeyInRoster
  <2> QED
    BY <2>3, <2>4, <2>5 DEF Inv
<1> QED
  BY <1>1, <1>2

LEMMA SpecInv == Spec => []Inv
<1> QED
  BY InitInv, NextInv, PTL DEF Spec

\* A client that communicates runs the round it registered for, with the list that
\* all servers signed for it: a ServerStart names no round, but the queues and the
\* stored messages keep the order in which the servers sent them, over one edge at
\* a time, so the next one is never that of another attempt (Registering::
\* ProcessPacket, SetNewState).
THEOREM RunsSignedRoster == Spec => []RosterOfRound
<1>1. Inv /\ c.st = "Communicating" => RosterOfRound
  BY DEF Inv, RunsItsRoster
<1>2. Inv => RosterOfRound
  BY <1>1 DEF RosterOfRound
<1> QED
  BY <1>2, SpecInv, PTL

\* As long as no edge of the client has broken, that list has the key it makes its
\* pads with: it registers once for an attempt, and no server takes a key that was
\* made for another (RegisteringState::ProcessPacket, NextRound).
THEOREM OwnKeyInRoster == Spec => []KeyInRoster
<1>1. Inv => KeyInRoster
  BY DEF Inv, RunsItsRoster, KeyInRoster
<1> QED
  BY <1>1, SpecInv, PTL

LEMMA SignedMeansById ==
  ASSUME Configured, NEW a, NEW k
  PROVE  Signed(ServerStart(a, k)) <=> order = Signatures
<1> DEFINE N == Cardinality(Server)
           X == {Signatures[i] : i \in 1..N}
<1>1. N \in Nat
  BY ServerAssumption, FS_CardinalityType
<1>2. Signatures = [i \in 1..N |-> Signatures[i]]
  <2> DEFINE E(i) == CHOOSE s \in Server : Cardinality({t \in Server : t < s}) = i - 1
  <2>1. Signatures = [i \in 1..N |-> E(i)]
    BY DEF Signatures
  <2> HIDE DEF E
  <2> QED
    BY <2>1
<1>3. order \in [1..N -> Server]
  BY DEF Configured
<1> HIDE DEF N
<1>4. Signatures \in [1..N -> X]
  BY <1>2
<1>5. Len(Signatures) = N /\ Len(order) = N /\ DOMAIN order = 1..N
  BY <1>1, <1>3, <1>4
<1>6. Signed(ServerStart(a, k)) <=> \A i \in 1..N : Signatures[i] = order[i]
  BY <1>5 DEF Signed, ServerStart
<1>7. order = Signatures <=> \A i \in 1..N : Signatures[i] = order[i]
  BY <1>2, <1>3
<1> QED
  BY <1>6, <1>7

\* The ServerStart of the round a client registers for starts that round exactly if
\* the configuration lists the servers by Id: the client compares the signatures, which
\* the servers send ordered by Id, with the servers as the configuration lists them,
\* and nothing else it may do takes the message (Registering::ProcessPacket).
THEOREM StartsAreHeeded == Spec => StartIsHeeded
<1>1. ASSUME Inv, Next, Processing({"Registering"}, "ServerStart"), todo' # todo
      PROVE  c'.st = "Communicating" <=> order = Signatures
  <2>1. c \in ClientRecord /\ todo # <<>> /\ c.st = "Registering" /\ Msg.type = "ServerStart"
    BY <1>1 DEF Inv, ClientTypes, Processing
  <2>2. Msg \in Messages
    BY <2>1, <1>1, TailParts DEF Msg, Inv, ClientTypes
  <2>3. PICK a \in Attempt : Msg = ServerStart(a, roster[a])
    BY <1>1, <2>1, <2>2, MessageKinds
  <2>4. Signed(Msg) <=> order = Signatures
    BY <1>1, <2>3, SignedMeansById DEF Inv
  <2>5. CASE ProcessStart
    BY <2>1, <2>4, <2>5 DEF ProcessStart, Goto, NextRound, ClientRecord
  <2>6. CASE Drop
    BY <1>1, <2>1, <2>4, <2>6 DEF Drop
  <2>7. ~OfOthers
    BY <1>1, OthersAdvance DEF client
  <2>8. ~StoreMessage
    BY <2>1 DEF StoreMessage, Stored
  <2>9. ~(ProcessQueued \/ ProcessStop \/ CommStop \/ Start \/ RoundFinished)
    BY <2>1 DEF ProcessQueued, ProcessStop, CommStop, Start, RoundFinished, Processing, Idle
  <2>10. ~\E s \in Server : Deliver(s) \/ HandleConnection(s) \/ HandleDisconnection(s)
    BY <2>1 DEF Deliver, HandleConnection, HandleDisconnection, Idle
  <2>11. OfTheClient
    BY <1>1, <2>7 DEF Next, Step, OfTheClient, OfOthers
  <2> QED
    BY <2>5, <2>6, <2>8, <2>9, <2>10, <2>11 DEF OfTheClient, ClientStep
<1>2. Inv /\ [Next]_vars => [StartHeeded]_vars
  BY <1>1 DEF StartHeeded
<1> QED
  BY <1>2, SpecInv, PTL DEF Spec, StartIsHeeded
=============================================================================
