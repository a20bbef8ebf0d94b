------------------------- MODULE ServerSessionProofs -------------------------
(***************************************************************************)
(* Proofs about ServerSession for every set of servers and clients and     *)
(* every bound: types and certificates, the order of rounds, the rosters,  *)
(* the service they implement, and the clients' keys.                      *)
(***************************************************************************)
EXTENDS ServerSession, FiniteSetTheorems, TLAPS

-----------------------------------------------------------------------------
(* The inductive invariant.  A ServerAgree or ServerVerifyList under way was *)
(* signed by the server it names, and what a server has collected in its     *)
(* current state is therefore signed too.                                    *)

Authentic(sg) ==
  {m \in Body : m.type \in {"ServerAgree", "ServerVerifyList"} => m \in sg}
PacketOf(M) == [src : Server \cup Client, dst : Server, body : M]
Mail(sg) == Seq(PacketOf(Authentic(sg)))

\* What server s has collected.
Collected(x, d, sg) ==
  /\ x = "Agree" => /\ d.rid.keys = d.keys
                    /\ \A t \in d.got : ServerAgree(t, d.rid, d.keys[t]) \in sg
  /\ x \in Queued => \A t \in Server : ServerAgree(t, d.rid, d.rid.keys[t]) \in sg
  /\ x \in {"VerifyList", "Communicating"} =>
       \A t \in d.got : ServerVerifyList(t, RegisterList(d.rid, d.regs)) \in sg
  /\ x = "Communicating" => d.got = Server

\* What handling an event changes, and the rest.
Running ==
  /\ st \in [Server -> States]
  /\ data \in [Server -> Data]
  /\ storage \in [Server -> Mail(signed)]
  /\ todo \in Mail(signed)
  /\ reached \subseteq Server \X States \X RoundId \X [Client -> Nat]
  /\ chan \in [Server -> [Server -> Mail(signed)]]
  /\ initCount \in Nat
  /\ \A s \in Server : Collected(st[s], data[s], signed)

Resting ==
  /\ last \in [Server -> Body \cup {NoStop}]
  /\ conn \in [Server -> SUBSET Server]
  /\ link \subseteq SUBSET Server
  /\ breaks \in Nat
  /\ regCount \in [Client -> Nat]
  /\ over \subseteq RoundId
  /\ signed \subseteq Body

Inv == Running /\ Resting

-----------------------------------------------------------------------------
(* The overlay *)

LEMMA FunIsSeq ==
  ASSUME NEW X, NEW n \in Nat, NEW f \in [1..n -> X]
  PROVE  f \in Seq(X)
  OBVIOUS

LEMMA ConcatType ==
  ASSUME NEW X, NEW p \in Seq(X), NEW q \in Seq(X)
  PROVE  p \o q \in Seq(X)
  OBVIOUS

\* A finite set has an ordering.
LEMMA InOrderType ==
  ASSUME NEW S, IsFiniteSet(S)
  PROVE  /\ InOrder(S) \in [1..Cardinality(S) -> S]
         /\ Cardinality(S) \in Nat
<1>1. Cardinality(S) \in Nat
  BY FS_CardinalityType
<1>2. PICK f : ExistsBijection(1..Cardinality(S), S)
  BY FS_CardinalityType
<1>3. PICK q \in Bijection(1..Cardinality(S), S) : TRUE
  BY <1>2 DEF ExistsBijection
<1>4. q \in [1..Cardinality(S) -> S] /\ \A i, j \in DOMAIN q : q[i] = q[j] => i = j
  BY <1>3 DEF Bijection, Injection, IsInjective
<1> QED
  BY <1>1, <1>4 DEF InOrder

\* What is put on an edge is the mail that is sent.
LEMMA OnEdgeType ==
  ASSUME NEW s \in Server, NEW cn \in SUBSET Server, NEW b \in Server,
         NEW M, NEW D \in SUBSET Server, NEW out \in [D -> M]
  PROVE  OnEdge(s, cn, b, out) \in Seq(PacketOf(M))
<1> DEFINE S == {d \in DOMAIN out : Via(s, cn, d, b)}
           q == InOrder(S)
<1>1. IsFiniteSet(S)
  BY FS_Subset, ServerAssumption
<1>2. q \in [1..Cardinality(S) -> S] /\ Cardinality(S) \in Nat
  BY <1>1, InOrderType
<1> HIDE DEF q
<1>3. CASE b \in cn /\ Up(s, b)
  <2>1. OnEdge(s, cn, b, out) =
          [i \in DOMAIN q |-> [src |-> s, dst |-> q[i], body |-> out[q[i]]]]
    BY <1>3 DEF OnEdge, q
  <2>2. \A i \in DOMAIN q : q[i] \in D
    BY <1>2
  <2>3. OnEdge(s, cn, b, out) \in [1..Cardinality(S) -> PacketOf(M)]
    BY <2>1, <2>2, <1>2 DEF PacketOf
  <2> QED
    BY <2>3, <1>2, FunIsSeq
<1>4. CASE ~(b \in cn /\ Up(s, b))
  BY <1>4 DEF OnEdge
<1> QED
  BY <1>3, <1>4

\* Sending mail leaves mail in the channels.
LEMMA SentType ==
  ASSUME NEW M, NEW c \in [Server -> [Server -> Seq(PacketOf(M))]],
         NEW s \in Server, NEW cn \in SUBSET Server,
         NEW D \in SUBSET Server, NEW out \in [D -> M]
  PROVE  Sent(c, s, cn, out) \in [Server -> [Server -> Seq(PacketOf(M))]]
<1>1. \A b \in Server : c[s][b] \o OnEdge(s, cn, b, out) \in Seq(PacketOf(M))
  <2> TAKE b \in Server
  <2>1. c[s][b] \in Seq(PacketOf(M))
    OBVIOUS
  <2>2. OnEdge(s, cn, b, out) \in Seq(PacketOf(M))
    BY OnEdgeType
  <2> QED
    BY <2>1, <2>2, ConcatType
<1> QED
  BY <1>1 DEF Sent

-----------------------------------------------------------------------------
(* Mail and what is in it *)

LEMMA SeqMono ==
  ASSUME NEW X, NEW Y, X \subseteq Y, NEW q \in Seq(X)
  PROVE  q \in Seq(Y)
  OBVIOUS

\* What was authentic stays so when more is signed.
LEMMA MailMono ==
  ASSUME NEW sg, NEW sh, sg \subseteq sh
  PROVE  Mail(sg) \subseteq Mail(sh)
<1>1. PacketOf(Authentic(sg)) \subseteq PacketOf(Authentic(sh))
  BY DEF PacketOf, Authentic
<1> QED
  BY <1>1, SeqMono DEF Mail

LEMMA CollectedMono ==
  ASSUME NEW sg, NEW sh, sg \subseteq sh, NEW x, NEW d, Collected(x, d, sg)
  PROVE  Collected(x, d, sh)
  BY DEF Collected

LEMMA HeadTail ==
  ASSUME NEW X, NEW q \in Seq(X), q # <<>>
  PROVE  Head(q) \in X /\ Tail(q) \in Seq(X)
  OBVIOUS

\* The message at the head of todo, and what follows it.
LEMMA MsgType ==
  ASSUME todo \in Mail(signed), todo # <<>>
  PROVE  /\ Head(todo) \in PacketOf(Authentic(signed))
         /\ Msg \in Authentic(signed) /\ Msg \in Body
         /\ Head(todo).src \in Server \cup Client
         /\ Tail(todo) \in Mail(signed)
<1>1. Head(todo) \in PacketOf(Authentic(signed)) /\ Tail(todo) \in Mail(signed)
  BY HeadTail DEF Mail
<1> QED
  BY <1>1 DEF PacketOf, Authentic, Msg

\* What a message of each type holds.
LEMMA BodyFields ==
  ASSUME NEW m \in Body
  PROVE  /\ m.type = "ServerInit" => m.n \in Nat
         /\ m.type = "ServerEnlist" => m.from \in Server /\ m.key \in Nat
         /\ m.type = "ServerEnlisted" => m.keys \in [Server -> Nat]
         /\ m.type = "ServerAgree" =>
              m.from \in Server /\ m = ServerAgree(m.from, m.rid, m.key)
         /\ m.type = "ServerList" => m.list.regs \in [Client -> Nat]
         /\ m.type = "ClientRegister" => m.from \in Client /\ m.key \in Nat
         /\ m.type = "ServerStop" => m.rid \in RoundId
  BY DEF Body, Connect, Closed, ServerAgree, RegisterLists

\* The messages a server makes.
LEMMA Made ==
  ASSUME NEW sg, NEW s \in Server, NEW n \in Nat, NEW k \in Nat,
         NEW ks \in [Server -> Nat], NEW r \in RoundId, NEW l \in RegisterLists, NEW x \in Server
  PROVE  /\ ServerInit(n) \in Authentic(sg)
         /\ ServerEnlist(s, n, k) \in Authentic(sg)
         /\ ServerEnlisted(s, n, ks) \in Authentic(sg)
         /\ ServerList(l) \in Authentic(sg)
         /\ ServerStop(s, r, x) \in Authentic(sg)
         /\ ServerAgree(s, r, k) \in Body
         /\ ServerVerifyList(s, l) \in Body
<1>1. ServerInit(n) \in Authentic(sg)
  BY DEF ServerInit, Authentic, Body
<1>2. ServerEnlist(s, n, k) \in Authentic(sg)
  BY DEF ServerEnlist, Authentic, Body
<1>3. ServerEnlisted(s, n, ks) \in Authentic(sg)
  BY DEF ServerEnlisted, Authentic, Body
<1>4. ServerList(l) \in Authentic(sg)
  BY DEF ServerList, Authentic, Body
<1>5. ServerStop(s, r, x) \in Authentic(sg)
  BY DEF ServerStop, Authentic, Body
<1>6. ServerAgree(s, r, k) \in Body
  BY DEF ServerAgree, Body
<1>7. ServerVerifyList(s, l) \in Body
  BY DEF ServerVerifyList, Body
<1> QED
  BY <1>1, <1>2, <1>3, <1>4, <1>5, <1>6, <1>7

LEMMA Constants ==
  /\ NoKeys \in [Server -> Nat] /\ NoRegs \in [Client -> Nat] /\ NoRound \in RoundId
  /\ \A n \in Nat : NonceId(n) \in RoundId
  /\ \A r \in RoundId, g \in [Client -> Nat] : RegisterList(r, g) \in RegisterLists
  BY DEF NoKeys, NoRegs, NoRound, NonceId, RoundId, RegisterList, RegisterLists

LEMMA ResetType ==
  ASSUME NEW d \in Data
  PROVE  Reset(d) \in Data
  BY Constants DEF Data, Reset

LEMMA EnlistingType ==
  ASSUME NEW d \in Data, NEW n \in Nat
  PROVE  Enlisting(d, n) \in Data /\ Enlisting(d, n).eph \in Nat
<1>1. d.eph + 1 \in Nat /\ NoKeys \in [Server -> Nat]
  BY Constants DEF Data
<1>2. [d EXCEPT !.init = n] \in Data
  BY DEF Data
<1>3. [[d EXCEPT !.init = n] EXCEPT !.eph = d.eph + 1] \in Data
  BY <1>1, <1>2 DEF Data
<1>4. Enlisting(d, n) \in Data
  BY <1>1, <1>3 DEF Data, Enlisting
<1> QED
  BY <1>4 DEF Data

LEMMA DataFields ==
  ASSUME NEW d \in Data
  PROVE  /\ d.init \in Nat /\ d.rid \in RoundId /\ d.eph \in Nat
         /\ d.keys \in [Server -> Nat] /\ d.got \in SUBSET Server
         /\ d.regs \in [Client -> Nat]
  BY DEF Data

LEMMA DataUpdates ==
  ASSUME NEW d \in Data, NEW ks \in [Server -> Nat], NEW r \in RoundId,
         NEW g \in SUBSET Server, NEW l \in [Client -> Nat]
  PROVE  /\ [d EXCEPT !.keys = ks] \in Data
         /\ [d EXCEPT !.got = g] \in Data
         /\ [d EXCEPT !.regs = l] \in Data
         /\ [d EXCEPT !.got = g, !.regs = l] \in Data
         /\ [d EXCEPT !.keys = ks, !.rid = r, !.got = g] \in Data
<1>1. [d EXCEPT !.keys = ks] \in Data
  BY DEF Data
<1>2. [d EXCEPT !.got = g] \in Data
  BY DEF Data
<1>3. [d EXCEPT !.regs = l] \in Data
  BY DEF Data
<1>4. [[d EXCEPT !.got = g] EXCEPT !.regs = l] \in Data
  BY <1>2 DEF Data
<1>5. [[d EXCEPT !.keys = ks] EXCEPT !.rid = r] \in Data
  BY <1>1 DEF Data
<1>6. [[[d EXCEPT !.keys = ks] EXCEPT !.rid = r] EXCEPT !.got = g] \in Data
  BY <1>5 DEF Data
<1> QED
  BY <1>1, <1>2, <1>3, <1>4, <1>6

\* To whom a server sends.
LEMMA Sends ==
  ASSUME NEW sg, NEW c \in [Server -> [Server -> Mail(sg)]], NEW s \in Server,
         NEW cn \in SUBSET Server, NEW m \in Authentic(sg)
  PROVE  /\ Sent(c, s, cn, ToOthers(m)) \in [Server -> [Server -> Mail(sg)]]
         /\ Sent(c, s, cn, ToProposer(m)) \in [Server -> [Server -> Mail(sg)]]
         /\ Sent(c, s, cn, ToServers(m)) \in [Server -> [Server -> Mail(sg)]]
         /\ \A out \in [cn -> {m}] :
              Sent(c, s, cn, out) \in [Server -> [Server -> Mail(sg)]]
<1> DEFINE M == Authentic(sg)
<1>1. c \in [Server -> [Server -> Seq(PacketOf(M))]]
  BY DEF Mail
<1>2. {Proposer} \in SUBSET Server
  BY ServerAssumption
<1>3. /\ ToOthers(m) \in [Server \ {Proposer} -> M]
      /\ ToProposer(m) \in [{Proposer} -> M]
      /\ ToServers(m) \in [Server -> M]
      /\ \A out \in [cn -> {m}] : out \in [cn -> M]
  BY DEF ToOthers, ToProposer, ToServers
<1> HIDE DEF M
<1>4. Sent(c, s, cn, ToOthers(m)) \in [Server -> [Server -> Seq(PacketOf(M))]]
  BY <1>1, <1>3, SentType
<1>5. Sent(c, s, cn, ToProposer(m)) \in [Server -> [Server -> Seq(PacketOf(M))]]
  BY <1>1, <1>2, <1>3, SentType
<1>6. Sent(c, s, cn, ToServers(m)) \in [Server -> [Server -> Seq(PacketOf(M))]]
  BY <1>1, <1>3, SentType
<1>7. \A out \in [cn -> {m}] :
        Sent(c, s, cn, out) \in [Server -> [Server -> Seq(PacketOf(M))]]
  BY <1>1, <1>3, SentType
<1> QED
  BY <1>4, <1>5, <1>6, <1>7 DEF M, Mail

-----------------------------------------------------------------------------
(* The state machine *)

\* A server that goes to state T with data d.
LEMMA GotoRunning ==
  ASSUME Inv, NEW s \in Server, NEW T \in States, NEW d \in Data,
         NEW rest \in Mail(signed), Goto(s, T, d, rest),
         signed \subseteq signed', Collected(T, d, signed'),
         chan' \in [Server -> [Server -> Mail(signed')]], initCount' \in Nat
  PROVE  Running'
<1> USE DEF Inv, Running
<1>1. st' \in [Server -> States] /\ data' \in [Server -> Data]
  BY DEF Goto
<1>2. storage' \in [Server -> Mail(signed')]
  <2>1. <<>> \in Mail(signed')
    BY DEF Mail
  <2> QED
    BY <2>1, MailMono DEF Goto
<1>3. todo' \in Mail(signed')
  <2>1. storage[s] \o rest \in Mail(signed)
    BY ConcatType DEF Mail
  <2> QED
    BY <2>1, MailMono DEF Goto
<1>4. reached' \subseteq Server \X States \X RoundId \X [Client -> Nat]
  BY DEF Goto, Data
<1>5. \A t \in Server : Collected(st'[t], data'[t], signed')
  <2> TAKE t \in Server
  <2>1. CASE t = s
    BY <2>1 DEF Goto
  <2>2. CASE t # s
    <3>1. st'[t] = st[t] /\ data'[t] = data[t]
      BY <2>2 DEF Goto
    <3> QED
      BY <3>1, CollectedMono
  <2> QED
    BY <2>1, <2>2
<1> QED
  BY <1>1, <1>2, <1>3, <1>4, <1>5

\* A server that stays where it is.
LEMMA StayInv ==
  ASSUME Inv, NEW s \in Server, NEW d \in Data, todo # <<>>, Stay(s, d),
         Collected(st[s], d, signed)
  PROVE  Inv'
<1> USE DEF Inv, Running
<1>1. Resting'
  BY DEF Resting, Stay, outside
<1>2. todo' \in Mail(signed)
  BY MsgType DEF Stay
<1>3. \A t \in Server : Collected(st'[t], data'[t], signed)
  <2> TAKE t \in Server
  <2> QED
    BY DEF Stay
<1> QED
  BY <1>1, <1>2, <1>3 DEF Stay

\* A server that restarts.
LEMMA RestartRunning ==
  ASSUME Inv, NEW s \in Server, NEW cn \in SUBSET Server,
         NEW c \in [Server -> [Server -> Mail(signed)]],
         NEW rest \in Mail(signed), Restart(s, cn, c, rest), UNCHANGED signed
  PROVE  Running'
<1> DEFINE d == Reset(data[s])
           n == initCount + 1
           f == Enlisting(d, n)
           opened == Sent(c, s, cn, ToOthers(ServerInit(n)))
<1>1. d \in Data /\ n \in Nat
  BY ResetType DEF Inv, Running
<1>2. f \in Data /\ f.eph \in Nat
  <2> HIDE DEF d, n
  <2> QED
    BY <1>1, EnlistingType
<1>3. CASE cn = Server /\ s = Proposer
  <2>1. /\ Goto(s, "Enlist", f, rest)
        /\ initCount' = n
        /\ chan' = Sent(opened, s, cn, ToProposer(ServerEnlist(s, n, f.eph)))
    BY <1>3 DEF Restart, NewNonce
  <2>2. /\ ServerInit(n) \in Authentic(signed)
        /\ ServerEnlist(s, n, f.eph) \in Authentic(signed)
    <3> HIDE DEF n, f
    <3> QED
      BY <1>1, <1>2, Made, Constants
  <2>3. opened \in [Server -> [Server -> Mail(signed)]]
    <3> HIDE DEF n
    <3> QED
      BY <2>2, Sends
  <2>4. chan' \in [Server -> [Server -> Mail(signed)]]
    <3> HIDE DEF opened, n, f
    <3> QED
      BY <2>1, <2>2, <2>3, Sends
  <2>5. Collected("Enlist", f, signed)
    BY DEF Collected, Queued
  <2> HIDE DEF f, n
  <2> QED
    BY <2>1, <2>4, <2>5, <1>1, <1>2, GotoRunning DEF States
<1>4. CASE ~(cn = Server /\ s = Proposer)
  <2> DEFINE T == IF cn = Server THEN "Init" ELSE "WaitingForServers"
  <2>1. Goto(s, T, d, rest) /\ chan' = c /\ initCount' = initCount
    BY <1>4 DEF Restart
  <2>2. Collected(T, d, signed)
    BY DEF Collected, Queued
  <2>3. T \in States /\ initCount \in Nat
    BY DEF States, Inv, Running
  <2> HIDE DEF T, d
  <2> QED
    BY <2>1, <2>2, <2>3, <1>1, GotoRunning
<1> QED
  BY <1>3, <1>4

-----------------------------------------------------------------------------
(* The message handlers *)

LEMMA StoreMessageInv ==
  ASSUME Inv, NEW s \in Server, StoreMessage(s)
  PROVE  Inv'
<1> USE DEF Inv, Running
<1>1. Resting'
  BY DEF Resting, StoreMessage, outside
<1>2. Append(storage[s], Head(todo)) \in Mail(signed) /\ Tail(todo) \in Mail(signed)
  BY MsgType DEF StoreMessage, Mail
<1>3. storage' \in [Server -> Mail(signed)]
  BY <1>2 DEF StoreMessage
<1> QED
  BY <1>1, <1>2, <1>3 DEF StoreMessage

LEMMA ProcessInitInv ==
  ASSUME Inv, NEW s \in Server, ProcessInit(s)
  PROVE  Inv'
<1> DEFINE d == Enlisting(data[s], Msg.n)
           m == ServerEnlist(s, d.init, d.eph)
<1>1. todo # <<>> /\ Msg.type = "ServerInit"
  BY DEF ProcessInit, Processing
<1>2. Msg.n \in Nat /\ Tail(todo) \in Mail(signed)
  BY <1>1, MsgType, BodyFields DEF Inv, Running
<1>3. d \in Data
  BY <1>2, EnlistingType DEF Inv, Running
<1>4. m \in Authentic(signed)
  <2> HIDE DEF d
  <2> QED
    BY <1>3, DataFields, Made, Constants
<1>5. chan' \in [Server -> [Server -> Mail(signed)]]
  <2>1. chan' = Sent(chan, s, conn[s], ToProposer(m))
    BY DEF ProcessInit
  <2> HIDE DEF m
  <2> QED
    BY <2>1, <1>4, Sends DEF Inv, Running, Resting
<1>6. Goto(s, "Enlist", d, Tail(todo)) /\ signed' = signed /\ initCount' \in Nat
  BY DEF ProcessInit, Inv, Running
<1>7. Collected("Enlist", d, signed)
  BY DEF Collected, Queued
<1>8. Running'
  <2> HIDE DEF d
  <2> QED
    BY <1>2, <1>3, <1>5, <1>6, <1>7, GotoRunning DEF States
<1> QED
  BY <1>8 DEF Inv, Resting, ProcessInit, outside

LEMMA EnterAgreeInv ==
  ASSUME Inv, NEW s \in Server, NEW keys \in [Server -> Nat], todo # <<>>,
         EnterAgree(s, keys)
  PROVE  Inv'
<1> DEFINE d == Agreeing(data[s], keys)
           agree == ServerAgree(s, d.rid, d.eph)
           m == ServerEnlisted(s, d.init, keys)
           enlisted == Sent(chan, s, conn[s], ToOthers(m))
<1>1. data[s] \in Data /\ Tail(todo) \in Mail(signed)
  BY MsgType DEF Inv, Running
<1>2. HashEnlists(data[s].init, keys) \in RoundId
  BY <1>1, DataFields DEF HashEnlists, RoundId
<1>3. d \in Data
  BY <1>1, <1>2, DataUpdates, Constants DEF Agreeing
<1>4. d.rid.keys = d.keys /\ d.got = {}
  BY <1>1 DEF Agreeing, HashEnlists, Data
<1>5. /\ Goto(s, "Agree", d, Tail(todo))
      /\ chan' = Sent(enlisted, s, conn[s], ToServers(agree))
      /\ signed' = signed \cup {agree}
      /\ UNCHANGED <<last, conn, link, initCount, outside>>
  BY DEF EnterAgree
<1> HIDE DEF d
<1>6. agree \in Body /\ m \in Authentic(signed)
  BY <1>3, DataFields, Made, Constants
<1>7. agree \in Authentic(signed')
  BY <1>5, <1>6 DEF Authentic
<1> HIDE DEF agree, m
<1>8. chan' \in [Server -> [Server -> Mail(signed')]]
  <2>1. enlisted \in [Server -> [Server -> Mail(signed)]]
    BY <1>6, Sends DEF Inv, Running, Resting
  <2>2. Mail(signed) \subseteq Mail(signed')
    BY <1>5, MailMono
  <2> HIDE DEF enlisted
  <2>3. enlisted \in [Server -> [Server -> Mail(signed')]]
    BY <2>1, <2>2
  <2> QED
    BY <2>3, <1>5, <1>7, Sends DEF Inv, Resting
<1>9. Collected("Agree", d, signed')
  BY <1>4 DEF Collected, Queued
<1>10. Running'
  BY <1>1, <1>3, <1>5, <1>8, <1>9, GotoRunning DEF States, Inv, Running
<1> QED
  BY <1>5, <1>6, <1>10 DEF Inv, Resting, outside

LEMMA ProcessEnlistInv ==
  ASSUME Inv, NEW s \in Server, ProcessEnlist(s)
  PROVE  Inv'
<1> DEFINE keys == [data[s].keys EXCEPT ![Msg.from] = Msg.key]
           d == [data[s] EXCEPT !.keys = keys]
<1>1. todo # <<>> /\ Msg.type = "ServerEnlist" /\ st[s] = "Enlist"
  BY DEF ProcessEnlist, EnlistOK, Processing
<1>2. data[s] \in Data /\ Msg.from \in Server /\ Msg.key \in Nat
  BY <1>1, MsgType, BodyFields DEF Inv, Running
<1>3. keys \in [Server -> Nat]
  BY <1>2, DataFields
<1>4. Stay(s, d) \/ EnterAgree(s, keys)
  BY DEF ProcessEnlist
<1> HIDE DEF keys
<1>5. d \in Data
  BY <1>2, <1>3, DataUpdates, Constants
<1>6. Collected("Enlist", d, signed)
  BY DEF Collected, Queued
<1> HIDE DEF d
<1> QED
  BY <1>1, <1>3, <1>4, <1>5, <1>6, StayInv, EnterAgreeInv

LEMMA ProcessEnlistedInv ==
  ASSUME Inv, NEW s \in Server, ProcessEnlisted(s)
  PROVE  Inv'
<1>1. todo # <<>> /\ Msg.type = "ServerEnlisted" /\ EnterAgree(s, Msg.keys)
  BY DEF ProcessEnlisted, EnlistedOK, Processing
<1>2. Msg.keys \in [Server -> Nat]
  BY <1>1, MsgType, BodyFields DEF Inv, Running
<1> QED
  BY <1>1, <1>2, EnterAgreeInv

LEMMA ProcessAgreeInv ==
  ASSUME Inv, NEW s \in Server, ProcessAgree(s)
  PROVE  Inv'
<1> DEFINE got == data[s].got \cup {Msg.from}
           d == [data[s] EXCEPT !.got = got]
           e == [data[s] EXCEPT !.got = {}, !.regs = NoRegs]
<1>1. /\ todo # <<>> /\ Msg.type = "ServerAgree" /\ st[s] = "Agree"
      /\ Msg.rid = data[s].rid /\ Msg.key = data[s].keys[Msg.from]
  BY DEF ProcessAgree, AgreeOK, Processing
<1>2. /\ data[s] \in Data /\ Msg \in Authentic(signed) /\ Tail(todo) \in Mail(signed)
      /\ Msg.from \in Server /\ Msg = ServerAgree(Msg.from, Msg.rid, Msg.key)
      /\ Collected("Agree", data[s], signed)
  BY <1>1, MsgType, BodyFields DEF Inv, Running
<1>3. Msg \in signed
  BY <1>1, <1>2 DEF Authentic
<1>4. \A t \in got : ServerAgree(t, data[s].rid, data[s].keys[t]) \in signed
  BY <1>1, <1>2, <1>3 DEF Collected
<1>5. d \in Data /\ e \in Data
  BY <1>2, DataFields, DataUpdates, Constants
<1>6. CASE Stay(s, d)
  <2>1. d.rid = data[s].rid /\ d.keys = data[s].keys /\ d.got = got
    BY <1>2 DEF Data
  <2> HIDE DEF d, got
  <2>2. Collected("Agree", d, signed)
    BY <1>2, <1>4, <2>1 DEF Collected, Queued
  <2> QED
    BY <1>1, <1>5, <1>6, <2>2, StayInv
<1>7. CASE /\ got = Server
           /\ Goto(s, "Registering", e, Tail(todo))
           /\ UNCHANGED <<last, signed, conn, link, chan, initCount, outside>>
  <2>1. e.rid = data[s].rid
    BY <1>2 DEF Data
  <2> HIDE DEF e, got
  <2>2. Collected("Registering", e, signed)
    BY <1>2, <1>4, <1>7, <2>1 DEF Collected, Queued
  <2>3. Running'
    BY <1>2, <1>5, <1>7, <2>2, GotoRunning DEF States, Inv, Running
  <2> QED
    BY <1>7, <2>3 DEF Inv, Resting, outside
<1> QED
  BY <1>6, <1>7 DEF ProcessAgree, Complete

LEMMA ProcessRegisterInv ==
  ASSUME Inv, NEW s \in Server, ProcessRegister(s)
  PROVE  Inv'
<1> DEFINE d == [data[s] EXCEPT !.regs[Msg.from] = Msg.key]
           regs == [data[s].regs EXCEPT ![Msg.from] = Msg.key]
<1>1. todo # <<>> /\ Msg.type = "ClientRegister" /\ st[s] = "Registering" /\ Stay(s, d)
  BY DEF ProcessRegister, RegisterOK, Processing
<1>2. /\ data[s] \in Data /\ Msg.from \in Client /\ Msg.key \in Nat
      /\ Collected("Registering", data[s], signed)
  BY <1>1, MsgType, BodyFields DEF Inv, Running
<1>3. regs \in [Client -> Nat]
  BY <1>2, DataFields
<1>4. d = [data[s] EXCEPT !.regs = regs]
  OBVIOUS
<1>5. d.rid = data[s].rid
  BY <1>2 DEF Data
<1> HIDE DEF d, regs
<1>6. d \in Data
  BY <1>2, <1>3, <1>4, DataUpdates, Constants
<1>7. Collected("Registering", d, signed)
  BY <1>2, <1>5 DEF Collected
<1> QED
  BY <1>1, <1>6, <1>7, StayInv

LEMMA FinishClientRegisterInv ==
  ASSUME Inv, NEW s \in Server, FinishClientRegister(s)
  PROVE  Inv'
<1> DEFINE d == [data[s] EXCEPT !.got = {}]
           l == RegisterList(data[s].rid, data[s].regs)
           m == ServerList(l)
<1>1. /\ st[s] = "Registering" /\ Goto(s, "ListExchange", d, <<>>)
      /\ chan' = Sent(chan, s, conn[s], ToServers(m))
      /\ UNCHANGED <<last, signed, conn, link, initCount, outside>>
  BY DEF FinishClientRegister
<1>2. data[s] \in Data /\ Collected("Registering", data[s], signed)
  BY <1>1 DEF Inv, Running
<1>3. d \in Data /\ d.rid = data[s].rid
  <2>1. d.rid = data[s].rid
    BY <1>2 DEF Data
  <2> QED
    BY <2>1, <1>2, DataUpdates, Constants
<1>4. m \in Authentic(signed)
  <2>1. l \in RegisterLists
    BY <1>2, DataFields, Constants
  <2> HIDE DEF l
  <2> QED
    BY <2>1, Made, Constants
<1> HIDE DEF d, m
<1>5. chan' \in [Server -> [Server -> Mail(signed)]]
  BY <1>1, <1>4, Sends DEF Inv, Running, Resting
<1>6. Collected("ListExchange", d, signed)
  BY <1>2, <1>3 DEF Collected, Queued
<1>7. <<>> \in Mail(signed) /\ initCount' \in Nat
  BY <1>1 DEF Mail, Inv, Running
<1>8. Running'
  BY <1>1, <1>3, <1>5, <1>6, <1>7, GotoRunning DEF States
<1> QED
  BY <1>1, <1>8 DEF Inv, Resting, outside

LEMMA ProcessListInv ==
  ASSUME Inv, NEW s \in Server, ProcessList(s)
  PROVE  Inv'
<1> DEFINE got == data[s].got \cup {Head(todo).src}
           regs == Merge(data[s].regs, Msg.list.regs)
           l == RegisterList(data[s].rid, regs)
           verify == ServerVerifyList(s, l)
           d == [data[s] EXCEPT !.got = got, !.regs = regs]
           e == [data[s] EXCEPT !.got = {}, !.regs = regs]
<1>1. /\ todo # <<>> /\ Msg.type = "ServerList" /\ st[s] = "ListExchange"
      /\ Head(todo).src \in Server
  BY DEF ProcessList, ListOK, Processing
<1>2. /\ data[s] \in Data /\ Tail(todo) \in Mail(signed)
      /\ Msg.list.regs \in [Client -> Nat]
      /\ Collected("ListExchange", data[s], signed)
  BY <1>1, MsgType, BodyFields DEF Inv, Running
<1>3. regs \in [Client -> Nat] /\ got \in SUBSET Server
  BY <1>1, <1>2, DataFields DEF Merge
<1>4. \/ Stay(s, d)
      \/ /\ Goto(s, "VerifyList", e, Tail(todo))
         /\ chan' = Sent(chan, s, conn[s], ToServers(verify))
         /\ signed' = signed \cup {verify}
         /\ UNCHANGED <<last, conn, link, initCount, outside>>
  BY DEF ProcessList
<1> HIDE DEF regs, got
<1>5. d \in Data /\ e \in Data
  BY <1>2, <1>3, DataUpdates, Constants
<1>6. d.rid = data[s].rid /\ e.rid = data[s].rid /\ e.got = {}
  BY <1>2 DEF Data
<1>7. verify \in Body
  <2>1. l \in RegisterLists
    BY <1>2, <1>3, DataFields, Constants
  <2> HIDE DEF l
  <2> QED
    BY <2>1, Made, Constants
<1> HIDE DEF d, e, verify
<1>8. CASE Stay(s, d)
  <2>1. Collected("ListExchange", d, signed)
    BY <1>2, <1>6 DEF Collected
  <2> QED
    BY <1>1, <1>5, <1>8, <2>1, StayInv
<1>9. CASE ~Stay(s, d)
  <2>1. verify \in Authentic(signed')
    BY <1>4, <1>7, <1>9 DEF Authentic
  <2>2. chan \in [Server -> [Server -> Mail(signed')]]
    <3>1. Mail(signed) \subseteq Mail(signed')
      BY <1>4, <1>9, MailMono
    <3> QED
      BY <3>1 DEF Inv, Running
  <2>3. chan' \in [Server -> [Server -> Mail(signed')]]
    <3>1. conn[s] \in SUBSET Server
      BY DEF Inv, Resting
    <3>2. chan' = Sent(chan, s, conn[s], ToServers(verify))
      BY <1>4, <1>9
    <3> QED
      BY <3>1, <3>2, <2>1, <2>2, Sends
  <2>4. Collected("VerifyList", e, signed')
    BY <1>2, <1>4, <1>6, <1>9 DEF Collected, Queued
  <2>5. Running'
    BY <1>2, <1>4, <1>5, <1>9, <2>3, <2>4, GotoRunning DEF States, Inv, Running
  <2> QED
    BY <1>4, <1>7, <1>9, <2>5 DEF Inv, Resting, outside
<1> QED
  BY <1>8, <1>9

LEMMA ProcessVerifyListInv ==
  ASSUME Inv, NEW s \in Server, ProcessVerifyList(s)
  PROVE  Inv'
<1> DEFINE got == data[s].got \cup {Head(todo).src}
           d == [data[s] EXCEPT !.got = got]
<1>1. /\ todo # <<>> /\ Msg.type = "ServerVerifyList" /\ st[s] = "VerifyList"
      /\ Head(todo).src \in Server
      /\ Msg = ServerVerifyList(Head(todo).src, RegisterList(data[s].rid, data[s].regs))
  BY DEF ProcessVerifyList, VerifyListOK, Processing
<1>2. /\ data[s] \in Data /\ Tail(todo) \in Mail(signed)
      /\ Msg \in Authentic(signed)
      /\ Collected("VerifyList", data[s], signed)
  BY <1>1, MsgType DEF Inv, Running
<1>3. Msg \in signed
  BY <1>1, <1>2 DEF Authentic
<1>4. \A t \in got : ServerVerifyList(t, RegisterList(data[s].rid, data[s].regs)) \in signed
  BY <1>1, <1>2, <1>3 DEF Collected
<1>5. d \in Data
  <2>1. got \in SUBSET Server
    BY <1>1, <1>2, DataFields
  <2> HIDE DEF got
  <2> QED
    BY <2>1, <1>2, DataUpdates, Constants
<1>6. d.rid = data[s].rid /\ d.regs = data[s].regs /\ d.got = got
  BY <1>2 DEF Data
<1>7. \/ Stay(s, d)
      \/ /\ got = Server
         /\ Goto(s, "Communicating", d, Tail(todo))
         /\ UNCHANGED <<last, signed, conn, link, chan, initCount, outside>>
  BY DEF ProcessVerifyList, Complete
<1> HIDE DEF d, got
<1>8. CASE Stay(s, d)
  <2>1. Collected("VerifyList", d, signed)
    BY <1>2, <1>4, <1>6 DEF Collected, Queued
  <2> QED
    BY <1>1, <1>5, <1>8, <2>1, StayInv
<1>9. CASE ~Stay(s, d)
  <2>1. Collected("Communicating", d, signed)
    BY <1>2, <1>4, <1>6, <1>7, <1>9 DEF Collected, Queued
  <2>2. Running'
    BY <1>2, <1>5, <1>7, <1>9, <2>1, GotoRunning DEF States, Inv, Running
  <2> QED
    BY <1>7, <1>9, <2>2 DEF Inv, Resting, outside
<1> QED
  BY <1>8, <1>9

LEMMA ProcessStopInv ==
  ASSUME Inv, NEW s \in Server, ProcessStop(s)
  PROVE  Inv'
<1> DEFINE again == IF Msg.rid = data[s].rid THEN [t \in conn[s] |-> Msg]
                                            ELSE ToServers(Msg)
           c == IF s = Proposer THEN Sent(chan, s, conn[s], again) ELSE chan
<1>1. todo # <<>> /\ last' = [last EXCEPT ![s] = Msg]
  BY DEF ProcessStop, Processing
<1>2. Msg \in Authentic(signed) /\ Msg \in Body /\ Tail(todo) \in Mail(signed)
  BY <1>1, MsgType DEF Inv, Running
<1>3. last' \in [Server -> Body \cup {NoStop}]
  BY <1>1, <1>2 DEF Inv, Resting
<1>4. CASE /\ todo' = Tail(todo)
           /\ UNCHANGED <<st, data, storage, signed, reached, conn, link, chan,
                          initCount, outside>>
  BY <1>2, <1>3, <1>4 DEF Inv, Running, Resting, outside
<1>5. CASE /\ Restart(s, conn[s], c, Tail(todo))
           /\ UNCHANGED <<signed, conn, link, outside>>
  <2>1. c \in [Server -> [Server -> Mail(signed)]]
    <3>1. /\ chan \in [Server -> [Server -> Mail(signed)]]
          /\ conn[s] \in SUBSET Server
      BY DEF Inv, Running, Resting
    <3> DEFINE out == [t \in conn[s] |-> Msg]
    <3>2. out \in [conn[s] -> {Msg}]
      OBVIOUS
    <3>3. again = out \/ again = ToServers(Msg)
      OBVIOUS
    <3> HIDE DEF out, again
    <3>4. Sent(chan, s, conn[s], again) \in [Server -> [Server -> Mail(signed)]]
      <4>1. Sent(chan, s, conn[s], out) \in [Server -> [Server -> Mail(signed)]]
        BY <3>1, <3>2, <1>2, Sends
      <4>2. Sent(chan, s, conn[s], ToServers(Msg)) \in [Server -> [Server -> Mail(signed)]]
        BY <3>1, <1>2, Sends
      <4> QED
        BY <3>3, <4>1, <4>2
    <3> QED
      BY <3>1, <3>4
  <2> HIDE DEF c
  <2>2. Running'
    BY <1>2, <1>5, <2>1, RestartRunning DEF Inv, Resting
  <2> QED
    BY <1>3, <1>5, <2>2 DEF Inv, Resting, outside
<1> QED
  BY <1>4, <1>5 DEF ProcessStop

LEMMA DropInv ==
  ASSUME Inv, NEW s \in Server, Drop(s)
  PROVE  Inv'
<1>1. todo # <<>> /\ Stay(s, data[s])
  BY DEF Drop
<1> QED
  BY <1>1, StayInv DEF Inv, Running

-----------------------------------------------------------------------------
(* Connections and the surroundings *)

LEMMA HandleConnectionRunning ==
  ASSUME Inv, NEW s \in Server, NEW cn \in SUBSET Server,
         NEW c \in [Server -> [Server -> Mail(signed)]],
         HandleConnection(s, cn, c), UNCHANGED signed
  PROVE  Running'
<1>1. <<>> \in Mail(signed)
  BY DEF Mail
<1>2. CASE Restart(s, cn, c, <<>>)
  BY <1>1, <1>2, RestartRunning
<1>3. CASE chan' = c /\ UNCHANGED <<st, data, storage, reached, todo, initCount>>
  BY <1>3 DEF Inv, Running
<1> QED
  BY <1>2, <1>3 DEF HandleConnection

LEMMA HandleDisconnectionRunning ==
  ASSUME Inv, NEW s \in Server, NEW p \in Server, NEW cn \in SUBSET Server,
         NEW c \in [Server -> [Server -> Mail(signed)]],
         HandleDisconnection(s, p, cn, c), UNCHANGED signed
  PROVE  Running'
<1>1. <<>> \in Mail(signed)
  BY DEF Mail
<1>2. CASE DefaultHandleDisconnection(s, p, cn, c)
  <2> DEFINE r == IF data[s].rid = NoRound THEN NonceId(data[s].init) ELSE data[s].rid
             m == ServerStop(s, r, p)
  <2>1. r \in RoundId
    BY DataFields, Constants DEF Inv, Running
  <2>2. /\ chan' = Sent(c, s, cn, [t \in cn |-> m])
        /\ UNCHANGED <<st, data, storage, reached, todo, initCount>>
    BY <1>2 DEF DefaultHandleDisconnection
  <2> HIDE DEF r
  <2>3. m \in Authentic(signed)
    <3>1. RegisterList(NoRound, NoRegs) \in RegisterLists
      BY Constants
    <3> QED
      BY <2>1, <3>1, Made, Constants
  <2> HIDE DEF m
  <2>4. chan' \in [Server -> [Server -> Mail(signed)]]
    <3> DEFINE out == [t \in cn |-> m]
    <3>1. out \in [cn -> {m}] /\ chan' = Sent(c, s, cn, out)
      BY <2>2
    <3> HIDE DEF out
    <3> QED
      BY <2>3, <3>1, Sends
  <2> QED
    BY <2>2, <2>4 DEF Inv, Running
<1>3. CASE Restart(s, cn, c, <<>>)
  BY <1>1, <1>3, RestartRunning
<1>4. CASE chan' = c /\ UNCHANGED <<st, data, storage, reached, todo, initCount>>
  BY <1>4 DEF Inv, Running
<1> QED
  BY <1>2, <1>3, <1>4
     DEF HandleDisconnection, InitHandleDisconnection, CommHandleDisconnection

\* What is taken from an edge is mail, and leaves mail.
LEMMA TakenType ==
  ASSUME Inv, NEW p \in Server, NEW s \in Server, Arriving(p, s)
  PROVE  /\ Head(chan[p][s]) \in PacketOf(Authentic(signed))
         /\ Taken(p, s) \in [Server -> [Server -> Mail(signed)]]
<1>1. chan \in [Server -> [Server -> Mail(signed)]] /\ chan[p][s] # <<>>
  BY DEF Inv, Running, Arriving
<1>2. Head(chan[p][s]) \in PacketOf(Authentic(signed)) /\ Tail(chan[p][s]) \in Mail(signed)
  BY <1>1, HeadTail DEF Mail
<1> QED
  BY <1>1, <1>2 DEF Taken

\* The edge's own signals are authentic.
LEMMA Signals ==
  ASSUME NEW a \in Server, NEW b \in Server
  PROVE  /\ [src |-> a, dst |-> b, body |-> Connect] \in PacketOf(Authentic(signed))
         /\ [src |-> a, dst |-> b, body |-> Closed] \in PacketOf(Authentic(signed))
  BY DEF PacketOf, Authentic, Body, Connect, Closed

LEMMA NewEdgeInv ==
  ASSUME Inv, NEW a \in Server, NEW b \in Server, NewEdge(a, b)
  PROVE  Inv'
<1>1. link' \subseteq SUBSET Server
  BY DEF Inv, Resting, NewEdge
<1> QED
  BY <1>1 DEF Inv, Running, Resting, NewEdge, machine, outside

LEMMA BindEdgeInv ==
  ASSUME Inv, NEW a \in Server, NEW b \in Server, BindEdge(a, b)
  PROVE  Inv'
<1> DEFINE m == [src |-> a, dst |-> b, body |-> Connect]
           c == [chan EXCEPT ![a][b] = <<m>>]
<1>1. <<m>> \in Mail(signed)
  <2>1. m \in PacketOf(Authentic(signed))
    BY Signals
  <2> HIDE DEF m
  <2> QED
    BY <2>1 DEF Mail
<1>2. c \in [Server -> [Server -> Mail(signed)]]
  <2> HIDE DEF m
  <2> QED
    BY <1>1 DEF Inv, Running
<1>3. conn' \in [Server -> SUBSET Server]
  BY DEF BindEdge, Inv, Resting
<1>4. HandleConnection(a, conn'[a], c) /\ UNCHANGED <<last, signed, link, outside>>
  BY DEF BindEdge
<1> HIDE DEF c
<1>5. Running'
  BY <1>2, <1>3, <1>4, HandleConnectionRunning
<1> QED
  BY <1>3, <1>4, <1>5 DEF Inv, Resting, outside

LEMMA BreakEdgeInv ==
  ASSUME Inv, NEW a \in Server, NEW b \in Server, BreakEdge(a, b)
  PROVE  Inv'
<1> DEFINE Cut(x, y, k) == Append(SubSeq(chan[x][y], 1, k),
                                  [src |-> x, dst |-> y, body |-> Closed])
<1>1. \A x, y \in Server : \A k \in 0..Len(chan[x][y]) : Cut(x, y, k) \in Mail(signed)
  <2> TAKE x, y \in Server
  <2> TAKE k \in 0..Len(chan[x][y])
  <2>1. chan[x][y] \in Seq(PacketOf(Authentic(signed)))
    BY DEF Inv, Running, Mail
  <2>2. SubSeq(chan[x][y], 1, k) \in Seq(PacketOf(Authentic(signed)))
    BY <2>1
  <2>3. [src |-> x, dst |-> y, body |-> Closed] \in PacketOf(Authentic(signed))
    BY Signals
  <2> QED
    BY <2>2, <2>3 DEF Mail
<1>2. PICK i \in 0..Len(chan[a][b]), j \in 0..Len(chan[b][a]) :
        chan' = [chan EXCEPT ![a][b] = Cut(a, b, i), ![b][a] = Cut(b, a, j)]
  BY DEF BreakEdge
<1>3. Cut(a, b, i) \in Mail(signed) /\ Cut(b, a, j) \in Mail(signed)
  BY <1>1
<1> HIDE DEF Cut
<1>4. chan' \in [Server -> [Server -> Mail(signed)]]
  BY <1>2, <1>3 DEF Inv, Running
<1>5. breaks' \in Nat /\ link' \subseteq SUBSET Server
  BY DEF BreakEdge, Inv, Resting
<1> QED
  BY <1>4, <1>5 DEF Inv, Running, Resting, BreakEdge, machine

LEMMA ReceiveConnectInv ==
  ASSUME Inv, NEW p \in Server, NEW s \in Server, ReceiveConnect(p, s)
  PROVE  Inv'
<1>1. Taken(p, s) \in [Server -> [Server -> Mail(signed)]]
  BY TakenType DEF ReceiveConnect
<1>2. conn' \in [Server -> SUBSET Server]
  BY DEF ReceiveConnect, Inv, Resting
<1>3. HandleConnection(s, conn'[s], Taken(p, s)) /\ UNCHANGED <<last, signed, link, outside>>
  BY DEF ReceiveConnect
<1>4. Running'
  BY <1>1, <1>2, <1>3, HandleConnectionRunning
<1> QED
  BY <1>2, <1>3, <1>4 DEF Inv, Resting, outside

LEMMA ReceiveClosedInv ==
  ASSUME Inv, NEW p \in Server, NEW s \in Server, ReceiveClosed(p, s)
  PROVE  Inv'
<1>1. Taken(p, s) \in [Server -> [Server -> Mail(signed)]]
  BY TakenType DEF ReceiveClosed
<1>2. conn' \in [Server -> SUBSET Server]
  BY DEF ReceiveClosed, Inv, Resting
<1>3. Resting'
  BY <1>2 DEF ReceiveClosed, Inv, Resting, outside
<1>4. CASE HandleDisconnection(s, p, conn'[s], Taken(p, s))
  <2>1. UNCHANGED signed
    BY DEF ReceiveClosed
  <2> QED
    BY <1>1, <1>2, <1>3, <1>4, <2>1, HandleDisconnectionRunning DEF Inv
<1>5. CASE chan' = Taken(p, s) /\ UNCHANGED <<st, data, storage, reached, todo, initCount>>
  BY <1>1, <1>3, <1>5 DEF ReceiveClosed, Inv, Running
<1> QED
  BY <1>4, <1>5 DEF ReceiveClosed

LEMMA ReceiveInv ==
  ASSUME Inv, NEW p \in Server, NEW s \in Server, Receive(p, s)
  PROVE  Inv'
<1>1. /\ Taken(p, s) \in [Server -> [Server -> Mail(signed)]]
      /\ Head(chan[p][s]) \in PacketOf(Authentic(signed))
  BY TakenType DEF Receive
<1>2. todo' \in Mail(signed)
  BY <1>1 DEF Receive, Mail
<1> QED
  BY <1>1, <1>2 DEF Receive, Inv, Running, Resting, machine, outside

LEMMA ForwardedDataInv ==
  ASSUME Inv, NEW p \in Server, NEW s \in Server, ForwardedData(p, s)
  PROVE  Inv'
<1> DEFINE m == Head(chan[p][s])
           c == Taken(p, s)
<1>1. c \in [Server -> [Server -> Mail(signed)]] /\ m \in PacketOf(Authentic(signed))
  BY TakenType DEF ForwardedData
<1>2. m.dst \in Server
  BY <1>1 DEF PacketOf
<1>3. chan' = c \/ chan' = [c EXCEPT ![s][m.dst] = Append(@, m)]
  BY DEF ForwardedData
<1> HIDE DEF c, m
<1>4. Append(c[s][m.dst], m) \in Mail(signed)
  BY <1>1, <1>2 DEF Mail
<1>5. chan' \in [Server -> [Server -> Mail(signed)]]
  <2> DEFINE q == Append(c[s][m.dst], m)
  <2>1. chan' = c \/ chan' = [c EXCEPT ![s] = [c[s] EXCEPT ![m.dst] = q]]
    BY <1>1, <1>2, <1>3
  <2> HIDE DEF q
  <2>2. [c[s] EXCEPT ![m.dst] = q] \in [Server -> Mail(signed)]
    BY <1>1, <1>2, <1>4 DEF q
  <2> QED
    BY <1>1, <2>1, <2>2
<1> QED
  BY <1>5 DEF ForwardedData, Inv, Running, Resting, machine, outside

LEMMA StartInv ==
  ASSUME Inv, NEW s \in Server, Start(s)
  PROVE  Inv'
<1>1. Restart(s, conn[s], chan, <<>>) /\ UNCHANGED <<last, signed, conn, link, outside>>
  BY DEF Start
<1>2. Running'
  <2>1. /\ chan \in [Server -> [Server -> Mail(signed)]]
        /\ conn[s] \in SUBSET Server /\ <<>> \in Mail(signed)
    BY DEF Inv, Running, Resting, Mail
  <2> QED
    BY <1>1, <2>1, RestartRunning
<1> QED
  BY <1>1, <1>2 DEF Inv, Resting, outside

LEMMA RoundFinishedInv ==
  ASSUME Inv, NEW s \in Server, RoundFinished(s)
  PROVE  Inv'
<1>1. /\ Restart(s, conn[s], chan, <<>>)
      /\ UNCHANGED <<last, signed, conn, link, breaks, regCount>>
  BY DEF RoundFinished
<1>2. Running'
  <2>1. /\ chan \in [Server -> [Server -> Mail(signed)]]
        /\ conn[s] \in SUBSET Server /\ <<>> \in Mail(signed)
    BY DEF Inv, Running, Resting, Mail
  <2> QED
    BY <1>1, <2>1, RestartRunning
<1>3. over' \subseteq RoundId
  BY DataFields DEF RoundFinished, Inv, Running, Resting
<1> QED
  BY <1>1, <1>2, <1>3 DEF Inv, Resting

LEMMA RegisterInv ==
  ASSUME Inv, NEW s \in Server, NEW c \in Client, NEW r \in RoundId, Register(s, c, r)
  PROVE  Inv'
<1> DEFINE m == ClientRegister(c, r, regCount[c] + 1)
<1>1. regCount[c] + 1 \in Nat /\ regCount' \in [Client -> Nat]
  BY DEF Register, Inv, Resting
<1>2. m \in Authentic(signed)
  BY <1>1 DEF ClientRegister, Authentic, Body
<1>3. todo' = <<[src |-> c, dst |-> s, body |-> m]>>
  BY DEF Register
<1> HIDE DEF m
<1>4. todo' \in Mail(signed)
  <2>1. [src |-> c, dst |-> s, body |-> m] \in PacketOf(Authentic(signed))
    BY <1>2 DEF PacketOf
  <2> QED
    BY <1>3, <2>1 DEF Mail
<1> QED
  BY <1>1, <1>4 DEF Register, Inv, Running, Resting, machine

-----------------------------------------------------------------------------
(* The theorems *)

LEMMA InitInv == Init => Inv
<1> SUFFICES ASSUME Init PROVE Inv
  OBVIOUS
<1>1. <<>> \in Mail(signed)
  BY DEF Mail
<1>2. data \in [Server -> Data]
  BY Constants DEF Init, Data
<1>3. \A s \in Server : Collected(st[s], data[s], signed)
  BY DEF Init, Collected, Queued
<1> QED
  BY <1>1, <1>2, <1>3 DEF Init, Inv, Running, Resting, States

LEMMA NextInv == Inv /\ [Next]_vars => Inv'
<1> SUFFICES ASSUME Inv, [Next]_vars PROVE Inv'
  OBVIOUS
<1>1. CASE UNCHANGED vars
  BY <1>1 DEF Inv, Running, Resting, vars, machine, outside
<1>2. CASE System
  <2>1. ASSUME NEW s \in Server, Handle(s) PROVE Inv'
    BY <2>1, StoreMessageInv, ProcessInitInv, ProcessEnlistInv, ProcessEnlistedInv,
       ProcessAgreeInv, ProcessRegisterInv, ProcessListInv, ProcessVerifyListInv,
       ProcessStopInv, DropInv DEF Handle
  <2> QED
    BY <1>2, <2>1, StartInv, FinishClientRegisterInv, RoundFinishedInv, NewEdgeInv,
       BindEdgeInv, ReceiveConnectInv, ReceiveClosedInv, ReceiveInv, ForwardedDataInv
       DEF System
<1>3. CASE Environment
  <2>1. {x[3] : x \in reached} \subseteq RoundId
    BY DEF Inv, Running
  <2> QED
    BY <1>3, <2>1, BreakEdgeInv, RegisterInv, RoundFinishedInv DEF Environment
<1> QED
  BY <1>1, <1>2, <1>3 DEF Next

LEMMA SpecInv == Spec => []Inv
  BY InitInv, NextInv, PTL DEF Spec

LEMMA InvType == Inv => TypeOK
<1> SUFFICES ASSUME Inv PROVE TypeOK
  OBVIOUS
<1>1. Mail(signed) \subseteq Seq(Packet)
  <2>1. PacketOf(Authentic(signed)) \subseteq Packet
    BY DEF PacketOf, Authentic, Packet
  <2> QED
    BY <2>1, SeqMono DEF Mail
<1> QED
  BY <1>1 DEF Inv, Running, Resting, TypeOK

\* Every variable always has its type: no handler of the session stores, sends or
\* keeps anything but well-formed messages and round data.
THEOREM TypeCorrect == Spec => []TypeOK
  BY SpecInv, InvType, PTL

\* A server that takes registrations for a round or runs it (from RegisteringState
\* on) has every server's signed agreement on that round and its keys, whatever
\* stops, restarts and broken edges came before.
THEOREM RoundIsCertified == Spec => []CertifiedRound
<1>1. Inv => CertifiedRound
  BY DEF Inv, Running, Collected, CertifiedRound
<1> QED
  BY <1>1, SpecInv, PTL

\* A server that runs a round (CommState) has every server's signature on its
\* client list.
THEOREM RosterIsCertified == Spec => []CertifiedRoster
<1>1. Inv => CertifiedRoster
  BY DEF Inv, Running, Collected, CertifiedRoster
<1> QED
  BY <1>1, SpecInv, PTL

-----------------------------------------------------------------------------
(* The invariant.  The ServerInits on their way to a server, first those it  *)
(* has stored, then those of the current turn, then those on its edge from   *)
(* the proposer, are numbered upwards, and all are newer than any it took up. *)

IsInit(p, t) == p.body.type = "ServerInit" /\ p.dst = t
Rising(q, t) ==
  \A i, j \in DOMAIN q :
    i < j /\ IsInit(q[i], t) /\ IsInit(q[j], t) => q[i].body.n < q[j].body.n
Precedes(p, q, t) ==
  \A i \in DOMAIN p, j \in DOMAIN q :
    IsInit(p[i], t) /\ IsInit(q[j], t) => p[i].body.n < q[j].body.n
Fresh(q, t, U, hi) ==
  \A i \in DOMAIN q :
    IsInit(q[i], t) =>
      t # Proposer /\ q[i].body.n \in 1..hi /\ \A k \in U : k < q[i].body.n

\* Stored w, current turn q and edge c of server t, which has used the numbers U.
Orderly(w, q, c, t, U, hi) ==
  /\ Rising(w, t) /\ Rising(q, t) /\ Rising(c, t)
  /\ Precedes(w, q, t) /\ Precedes(w, c, t) /\ Precedes(q, c, t)
  /\ Fresh(w, t, U, hi) /\ Fresh(q, t, U, hi) /\ Fresh(c, t, U, hi)

\* A ServerInit travels on the proposer's edge to the server it is meant for, and
\* a server stores only what is meant for it.
Direct(c) ==
  \A a, b \in Server : \A i \in DOMAIN c[a][b] :
    c[a][b][i].body.type = "ServerInit" => a = Proposer /\ c[a][b][i].dst = b
Own(W) == \A t \in Server : \A i \in DOMAIN W[t] : W[t][i].dst = t

\* The numbers server t has taken up.
Past(t) == {x[3].n : x \in {y \in reached : y[1] = t}}
Used == [t \in Server |-> {data[t].init} \cup Past(t)]

Ordered(W, q, c, U, hi) ==
  /\ \A t \in Server : Orderly(W[t], q, c[Proposer][t], t, U[t], hi)
  /\ Direct(c) /\ Own(W)

\* What the number of a server's round is, and what it says of its past.
Numbered(t) ==
  /\ \A k \in Used[t] : k \in 0..initCount
  /\ st[t] \notin Queued \cup {"Agree"} => data[t].rid = NoRound
  /\ st[t] = "Init" => \A i \in DOMAIN storage[t] : ~IsInit(storage[t][i], t)
  /\ st[t] = "Enlist" => \A k \in Past(t) : k < data[t].init
  /\ st[t] \in Forming \cup Queued => 0 < data[t].init
  /\ st[t] \in Queued \cup {"Agree"} => data[t].rid.n = data[t].init

OrderInv ==
  /\ Ordered(storage, todo, chan, Used, initCount)
  /\ \A t \in Server : Numbered(t)

\* When server t entered one of these states, it was for a number below n.
Before(t, states, n) == \A x \in reached : x[1] = t /\ x[2] \in states => x[3].n < n

\* What the history of server t says of state T for round r with clients regs.
Historic(t, T, r, regs) ==
  /\ T = "Agree" => Before(t, Queued, r.n)
  /\ T \in {"Registering", "ListExchange"} => Before(t, {"VerifyList", "Communicating"}, r.n)
  /\ T = "VerifyList" => Before(t, {"Communicating"}, r.n)
  /\ T \in {"VerifyList", "Communicating"} => <<t, "VerifyList", r, regs>> \in reached

\* A server signs one client list per round, and runs a round with the list it
\* signed and all others signed.
OneList ==
  \A x, y \in reached :
    x[1] = y[1] /\ x[2] = "VerifyList" /\ y[2] = "VerifyList" /\ x[3] = y[3] => x[4] = y[4]
SignedLists ==
  \A x \in reached :
    x[2] = "Communicating" =>
      /\ <<x[1], "VerifyList", x[3], x[4]>> \in reached
      /\ \A t \in Server : ServerVerifyList(t, RegisterList(x[3], x[4])) \in signed
ListsSigned ==
  \A m \in signed :
    m.type = "ServerVerifyList" /\ m.list.regs # NoRegs =>
      <<m.from, "VerifyList", m.list.rid, m.list.regs>> \in reached

\* A server signs one agreement per ServerInit, and takes registrations for a round
\* that all have signed.
OneAgree ==
  \A x, y \in reached :
    x[1] = y[1] /\ x[2] = "Agree" /\ y[2] = "Agree" /\ x[3].n = y[3].n => x[3] = y[3]
SignedRounds ==
  \A x \in reached :
    x[2] \in Queued => \A t \in Server : ServerAgree(t, x[3], x[3].keys[t]) \in signed
RoundsSigned ==
  \A m \in signed :
    m.type = "ServerAgree" => \E x \in reached : x[1] = m.from /\ x[2] = "Agree" /\ x[3] = m.rid

HistoryInv ==
  /\ \A t \in Server : Historic(t, st[t], data[t].rid, data[t].regs)
  /\ OneList /\ SignedLists /\ ListsSigned
  /\ OneAgree /\ SignedRounds /\ RoundsSigned

-----------------------------------------------------------------------------
(* Orderly sequences *)

\* What holds for a set of used numbers and a bound holds for a smaller set and a
\* larger bound.
LEMMA OrderlyWeaken ==
  ASSUME NEW w, NEW q, NEW c, NEW t, NEW U, NEW V, V \subseteq U,
         NEW hi \in Nat, NEW hj \in Nat, hi <= hj, Orderly(w, q, c, t, U, hi)
  PROVE  Orderly(w, q, c, t, V, hj)
<1>1. 1..hi \subseteq 1..hj
  OBVIOUS
<1> QED
  BY <1>1 DEF Orderly, Fresh

\* The first message of the turn is done with.
LEMMA OrderlyTail ==
  ASSUME NEW X, NEW w \in Seq(X), NEW q \in Seq(X), NEW c \in Seq(X), q # <<>>,
         NEW t, NEW U, NEW hi, Orderly(w, q, c, t, U, hi)
  PROVE  Orderly(w, Tail(q), c, t, U, hi)
<1>1. /\ DOMAIN Tail(q) = 1..(Len(q) - 1) /\ DOMAIN q = 1..Len(q) /\ Len(q) \in Nat
      /\ \A i \in DOMAIN Tail(q) : Tail(q)[i] = q[i + 1]
  OBVIOUS
<1>2. \A i \in DOMAIN Tail(q) : i + 1 \in DOMAIN q
  BY <1>1
<1>3. Rising(Tail(q), t)
  BY <1>1, <1>2 DEF Orderly, Rising
<1>4. Precedes(w, Tail(q), t) /\ Precedes(Tail(q), c, t)
  BY <1>1, <1>2 DEF Orderly, Precedes
<1>5. Fresh(Tail(q), t, U, hi)
  BY <1>1, <1>2 DEF Orderly, Fresh
<1> QED
  BY <1>3, <1>4, <1>5 DEF Orderly

\* It is taken up, and what is left is newer.
LEMMA OrderlyAdopt ==
  ASSUME NEW X, NEW w \in Seq(X), NEW q \in Seq(X), NEW c \in Seq(X), q # <<>>,
         NEW t, NEW U, NEW hi, Orderly(w, q, c, t, U, hi),
         IsInit(Head(q), t), \A i \in DOMAIN w : ~IsInit(w[i], t)
  PROVE  Orderly(w, Tail(q), c, t, U \cup {Head(q).body.n}, hi)
<1>1. /\ DOMAIN Tail(q) = 1..(Len(q) - 1) /\ DOMAIN q = 1..Len(q) /\ Len(q) \in Nat
      /\ \A i \in DOMAIN Tail(q) : Tail(q)[i] = q[i + 1]
      /\ Head(q) = q[1] /\ 1 \in DOMAIN q
  OBVIOUS
<1>2. Orderly(w, Tail(q), c, t, U, hi)
  BY OrderlyTail
<1>3. \A i \in DOMAIN Tail(q) : i + 1 \in DOMAIN q /\ 1 < i + 1
  BY <1>1
<1>4. Fresh(w, t, U \cup {Head(q).body.n}, hi)
  BY DEF Fresh
<1>5. Fresh(Tail(q), t, U \cup {Head(q).body.n}, hi)
  BY <1>1, <1>2, <1>3 DEF Orderly, Fresh, Rising
<1>6. Fresh(c, t, U \cup {Head(q).body.n}, hi)
  BY <1>1, <1>2 DEF Orderly, Fresh, Precedes
<1> QED
  BY <1>2, <1>4, <1>5, <1>6 DEF Orderly

\* It is stored.
LEMMA OrderlyStore ==
  ASSUME NEW X, NEW w \in Seq(X), NEW q \in Seq(X), NEW c \in Seq(X), q # <<>>,
         NEW t, NEW U, NEW hi, Orderly(w, q, c, t, U, hi)
  PROVE  Orderly(Append(w, Head(q)), Tail(q), c, t, U, hi)
<1> DEFINE v == Append(w, Head(q))
<1>1. /\ DOMAIN Tail(q) = 1..(Len(q) - 1) /\ DOMAIN q = 1..Len(q) /\ Len(q) \in Nat
      /\ \A i \in DOMAIN Tail(q) : Tail(q)[i] = q[i + 1]
      /\ Head(q) = q[1] /\ 1 \in DOMAIN q
  OBVIOUS
<1>2. /\ DOMAIN v = 1..(Len(w) + 1) /\ DOMAIN w = 1..Len(w) /\ Len(w) \in Nat
      /\ \A i \in DOMAIN w : v[i] = w[i]
      /\ v[Len(w) + 1] = q[1]
  BY <1>1
<1>3. Orderly(w, Tail(q), c, t, U, hi)
  BY OrderlyTail
<1>4. \A i \in DOMAIN Tail(q) : i + 1 \in DOMAIN q /\ 1 < i + 1
  BY <1>1
<1> HIDE DEF v
<1>5. \A i \in DOMAIN v : i \in DOMAIN w \/ i = Len(w) + 1
  BY <1>2
<1>6. Rising(v, t)
  <2> SUFFICES ASSUME NEW i \in DOMAIN v, NEW j \in DOMAIN v, i < j,
                      IsInit(v[i], t), IsInit(v[j], t)
               PROVE  v[i].body.n < v[j].body.n
    BY DEF Rising
  <2>1. i \in DOMAIN w
    BY <1>2, <1>5
  <2> QED
    BY <1>1, <1>2, <1>5, <2>1 DEF Orderly, Rising, Precedes
<1>7. Precedes(v, Tail(q), t)
  BY <1>1, <1>2, <1>3, <1>4, <1>5 DEF Orderly, Precedes, Rising
<1>8. Precedes(v, c, t)
  BY <1>1, <1>2, <1>5 DEF Orderly, Precedes
<1>9. Fresh(v, t, U, hi)
  BY <1>1, <1>2, <1>5 DEF Orderly, Fresh
<1> QED
  BY <1>3, <1>6, <1>7, <1>8, <1>9 DEF Orderly, v

\* The stored messages are put before what is left of the turn.
LEMMA OrderlyReplay ==
  ASSUME NEW X, NEW w \in Seq(X), NEW q \in Seq(X), NEW c \in Seq(X),
         NEW t, NEW U, NEW hi, Orderly(w, q, c, t, U, hi)
  PROVE  Orderly(<<>>, w \o q, c, t, U, hi)
<1> DEFINE v == w \o q
<1>1. /\ DOMAIN v = 1..(Len(w) + Len(q)) /\ DOMAIN w = 1..Len(w) /\ DOMAIN q = 1..Len(q)
      /\ Len(w) \in Nat /\ Len(q) \in Nat
      /\ \A i \in 1..(Len(w) + Len(q)) : v[i] = IF i <= Len(w) THEN w[i] ELSE q[i - Len(w)]
  OBVIOUS
<1> HIDE DEF v
<1>2. \A i \in DOMAIN v : \/ i \in DOMAIN w /\ v[i] = w[i]
                          \/ i - Len(w) \in DOMAIN q /\ v[i] = q[i - Len(w)] /\ i > Len(w)
  BY <1>1
<1>3. Rising(v, t)
  <2> SUFFICES ASSUME NEW i \in DOMAIN v, NEW j \in DOMAIN v, i < j,
                      IsInit(v[i], t), IsInit(v[j], t)
               PROVE  v[i].body.n < v[j].body.n
    BY DEF Rising
  <2>1. CASE i <= Len(w) /\ j <= Len(w)
    BY <1>1, <2>1 DEF Orderly, Rising
  <2>2. CASE i <= Len(w) /\ j > Len(w)
    BY <1>1, <1>2, <2>2 DEF Orderly, Precedes
  <2>3. CASE i > Len(w) /\ j > Len(w)
    <3>1. /\ i - Len(w) \in DOMAIN q /\ v[i] = q[i - Len(w)]
          /\ j - Len(w) \in DOMAIN q /\ v[j] = q[j - Len(w)]
          /\ i - Len(w) < j - Len(w)
      BY <1>1, <2>3
    <3> QED
      BY <3>1 DEF Orderly, Rising
  <2> QED
    BY <1>1, <2>1, <2>2, <2>3
<1>4. Precedes(v, c, t)
  BY <1>2 DEF Orderly, Precedes
<1>5. Fresh(v, t, U, hi)
  BY <1>2 DEF Orderly, Fresh
<1> QED
  BY <1>3, <1>4, <1>5 DEF Orderly, Rising, Precedes, Fresh, v

\* Messages that are no ServerInits of t.
Plain(e, t) == \A i \in DOMAIN e : ~IsInit(e[i], t)

LEMMA OrderlyPlainTurn ==
  ASSUME NEW X, NEW w, NEW c, NEW v \in Seq(X), NEW q \in Seq(X),
         NEW t, NEW U, NEW hi, Orderly(w, q, c, t, U, hi), Plain(v, t)
  PROVE  Orderly(w, v \o q, c, t, U, hi)
<1> DEFINE r == v \o q
<1>1. /\ DOMAIN r = 1..(Len(v) + Len(q)) /\ DOMAIN v = 1..Len(v) /\ DOMAIN q = 1..Len(q)
      /\ Len(v) \in Nat /\ Len(q) \in Nat
      /\ \A i \in 1..(Len(v) + Len(q)) : r[i] = IF i <= Len(v) THEN v[i] ELSE q[i - Len(v)]
  OBVIOUS
<1> HIDE DEF r
<1>2. \A i \in DOMAIN r : IsInit(r[i], t) => i - Len(v) \in DOMAIN q /\ r[i] = q[i - Len(v)]
  BY <1>1 DEF Plain
<1>3. Rising(r, t)
  <2> SUFFICES ASSUME NEW i \in DOMAIN r, NEW j \in DOMAIN r, i < j,
                      IsInit(r[i], t), IsInit(r[j], t)
               PROVE  r[i].body.n < r[j].body.n
    BY DEF Rising
  <2>1. i - Len(v) < j - Len(v)
    BY <1>1
  <2> QED
    BY <1>2, <2>1 DEF Orderly, Rising
<1>4. Precedes(w, r, t) /\ Precedes(r, c, t)
  BY <1>2 DEF Orderly, Precedes
<1>5. Fresh(r, t, U, hi)
  BY <1>2 DEF Orderly, Fresh
<1> QED
  BY <1>3, <1>4, <1>5 DEF Orderly, r

\* Nothing left of a turn.
LEMMA OrderlyEndTurn ==
  ASSUME NEW w, NEW q, NEW c, NEW t, NEW U, NEW hi, Orderly(w, q, c, t, U, hi)
  PROVE  Orderly(w, <<>>, c, t, U, hi)
  BY DEF Orderly, Rising, Precedes, Fresh

\* More is sent to t.
LEMMA OrderlySent ==
  ASSUME NEW X, NEW w, NEW q, NEW c \in Seq(X), NEW e \in Seq(X),
         NEW t, NEW U, NEW hi, Orderly(w, q, c, t, U, hi), Plain(e, t)
  PROVE  Orderly(w, q, c \o e, t, U, hi)
<1> DEFINE r == c \o e
<1>1. /\ DOMAIN r = 1..(Len(c) + Len(e)) /\ DOMAIN c = 1..Len(c) /\ DOMAIN e = 1..Len(e)
      /\ Len(c) \in Nat /\ Len(e) \in Nat
      /\ \A i \in 1..(Len(c) + Len(e)) : r[i] = IF i <= Len(c) THEN c[i] ELSE e[i - Len(c)]
  OBVIOUS
<1> HIDE DEF r
<1>2. \A i \in DOMAIN r : IsInit(r[i], t) => i \in DOMAIN c /\ r[i] = c[i]
  <2> SUFFICES ASSUME NEW i \in DOMAIN r, IsInit(r[i], t)
               PROVE  i \in DOMAIN c /\ r[i] = c[i]
    OBVIOUS
  <2>1. CASE i <= Len(c)
    BY <1>1, <2>1
  <2>2. CASE i > Len(c)
    <3>1. i - Len(c) \in DOMAIN e /\ r[i] = e[i - Len(c)]
      BY <1>1, <2>2
    <3> QED
      BY <3>1 DEF Plain
  <2> QED
    BY <1>1, <2>1, <2>2
<1>3. Rising(r, t)
  BY <1>2 DEF Orderly, Rising
<1>4. Precedes(w, r, t) /\ Precedes(q, r, t)
  BY <1>2 DEF Orderly, Precedes
<1>5. Fresh(r, t, U, hi)
  BY <1>2 DEF Orderly, Fresh
<1> QED
  BY <1>3, <1>4, <1>5 DEF Orderly, r

\* The proposer sends t the next ServerInit.
LEMMA OrderlyOpened ==
  ASSUME NEW X, NEW w \in Seq(X), NEW q \in Seq(X), NEW c \in Seq(X), NEW m \in X,
         NEW t, NEW U, NEW hi \in Nat, Orderly(w, q, c, t, U, hi),
         t # Proposer, m.body.n = hi + 1, \A k \in U : k \in 0..hi
  PROVE  Orderly(w, q, Append(c, m), t, U, hi + 1)
<1> DEFINE r == Append(c, m)
<1>1. /\ DOMAIN r = 1..(Len(c) + 1) /\ DOMAIN c = 1..Len(c) /\ Len(c) \in Nat
      /\ \A i \in DOMAIN c : r[i] = c[i]
      /\ r[Len(c) + 1] = m
  OBVIOUS
<1>2. Orderly(w, q, c, t, U, hi + 1)
  BY OrderlyWeaken
<1> HIDE DEF r
<1>3. \A i \in DOMAIN r : \/ i \in DOMAIN c /\ r[i] = c[i]
                          \/ i = Len(c) + 1 /\ r[i] = m
  BY <1>1
<1>4. Rising(r, t)
  <2> SUFFICES ASSUME NEW i \in DOMAIN r, NEW j \in DOMAIN r, i < j,
                      IsInit(r[i], t), IsInit(r[j], t)
               PROVE  r[i].body.n < r[j].body.n
    BY DEF Rising
  <2>1. i \in DOMAIN c /\ r[i] = c[i]
    BY <1>1, <1>3
  <2>2. c[i].body.n \in 1..hi
    BY <2>1 DEF Orderly, Fresh
  <2> QED
    BY <1>3, <2>1, <2>2 DEF Orderly, Rising
<1>5. Precedes(w, r, t) /\ Precedes(q, r, t)
  <2>1. /\ \A i \in DOMAIN w : IsInit(w[i], t) => w[i].body.n \in 1..hi
        /\ \A i \in DOMAIN q : IsInit(q[i], t) => q[i].body.n \in 1..hi
    BY DEF Orderly, Fresh
  <2>2. Precedes(w, r, t)
    BY <1>3, <2>1 DEF Orderly, Precedes
  <2>3. Precedes(q, r, t)
    BY <1>3, <2>1 DEF Orderly, Precedes
  <2> QED
    BY <2>2, <2>3
<1>6. Fresh(r, t, U, hi + 1)
  <2>1. hi + 1 \in 1..(hi + 1) /\ \A k \in U : k < hi + 1
    OBVIOUS
  <2> QED
    BY <1>2, <1>3, <2>1 DEF Orderly, Fresh
<1> QED
  BY <1>2, <1>4, <1>5, <1>6 DEF Orderly, r

\* The first message on the edge is taken, for a turn or to be forwarded.
LEMMA OrderlyTaken ==
  ASSUME NEW X, NEW w \in Seq(X), NEW c \in Seq(X), c # <<>>,
         NEW t, NEW U, NEW hi, Orderly(w, <<>>, c, t, U, hi)
  PROVE  /\ Orderly(w, <<Head(c)>>, Tail(c), t, U, hi)
         /\ Orderly(w, <<>>, Tail(c), t, U, hi)
<1>1. /\ DOMAIN Tail(c) = 1..(Len(c) - 1) /\ DOMAIN c = 1..Len(c) /\ Len(c) \in Nat
      /\ \A i \in DOMAIN Tail(c) : Tail(c)[i] = c[i + 1]
      /\ Head(c) = c[1] /\ 1 \in DOMAIN c
  OBVIOUS
<1> DEFINE h == <<Head(c)>>
<1>2. DOMAIN h = {1} /\ h[1] = c[1]
  BY <1>1
<1> HIDE DEF h
<1>3. \A i \in DOMAIN Tail(c) : i + 1 \in DOMAIN c /\ 1 < i + 1
  BY <1>1
<1>4. Rising(Tail(c), t) /\ Rising(h, t)
  BY <1>1, <1>2, <1>3 DEF Orderly, Rising
<1>5. Precedes(w, h, t) /\ Precedes(w, Tail(c), t)
  BY <1>1, <1>2, <1>3 DEF Orderly, Precedes
<1>6. Precedes(h, Tail(c), t)
  BY <1>1, <1>2, <1>3 DEF Orderly, Precedes, Rising
<1>7. Fresh(h, t, U, hi) /\ Fresh(Tail(c), t, U, hi)
  BY <1>1, <1>2, <1>3 DEF Orderly, Fresh
<1>8. Orderly(w, h, Tail(c), t, U, hi)
  BY <1>4, <1>5, <1>6, <1>7 DEF Orderly
<1> QED
  BY <1>8, OrderlyEndTurn DEF h

\* The edge breaks.
LEMMA OrderlyCut ==
  ASSUME NEW X, NEW w, NEW q, NEW c \in Seq(X), NEW k \in 0..Len(c), NEW m \in X,
         NEW t, NEW U, NEW hi, Orderly(w, q, c, t, U, hi), ~IsInit(m, t)
  PROVE  Orderly(w, q, Append(SubSeq(c, 1, k), m), t, U, hi)
<1> DEFINE r == Append(SubSeq(c, 1, k), m)
<1>1. /\ DOMAIN r = 1..(k + 1) /\ k \in Nat /\ DOMAIN c = 1..Len(c) /\ k <= Len(c)
      /\ \A i \in 1..k : r[i] = c[i]
      /\ r[k + 1] = m
  OBVIOUS
<1> HIDE DEF r
<1>2. \A i \in DOMAIN r : IsInit(r[i], t) => i \in DOMAIN c /\ r[i] = c[i]
  BY <1>1
<1>3. Rising(r, t)
  BY <1>2 DEF Orderly, Rising
<1>4. Precedes(w, r, t) /\ Precedes(q, r, t)
  BY <1>2 DEF Orderly, Precedes
<1>5. Fresh(r, t, U, hi)
  BY <1>2 DEF Orderly, Fresh
<1> QED
  BY <1>3, <1>4, <1>5 DEF Orderly, r

\* The number 0 is no ServerInit's, and the proposer has none to take up.
LEMMA OrderlyMore ==
  ASSUME NEW w, NEW q, NEW c, NEW t, NEW U, NEW V, NEW hi \in Nat,
         Orderly(w, q, c, t, U, hi), t = Proposer \/ V \subseteq U \cup {0}
  PROVE  Orderly(w, q, c, t, V, hi)
<1>1. \A n \in 1..hi : 0 < n
  OBVIOUS
<1> QED
  BY <1>1 DEF Orderly, Fresh

-----------------------------------------------------------------------------
(* Orderly servers *)

Chans == [Server -> [Server -> Seq(Packet)]]
Stores == [Server -> Seq(Packet)]
NotInit == {m \in Body : m.type # "ServerInit"}

LEMMA MemberType ==
  ASSUME NEW X, NEW q \in Seq(X), NEW i \in DOMAIN q
  PROVE  q[i] \in X
  OBVIOUS

\* Sending anything but a ServerInit.
LEMMA SentOrdered ==
  ASSUME NEW W, NEW q, NEW c \in Chans, NEW U, NEW hi, Ordered(W, q, c, U, hi),
         NEW s \in Server, NEW cn \in SUBSET Server,
         NEW D \in SUBSET Server, NEW out \in [D -> NotInit]
  PROVE  /\ Ordered(W, q, Sent(c, s, cn, out), U, hi)
         /\ Sent(c, s, cn, out) \in Chans
<1> DEFINE E(b) == OnEdge(s, cn, b, out)
           f == Sent(c, s, cn, out)
<1>1. \A b \in Server : E(b) \in Seq(Packet) /\ \A i \in DOMAIN E(b) : E(b)[i].body.type # "ServerInit"
  <2> TAKE b \in Server
  <2>1. E(b) \in Seq(PacketOf(NotInit))
    BY OnEdgeType
  <2>2. PacketOf(NotInit) \subseteq Packet
    BY DEF PacketOf, NotInit, Packet
  <2>3. E(b) \in Seq(Packet)
    BY <2>1, <2>2, SeqMono
  <2>4. \A p \in PacketOf(NotInit) : p.body.type # "ServerInit"
    BY DEF PacketOf, NotInit
  <2>5. ASSUME NEW i \in DOMAIN E(b) PROVE E(b)[i].body.type # "ServerInit"
    <3> HIDE DEF E
    <3> QED
      BY <2>1, <2>4, <2>5, MemberType
  <2> QED
    BY <2>3, <2>5
<1>2. \A a, b \in Server : f[a][b] = IF a = s THEN c[a][b] \o E(b) ELSE c[a][b]
  BY DEF Sent, Chans
<1>3. f \in [Server -> [Server -> Seq(Packet)]]
  <2>1. \A b \in Server : c[s][b] \o E(b) \in Seq(Packet)
    <3> HIDE DEF E
    <3> QED
      BY <1>1, ConcatType DEF Chans
  <2> HIDE DEF E
  <2> QED
    BY <2>1 DEF Sent, E, Chans
<1> HIDE DEF E, f
<1>4. ASSUME NEW t \in Server
      PROVE  Orderly(W[t], q, f[Proposer][t], t, U[t], hi)
  <2>1. Orderly(W[t], q, c[Proposer][t], t, U[t], hi)
    BY DEF Ordered
  <2>2. Plain(E(t), t)
    BY <1>1 DEF Plain, IsInit
  <2>3. c[Proposer][t] \in Seq(Packet) /\ E(t) \in Seq(Packet)
    BY <1>1, ServerAssumption DEF Chans
  <2>4. Orderly(W[t], q, c[Proposer][t] \o E(t), t, U[t], hi)
    BY <2>1, <2>2, <2>3, OrderlySent
  <2> QED
    BY <1>2, <2>1, <2>4, ServerAssumption
<1>5. Direct(f)
  <2> SUFFICES ASSUME NEW a \in Server, NEW b \in Server, NEW i \in DOMAIN f[a][b],
                      f[a][b][i].body.type = "ServerInit"
               PROVE  a = Proposer /\ f[a][b][i].dst = b
    BY DEF Direct
  <2>1. CASE a # s
    BY <1>2, <2>1 DEF Ordered, Direct
  <2>2. CASE a = s
    <3> DEFINE p == c[a][b]
               e == E(b)
    <3>1. p \in Seq(Packet) /\ e \in Seq(Packet) /\ f[a][b] = p \o e
      BY <1>1, <1>2, <2>2 DEF Chans
    <3> HIDE DEF p, e
    <3>2. \/ i \in DOMAIN p /\ f[a][b][i] = p[i]
          \/ i - Len(p) \in DOMAIN e /\ f[a][b][i] = e[i - Len(p)]
      BY <3>1
    <3> QED
      BY <1>1, <3>2 DEF Ordered, Direct, p, e
  <2> QED
    BY <2>1, <2>2
<1> QED
  BY <1>3, <1>4, <1>5 DEF Ordered, f, Chans

\* The members of an empty set and of a set of one, in order.
LEMMA InOrderNone == DOMAIN InOrder({}) = {}
<1>1. Cardinality({}) = 0 /\ IsFiniteSet({})
  BY FS_EmptySet
<1>2. InOrder({}) \in [1..0 -> {}]
  BY <1>1, InOrderType
<1> QED
  BY <1>2

LEMMA InOrderOne ==
  ASSUME NEW b
  PROVE  DOMAIN InOrder({b}) = {1} /\ InOrder({b})[1] = b
<1>1. Cardinality({b}) = 1 /\ IsFiniteSet({b})
  BY FS_Singleton
<1>2. InOrder({b}) \in [1..1 -> {b}]
  BY <1>1, InOrderType
<1> QED
  BY <1>2

LEMMA ShortType ==
  ASSUME NEW X, NEW m \in X
  PROVE  <<>> \in Seq(X) /\ <<m>> \in Seq(X)
  OBVIOUS

LEMMA EndConcat ==
  ASSUME NEW X, NEW q \in Seq(X), NEW m \in X
  PROVE  q \o <<>> = q /\ q \o <<m>> = Append(q, m) /\ Append(q, m) \in Seq(X)
  OBVIOUS

\* The proposer, connected to all, sends the next ServerInit.
LEMMA OpenedOrdered ==
  ASSUME NEW W \in Stores, NEW q \in Seq(Packet), NEW c \in Chans, NEW U, NEW hi \in Nat,
         Ordered(W, q, c, U, hi), \A t \in Server : \A k \in U[t] : k \in 0..hi
  PROVE  /\ Ordered(W, q, Sent(c, Proposer, Server, ToOthers(ServerInit(hi + 1))), U, hi + 1)
         /\ Sent(c, Proposer, Server, ToOthers(ServerInit(hi + 1))) \in Chans
<1> DEFINE body == ServerInit(hi + 1)
           out == ToOthers(body)
           E(b) == OnEdge(Proposer, Server, b, out)
           m(b) == [src |-> Proposer, dst |-> b, body |-> body]
           f == Sent(c, Proposer, Server, out)
<1>1. DOMAIN out = Server \ {Proposer} /\ \A b \in DOMAIN out : out[b] = body
  BY DEF ToOthers
<1>2. body \in Body /\ body.n = hi + 1
  BY DEF ServerInit, Body
<1> HIDE DEF body, out
<1>3. \A b \in Server : m(b) \in Packet /\ m(b).body.n = hi + 1 /\ m(b).dst = b
  BY <1>2, ServerAssumption DEF Packet
<1>4. ASSUME NEW b \in Server
      PROVE  E(b) = <<>> \/ (b # Proposer /\ E(b) = <<m(b)>>)
  <2> DEFINE S == {d \in DOMAIN out : Via(Proposer, Server, d, b)}
  <2>1. CASE ~Up(Proposer, b)
    BY <2>1 DEF OnEdge
  <2>2. CASE Up(Proposer, b) /\ b = Proposer
    <3>1. S = {}
      BY <1>1, <2>2 DEF Via
    <3>2. E(b) = [i \in DOMAIN InOrder(S) |->
                    [src |-> Proposer, dst |-> InOrder(S)[i], body |-> out[InOrder(S)[i]]]]
      BY <2>2 DEF OnEdge
    <3> HIDE DEF S
    <3>3. DOMAIN InOrder(S) = {}
      BY <3>1, InOrderNone
    <3>4. DOMAIN E(b) = {} /\ E(b) \in [{} -> {}]
      BY <3>2, <3>3
    <3>5. E(b) \in [1..0 -> {}]
      BY <3>4
    <3> HIDE DEF E
    <3>6. E(b) = <<>>
      BY <3>5
    <3> QED
      BY <3>6
  <2>3. CASE Up(Proposer, b) /\ b # Proposer
    <3>1. S = {b}
      BY <1>1, <2>3 DEF Via
    <3>2. E(b) = [i \in DOMAIN InOrder(S) |->
                    [src |-> Proposer, dst |-> InOrder(S)[i], body |-> out[InOrder(S)[i]]]]
      BY <2>3 DEF OnEdge
    <3>3. DOMAIN InOrder(S) = {1} /\ InOrder(S)[1] = b
      BY <3>1, InOrderOne
    <3>4. out[b] = body
      BY <1>1, <2>3
    <3> HIDE DEF S
    <3>5. E(b) = [i \in {1} |-> m(b)]
      BY <3>2, <3>3, <3>4
    <3> QED
      BY <2>3, <3>5
  <2> QED
    BY <2>1, <2>2, <2>3
<1>5. \A a, b \in Server : f[a][b] = IF a = Proposer THEN c[a][b] \o E(b) ELSE c[a][b]
  BY DEF Sent, Chans
<1>6. ASSUME NEW b \in Server
      PROVE  \/ f[Proposer][b] = c[Proposer][b]
             \/ b # Proposer /\ f[Proposer][b] = Append(c[Proposer][b], m(b))
  <2>1. c[Proposer][b] \in Seq(Packet) /\ f[Proposer][b] = c[Proposer][b] \o E(b)
    BY <1>5, ServerAssumption DEF Chans
  <2>2. E(b) = <<>> \/ (b # Proposer /\ E(b) = <<m(b)>>)
    BY <1>4
  <2>3. m(b) \in Packet
    BY <1>3
  <2> HIDE DEF E, f, m
  <2> QED
    BY <2>1, <2>2, <2>3, EndConcat
<1>7. f \in Chans
  <2>1. \A b \in Server : c[Proposer][b] \o E(b) \in Seq(Packet)
    <3> TAKE b \in Server
    <3>1. c[Proposer][b] \in Seq(Packet) /\ m(b) \in Packet
      BY <1>3, ServerAssumption DEF Chans
    <3>2. E(b) = <<>> \/ E(b) = <<m(b)>>
      BY <1>4
    <3> HIDE DEF E, m
    <3>3. E(b) \in Seq(Packet)
      BY <3>1, <3>2, ShortType
    <3> QED
      BY <3>1, <3>3, ConcatType
  <2> HIDE DEF E
  <2> QED
    BY <2>1 DEF Sent, E, Chans
<1> HIDE DEF f, E, m
<1>8. ASSUME NEW t \in Server
      PROVE  Orderly(W[t], q, f[Proposer][t], t, U[t], hi + 1)
  <2>1. Orderly(W[t], q, c[Proposer][t], t, U[t], hi) /\ hi + 1 \in Nat /\ hi <= hi + 1
    BY DEF Ordered
  <2>2. CASE f[Proposer][t] = c[Proposer][t]
    BY <2>1, <2>2, OrderlyWeaken
  <2>3. CASE t # Proposer /\ f[Proposer][t] = Append(c[Proposer][t], m(t))
    <3>1. W[t] \in Seq(Packet) /\ c[Proposer][t] \in Seq(Packet) /\ m(t) \in Packet
      BY <1>3, ServerAssumption DEF Stores, Chans
    <3>2. m(t).body.n = hi + 1
      BY <1>3
    <3> QED
      BY <2>1, <2>3, <3>1, <3>2, OrderlyOpened
  <2> QED
    BY <1>6, <2>2, <2>3
<1>9. Direct(f)
  <2> SUFFICES ASSUME NEW a \in Server, NEW b \in Server, NEW i \in DOMAIN f[a][b],
                      f[a][b][i].body.type = "ServerInit"
               PROVE  a = Proposer /\ f[a][b][i].dst = b
    BY DEF Direct
  <2>1. CASE f[a][b] = c[a][b]
    BY <2>1 DEF Ordered, Direct
  <2>2. CASE a = Proposer /\ f[a][b] = Append(c[a][b], m(b))
    <3> DEFINE p == c[a][b]
    <3>1. p \in Seq(Packet) /\ m(b) \in Packet
      BY <1>3 DEF Chans
    <3> HIDE DEF p
    <3>2. \/ i \in DOMAIN p /\ f[a][b][i] = p[i]
          \/ f[a][b][i] = m(b)
      BY <2>2, <3>1 DEF p
    <3> QED
      BY <1>3, <2>2, <3>2 DEF Ordered, Direct, p
  <2> QED
    BY <1>5, <1>6, <2>1, <2>2
<1> QED
  BY <1>7, <1>8, <1>9 DEF Ordered, f, out, body

\* The first message of the turn is done with.
LEMMA TailOrdered ==
  ASSUME NEW W \in Stores, NEW q \in Seq(Packet), NEW c \in Chans, NEW U, NEW hi,
         Ordered(W, q, c, U, hi), q # <<>>
  PROVE  Ordered(W, Tail(q), c, U, hi) /\ Tail(q) \in Seq(Packet)
<1>1. ASSUME NEW t \in Server PROVE Orderly(W[t], Tail(q), c[Proposer][t], t, U[t], hi)
  <2>1. W[t] \in Seq(Packet) /\ c[Proposer][t] \in Seq(Packet)
    BY ServerAssumption DEF Stores, Chans
  <2>2. Orderly(W[t], q, c[Proposer][t], t, U[t], hi)
    BY DEF Ordered
  <2> QED
    BY <2>1, <2>2, OrderlyTail
<1> QED
  BY <1>1, HeadTail DEF Ordered

\* Server s replays what it has stored.
LEMMA ReplayOrdered ==
  ASSUME NEW W \in Stores, NEW q \in Seq(Packet), NEW c \in Chans, NEW U, NEW hi,
         Ordered(W, q, c, U, hi), NEW s \in Server
  PROVE  Ordered([W EXCEPT ![s] = <<>>], W[s] \o q, c, U, hi)
<1> DEFINE V == [W EXCEPT ![s] = <<>>]
<1>1. ASSUME NEW t \in Server PROVE Orderly(V[t], W[s] \o q, c[Proposer][t], t, U[t], hi)
  <2>1. W[s] \in Seq(Packet) /\ c[Proposer][t] \in Seq(Packet)
    BY ServerAssumption DEF Stores, Chans
  <2>2. Orderly(W[t], q, c[Proposer][t], t, U[t], hi)
    BY DEF Ordered
  <2>3. CASE t = s
    <3>1. V[t] = <<>>
      BY <2>3 DEF Stores
    <3>2. Orderly(<<>>, W[s] \o q, c[Proposer][t], t, U[t], hi)
      BY <2>1, <2>2, <2>3, OrderlyReplay
    <3> QED
      BY <3>1, <3>2
  <2>4. CASE t # s
    <3>1. V[t] = W[t]
      BY <2>4 DEF Stores
    <3>2. Plain(W[s], t)
      BY <2>4 DEF Ordered, Own, Plain, IsInit
    <3>3. Orderly(W[t], W[s] \o q, c[Proposer][t], t, U[t], hi)
      BY <2>1, <2>2, <3>2, OrderlyPlainTurn
    <3> QED
      BY <3>1, <3>3
  <2> QED
    BY <2>3, <2>4
<1>2. Own(V)
  BY DEF Ordered, Own, Stores
<1> QED
  BY <1>1, <1>2 DEF Ordered

\* Only the numbers taken up change.
LEMMA UsedOrdered ==
  ASSUME NEW W, NEW q, NEW c, NEW U, NEW V, NEW hi \in Nat, Ordered(W, q, c, U, hi),
         \A t \in Server : t = Proposer \/ V[t] \subseteq U[t] \cup {0}
  PROVE  Ordered(W, q, c, V, hi)
<1>1. ASSUME NEW t \in Server PROVE Orderly(W[t], q, c[Proposer][t], t, V[t], hi)
  <2>1. Orderly(W[t], q, c[Proposer][t], t, U[t], hi)
    BY DEF Ordered
  <2> QED
    BY <2>1, OrderlyMore
<1> QED
  BY <1>1 DEF Ordered

-----------------------------------------------------------------------------
(* The machine and the order *)

\* The numbers taken up once server s has gone on with data d.
UsedWith(s, d) == [Used EXCEPT ![s] = {d.init, d.rid.n} \cup Past(s)]

LEMMA InvTypes ==
  ASSUME Inv
  PROVE  /\ storage \in Stores /\ chan \in Chans /\ todo \in Seq(Packet)
         /\ initCount \in Nat /\ conn \in [Server -> SUBSET Server]
         /\ st \in [Server -> States] /\ data \in [Server -> Data]
         /\ reached \subseteq Server \X States \X RoundId \X [Client -> Nat]
  BY InvType DEF TypeOK, Stores, Chans

LEMMA GotoUsed ==
  ASSUME Inv, NEW s \in Server, NEW T, NEW d \in Data, NEW rest, Goto(s, T, d, rest)
  PROVE  /\ \A t \in Server : Past(t)' = IF t = s THEN Past(t) \cup {d.rid.n} ELSE Past(t)
         /\ Used' = UsedWith(s, d)
<1>1. ASSUME NEW t \in Server
      PROVE  Past(t)' = IF t = s THEN Past(t) \cup {d.rid.n} ELSE Past(t)
  <2> DEFINE x == <<s, T, d.rid, d.regs>>
  <2>1. reached' = reached \cup {x}
    BY DEF Goto
  <2>2. x[1] = s /\ x[3] = d.rid
    OBVIOUS
  <2> HIDE DEF x
  <2>3. {y \in reached' : y[1] = t} = {y \in reached : y[1] = t} \cup (IF t = s THEN {x} ELSE {})
    BY <2>1, <2>2
  <2> QED
    BY <2>2, <2>3 DEF Past
<1>2. ASSUME NEW t \in Server
      PROVE  {data'[t].init} \cup Past(t)' = UsedWith(s, d)[t]
  <2>1. data'[t] = IF t = s THEN d ELSE data[t]
    BY InvTypes DEF Goto
  <2>2. UsedWith(s, d)[t] = IF t = s THEN {d.init, d.rid.n} \cup Past(s)
                                     ELSE {data[t].init} \cup Past(t)
    BY DEF UsedWith, Used
  <2> QED
    BY <1>1, <2>1, <2>2
<1>3. Used' = [t \in Server |-> {data'[t].init} \cup Past(t)']
  BY DEF Used
<1>4. UsedWith(s, d) = [t \in Server |-> UsedWith(s, d)[t]]
  BY DEF UsedWith, Used
<1> QED
  BY <1>1, <1>2, <1>3, <1>4

\* What a server that goes to state T with data d takes up.
Sound(s, T, d, hi) ==
  /\ d.init \in 0..hi /\ d.rid.n \in 0..hi
  /\ T \notin Queued \cup {"Agree"} => d.rid = NoRound
  /\ T = "Enlist" => \A k \in Past(s) \cup {0} : k < d.init
  /\ T \in Forming \cup Queued => 0 < d.init
  /\ T \in Queued \cup {"Agree"} => d.rid.n = d.init

LEMMA GotoOrder ==
  ASSUME Inv, OrderInv, NEW s \in Server, NEW T \in States, NEW d \in Data,
         NEW rest \in Seq(Packet), Goto(s, T, d, rest), chan' \in Chans,
         initCount' \in Nat, initCount <= initCount', Sound(s, T, d, initCount'),
         Ordered(storage, rest, chan', UsedWith(s, d), initCount')
  PROVE  OrderInv'
<1>1. /\ storage' = [storage EXCEPT ![s] = <<>>] /\ todo' = storage[s] \o rest
      /\ st' = [st EXCEPT ![s] = T] /\ data' = [data EXCEPT ![s] = d]
  BY DEF Goto
<1>2. Used' = UsedWith(s, d)
  BY GotoUsed
<1>3. Ordered(storage', todo', chan', Used', initCount')
  BY <1>1, <1>2, InvTypes, ReplayOrdered
<1>4. ASSUME NEW t \in Server PROVE Numbered(t)'
  <2>1. Numbered(t)
    BY DEF OrderInv
  <2>2. initCount \in Nat /\ \A k \in 0..initCount : k \in 0..initCount'
    BY InvTypes
  <2>3. CASE t # s
    <3>1. st'[t] = st[t] /\ data'[t] = data[t] /\ storage'[t] = storage[t]
      BY <1>1, <2>3, InvTypes DEF Stores
    <3>2. Past(t)' = Past(t)
      BY <2>3, GotoUsed
    <3>3. Used'[t] = Used[t]
      BY <1>2, <2>3 DEF UsedWith, Used
    <3> QED
      BY <2>1, <2>2, <3>1, <3>2, <3>3 DEF Numbered
  <2>4. CASE t = s
    <3>1. st'[t] = T /\ data'[t] = d /\ storage'[t] = <<>>
      BY <1>1, <2>4, InvTypes DEF Stores
    <3>2. Past(t)' = Past(t) \cup {d.rid.n}
      BY <2>4, GotoUsed
    <3>3. Used'[t] = {d.init, d.rid.n} \cup Past(s) /\ Past(s) \subseteq Used[s]
      BY <1>2, <2>4 DEF UsedWith, Used
    <3>4. \A k \in Used'[t] : k \in 0..initCount'
      BY <2>1, <2>2, <2>4, <3>3 DEF Numbered, Sound
    <3>5. T = "Enlist" => \A k \in Past(t)' : k < d.init
      BY <2>4, <3>2 DEF Sound, NoRound, NonceId, Queued
    <3> QED
      BY <3>1, <3>4, <3>5 DEF Numbered, Sound
  <2> QED
    BY <2>3, <2>4
<1> QED
  BY <1>3, <1>4 DEF OrderInv

\* A server stays where it is.
LEMMA StayOrder ==
  ASSUME Inv, OrderInv, NEW s \in Server, NEW d, todo # <<>>, Stay(s, d),
         d.init = data[s].init, d.rid = data[s].rid
  PROVE  OrderInv'
<1>1. /\ UNCHANGED <<st, storage, reached, chan, initCount>> /\ todo' = Tail(todo)
      /\ data' = [data EXCEPT ![s] = d]
  BY DEF Stay
<1>2. \A t \in Server : data'[t].init = data[t].init /\ data'[t].rid = data[t].rid
  BY <1>1, InvTypes
<1>3. \A t \in Server : Past(t)' = Past(t)
  BY <1>1 DEF Past
<1>4. Used' = Used
  BY <1>2, <1>3 DEF Used
<1>5. Ordered(storage, Tail(todo), chan, Used, initCount)
  BY InvTypes, TailOrdered DEF OrderInv
<1>6. \A t \in Server : Numbered(t)'
  BY <1>1, <1>2, <1>3, <1>4 DEF Numbered, OrderInv
<1> QED
  BY <1>1, <1>4, <1>5, <1>6 DEF OrderInv

\* A server goes on in the round of the ServerInit it has.
LEMMA KeepOrder ==
  ASSUME Inv, OrderInv, NEW s \in Server, NEW T \in Queued \cup {"Agree"}, NEW d \in Data,
         NEW rest \in Seq(Packet), Goto(s, T, d, rest), chan' \in Chans,
         initCount' = initCount, d.init = data[s].init, d.rid.n = d.init,
         st[s] \in Forming \cup Queued,
         Ordered(storage, rest, chan', Used, initCount)
  PROVE  OrderInv'
<1>1. data[s].init \in Used[s] /\ Past(s) \subseteq Used[s]
  BY DEF Used
<1>2. data[s].init \in 0..initCount
  BY <1>1 DEF OrderInv, Numbered
<1>3. Sound(s, T, d, initCount)
  BY <1>2 DEF Sound, Queued, OrderInv, Numbered
<1>4. \A t \in Server : UsedWith(s, d)[t] \subseteq Used[t] \cup {0}
  BY <1>1 DEF UsedWith, Used
<1>5. Ordered(storage, rest, chan', UsedWith(s, d), initCount)
  BY <1>4, InvTypes, UsedOrdered
<1>6. T \in States
  BY DEF States, Queued
<1> QED
  BY <1>3, <1>5, <1>6, InvTypes, GotoOrder

LEMMA RestartOrder ==
  ASSUME Inv, OrderInv, NEW s \in Server, NEW cn \in SUBSET Server, NEW c \in Chans,
         NEW rest \in Seq(Packet), Restart(s, cn, c, rest),
         Ordered(storage, rest, c, Used, initCount)
  PROVE  OrderInv'
<1> DEFINE d == Reset(data[s])
           n == initCount + 1
           f == Enlisting(d, n)
           opened == Sent(c, s, cn, ToOthers(ServerInit(n)))
           m == ServerEnlist(s, n, f.eph)
<1>1. initCount \in Nat /\ n \in Nat /\ d \in Data
  BY InvTypes, ResetType
<1>2. d.init = 0 /\ d.rid = NoRound /\ NoRound.n = 0
  BY DEF Reset, NoRound, NonceId
<1>3. f \in Data /\ f.eph \in Nat
  <2> HIDE DEF d, n
  <2> QED
    BY <1>1, EnlistingType
<1>4. f.init = n /\ f.rid = NoRound
  BY DEF Enlisting, Reset
<1>5. \A t \in Server : \A k \in Used[t] : k \in 0..initCount
  BY DEF OrderInv, Numbered
<1>6. Past(s) \subseteq Used[s]
  BY DEF Used
<1>7. CASE cn = Server /\ s = Proposer
  <2>1. /\ Goto(s, "Enlist", f, rest)
        /\ initCount' = n
        /\ chan' = Sent(opened, s, cn, ToProposer(m))
    BY <1>7 DEF Restart, NewNonce
  <2>2. Ordered(storage, rest, opened, Used, n) /\ opened \in Chans
    BY <1>1, <1>5, <1>7, InvTypes, OpenedOrdered
  <2>3. m \in NotInit
    <3> HIDE DEF f, n
    <3> QED
      BY <1>1, <1>3 DEF ServerEnlist, NotInit, Body
  <2>4. ToProposer(m) \in [{Proposer} -> NotInit] /\ {Proposer} \in SUBSET Server
    <3> HIDE DEF m
    <3> QED
      BY <2>3, ServerAssumption DEF ToProposer
  <2> HIDE DEF opened, f, n, m
  <2>5. Ordered(storage, rest, chan', Used, n) /\ chan' \in Chans
    BY <2>1, <2>2, <2>4, SentOrdered
  <2>6. \A t \in Server : t = Proposer \/ UsedWith(s, f)[t] \subseteq Used[t] \cup {0}
    BY <1>7 DEF UsedWith, Used
  <2>7. Ordered(storage, rest, chan', UsedWith(s, f), n)
    BY <1>1, <2>5, <2>6, UsedOrdered
  <2>8. Sound(s, "Enlist", f, n)
    <3>1. \A k \in Past(s) \cup {0} : k < n
      BY <1>1, <1>5, <1>6 DEF n
    <3>2. n \in 0..n /\ 0 \in 0..n
      BY <1>1
    <3> QED
      BY <1>2, <1>4, <3>1, <3>2 DEF Sound, Queued, Forming
  <2>9. initCount <= initCount'
    BY <1>1, <2>1 DEF n
  <2> QED
    BY <1>1, <1>3, <2>1, <2>5, <2>7, <2>8, <2>9, GotoOrder DEF States
<1>8. CASE ~(cn = Server /\ s = Proposer)
  <2> DEFINE T == IF cn = Server THEN "Init" ELSE "WaitingForServers"
  <2>1. Goto(s, T, d, rest) /\ chan' = c /\ initCount' = initCount
    BY <1>8 DEF Restart
  <2>2. T \in States /\ T \notin Queued \cup Forming /\ T \notin {"Agree", "Enlist"}
    BY DEF States, Queued, Forming
  <2> HIDE DEF T, d
  <2>3. \A t \in Server : UsedWith(s, d)[t] \subseteq Used[t] \cup {0}
    BY <1>2 DEF UsedWith, Used
  <2>4. Ordered(storage, rest, chan', UsedWith(s, d), initCount)
    BY <1>1, <2>1, <2>3, UsedOrdered
  <2>5. Sound(s, T, d, initCount)
    BY <1>1, <1>2, <2>2 DEF Sound
  <2> QED
    BY <1>1, <2>1, <2>2, <2>4, <2>5, GotoOrder
<1> QED
  BY <1>7, <1>8

-----------------------------------------------------------------------------
(* The message handlers and the order *)

\* What every handler starts from.
LEMMA TurnOrdered ==
  ASSUME Inv, OrderInv, todo # <<>>
  PROVE  /\ Ordered(storage, Tail(todo), chan, Used, initCount)
         /\ Tail(todo) \in Seq(Packet)
         /\ Head(todo) \in Packet /\ Msg \in Body
<1>1. Head(todo) \in Packet
  BY InvTypes, HeadTail
<1> QED
  BY <1>1, InvTypes, TailOrdered DEF OrderInv, Packet, Msg

\* A server sends anything but a ServerInit.
LEMMA SendsOrdered ==
  ASSUME NEW W, NEW q, NEW c \in Chans, NEW U, NEW hi, Ordered(W, q, c, U, hi),
         NEW s \in Server, NEW cn \in SUBSET Server, NEW m \in NotInit
  PROVE  /\ Ordered(W, q, Sent(c, s, cn, ToOthers(m)), U, hi)
         /\ Sent(c, s, cn, ToOthers(m)) \in Chans
         /\ Ordered(W, q, Sent(c, s, cn, ToProposer(m)), U, hi)
         /\ Sent(c, s, cn, ToProposer(m)) \in Chans
         /\ Ordered(W, q, Sent(c, s, cn, ToServers(m)), U, hi)
         /\ Sent(c, s, cn, ToServers(m)) \in Chans
         /\ \A out \in [cn -> {m}] : /\ Ordered(W, q, Sent(c, s, cn, out), U, hi)
                                     /\ Sent(c, s, cn, out) \in Chans
<1>1. {Proposer} \in SUBSET Server /\ Server \ {Proposer} \in SUBSET Server
      /\ Server \in SUBSET Server
  BY ServerAssumption
<1>2. /\ ToOthers(m) \in [Server \ {Proposer} -> NotInit]
      /\ ToProposer(m) \in [{Proposer} -> NotInit]
      /\ ToServers(m) \in [Server -> NotInit]
      /\ \A out \in [cn -> {m}] : out \in [cn -> NotInit]
  BY DEF ToOthers, ToProposer, ToServers
<1>3. /\ Ordered(W, q, Sent(c, s, cn, ToOthers(m)), U, hi)
      /\ Sent(c, s, cn, ToOthers(m)) \in Chans
  BY <1>1, <1>2, SentOrdered
<1>4. /\ Ordered(W, q, Sent(c, s, cn, ToProposer(m)), U, hi)
      /\ Sent(c, s, cn, ToProposer(m)) \in Chans
  BY <1>1, <1>2, SentOrdered
<1>5. /\ Ordered(W, q, Sent(c, s, cn, ToServers(m)), U, hi)
      /\ Sent(c, s, cn, ToServers(m)) \in Chans
  BY <1>1, <1>2, SentOrdered
<1>6. \A out \in [cn -> {m}] : /\ Ordered(W, q, Sent(c, s, cn, out), U, hi)
                               /\ Sent(c, s, cn, out) \in Chans
  BY <1>2, SentOrdered
<1> QED
  BY <1>3, <1>4, <1>5, <1>6

LEMMA StoreMessageOrder ==
  ASSUME Inv, OrderInv, NEW s \in Server, StoreMessage(s)
  PROVE  OrderInv'
<1> DEFINE v == Append(storage[s], Head(todo))
<1>1. /\ todo # <<>> /\ Head(todo).dst = s /\ Msg.type \in StoredIn(st[s])
      /\ storage' = [storage EXCEPT ![s] = v] /\ todo' = Tail(todo)
      /\ UNCHANGED <<st, data, reached, chan, initCount>>
  BY DEF StoreMessage, Stored
<1>2. Ordered(storage, todo, chan, Used, initCount)
  BY DEF OrderInv
<1>3. Used' = Used /\ \A t \in Server : Past(t)' = Past(t)
  BY <1>1 DEF Used, Past
<1>4. storage[s] \in Seq(Packet) /\ Head(todo) \in Packet /\ v \in Seq(Packet)
  BY <1>1, InvTypes, HeadTail DEF Stores
<1>5. ASSUME NEW t \in Server
      PROVE  Orderly(storage'[t], Tail(todo), chan[Proposer][t], t, Used[t], initCount)
  <2>1. storage[t] \in Seq(Packet) /\ chan[Proposer][t] \in Seq(Packet) /\ todo \in Seq(Packet)
    BY InvTypes, ServerAssumption DEF Stores, Chans
  <2>2. Orderly(storage[t], todo, chan[Proposer][t], t, Used[t], initCount)
    BY <1>2 DEF Ordered
  <2>3. CASE t = s
    <3>1. storage'[t] = v
      BY <1>1, <2>3, InvTypes DEF Stores
    <3>2. Orderly(Append(storage[t], Head(todo)), Tail(todo), chan[Proposer][t], t, Used[t], initCount)
      BY <1>1, <2>1, <2>2, OrderlyStore
    <3> QED
      BY <2>3, <3>1, <3>2
  <2>4. CASE t # s
    <3>1. storage'[t] = storage[t]
      BY <1>1, <2>4, InvTypes DEF Stores
    <3> QED
      BY <1>1, <2>1, <2>2, <3>1, OrderlyTail
  <2> QED
    BY <2>3, <2>4
<1>6. \A i \in DOMAIN v : (i \in DOMAIN storage[s] /\ v[i] = storage[s][i]) \/ v[i] = Head(todo)
  BY <1>4
<1>7. Own(storage')
  <2>1. ASSUME NEW t \in Server, NEW i \in DOMAIN storage'[t] PROVE storage'[t][i].dst = t
    <3>1. storage'[t] = IF t = s THEN v ELSE storage[t]
      BY <1>1, InvTypes DEF Stores
    <3> HIDE DEF v
    <3> QED
      BY <1>1, <1>2, <1>6, <2>1, <3>1 DEF Ordered, Own
  <2> QED
    BY <2>1 DEF Own
<1>8. ASSUME NEW t \in Server PROVE Numbered(t)'
  <2>1. Numbered(t)
    BY DEF OrderInv
  <2>2. st[t] = "Init" => \A i \in DOMAIN storage'[t] : ~IsInit(storage'[t][i], t)
    <3> SUFFICES ASSUME st[t] = "Init", NEW i \in DOMAIN storage'[t]
                 PROVE  ~IsInit(storage'[t][i], t)
      OBVIOUS
    <3>1. storage'[t] = IF t = s THEN v ELSE storage[t]
      BY <1>1, InvTypes DEF Stores
    <3>2. t = s => Head(todo).body.type = "ServerStop"
      BY <1>1 DEF StoredIn, Msg
    <3> HIDE DEF v
    <3> QED
      BY <1>6, <2>1, <3>1, <3>2 DEF Numbered, IsInit
  <2> QED
    BY <1>1, <1>3, <2>1, <2>2 DEF Numbered
<1>9. Ordered(storage', Tail(todo), chan, Used, initCount)
  BY <1>2, <1>5, <1>7 DEF Ordered
<1> QED
  BY <1>1, <1>3, <1>8, <1>9 DEF OrderInv

LEMMA ProcessInitOrder ==
  ASSUME Inv, OrderInv, NEW s \in Server, ProcessInit(s)
  PROVE  OrderInv'
<1> DEFINE d == Enlisting(data[s], Msg.n)
           m == ServerEnlist(s, d.init, d.eph)
           U == [Used EXCEPT ![s] = @ \cup {Msg.n}]
<1>1. /\ todo # <<>> /\ Head(todo).dst = s /\ Msg.type = "ServerInit" /\ st[s] = "Init"
      /\ Goto(s, "Enlist", d, Tail(todo)) /\ UNCHANGED initCount
      /\ chan' = Sent(chan, s, conn[s], ToProposer(m))
  BY DEF ProcessInit, Processing
<1>2. IsInit(Head(todo), s) /\ Head(todo).body = Msg
  BY <1>1 DEF IsInit, Msg
<1>3. Ordered(storage, todo, chan, Used, initCount) /\ Numbered(s)
  BY DEF OrderInv
<1>4. Msg.n \in 1..initCount /\ \A k \in Used[s] : k < Msg.n
  <2>1. 1 \in DOMAIN todo /\ todo[1] = Head(todo)
    BY <1>1, InvTypes
  <2>2. Fresh(todo, s, Used[s], initCount)
    BY <1>3 DEF Ordered, Orderly
  <2> QED
    BY <1>2, <2>1, <2>2 DEF Fresh
<1>5. /\ data[s] \in Data /\ data[s].rid = NoRound /\ NoRound.n = 0
      /\ Msg.n \in Nat /\ 0 < Msg.n /\ initCount \in Nat
  BY <1>1, <1>3, <1>4, InvTypes DEF Numbered, Queued, NoRound, NonceId
<1>6. d \in Data /\ d.eph \in Nat /\ d.init = Msg.n /\ d.rid = NoRound
  <2>1. d.init = Msg.n /\ d.rid = NoRound
    BY <1>5 DEF Enlisting, Data
  <2> QED
    BY <1>5, <2>1, EnlistingType
<1>7. Past(s) \subseteq Used[s] /\ Used \in [Server -> SUBSET Nat]
  <2>1. \A t \in Server : \A k \in Used[t] : k \in Nat
    BY <1>5 DEF OrderInv, Numbered
  <2> QED
    BY <2>1 DEF Used
<1>8. m \in NotInit
  <2> HIDE DEF d
  <2> QED
    BY <1>5, <1>6 DEF ServerEnlist, NotInit, Body
<1> HIDE DEF d, m
<1>9. Sound(s, "Enlist", d, initCount)
  <2>1. \A k \in Past(s) \cup {0} : k < Msg.n
    BY <1>4, <1>5, <1>7
  <2>2. Msg.n \in 0..initCount /\ 0 \in 0..initCount
    BY <1>4, <1>5
  <2> QED
    BY <1>5, <1>6, <2>1, <2>2 DEF Sound, Queued
<1>10. ASSUME NEW t \in Server
       PROVE  Orderly(storage[t], Tail(todo), chan[Proposer][t], t, U[t], initCount)
  <2>1. storage[t] \in Seq(Packet) /\ chan[Proposer][t] \in Seq(Packet) /\ todo \in Seq(Packet)
    BY InvTypes, ServerAssumption DEF Stores, Chans
  <2>2. Orderly(storage[t], todo, chan[Proposer][t], t, Used[t], initCount)
    BY <1>3 DEF Ordered
  <2>3. CASE t = s
    <3>1. U[t] = Used[t] \cup {Head(todo).body.n}
      BY <1>2, <1>7, <2>3
    <3>2. \A i \in DOMAIN storage[t] : ~IsInit(storage[t][i], t)
      BY <1>1, <1>3, <2>3 DEF Numbered
    <3> HIDE DEF U
    <3> QED
      BY <1>1, <1>2, <2>1, <2>2, <2>3, <3>1, <3>2, OrderlyAdopt
  <2>4. CASE t # s
    <3>1. U[t] = Used[t]
      BY <1>7, <2>4
    <3> HIDE DEF U
    <3> QED
      BY <1>1, <2>1, <2>2, <3>1, OrderlyTail
  <2> QED
    BY <2>3, <2>4
<1>11. Ordered(storage, Tail(todo), chan, U, initCount)
  BY <1>3, <1>10 DEF Ordered
<1>12. \A t \in Server : UsedWith(s, d)[t] \subseteq U[t] \cup {0}
  BY <1>5, <1>6, <1>7 DEF UsedWith, Used
<1> HIDE DEF U
<1>13. Ordered(storage, Tail(todo), chan, UsedWith(s, d), initCount)
  BY <1>5, <1>11, <1>12, UsedOrdered
<1>14. Ordered(storage, Tail(todo), chan', UsedWith(s, d), initCount) /\ chan' \in Chans
  BY <1>1, <1>8, <1>13, InvTypes, SendsOrdered
<1>15. /\ Tail(todo) \in Seq(Packet) /\ "Enlist" \in States
       /\ initCount' = initCount /\ initCount' \in Nat /\ initCount <= initCount'
  BY <1>1, <1>5, TurnOrdered DEF States
<1> QED
  BY <1>1, <1>6, <1>9, <1>14, <1>15, GotoOrder

LEMMA EnterAgreeOrder ==
  ASSUME Inv, OrderInv, NEW s \in Server, NEW keys \in [Server -> Nat], todo # <<>>,
         st[s] = "Enlist", EnterAgree(s, keys)
  PROVE  OrderInv'
<1> DEFINE d == Agreeing(data[s], keys)
           agree == ServerAgree(s, d.rid, d.eph)
           m == ServerEnlisted(s, d.init, keys)
           enlisted == Sent(chan, s, conn[s], ToOthers(m))
<1>1. data[s] \in Data /\ conn[s] \in SUBSET Server
  BY InvTypes
<1>2. HashEnlists(data[s].init, keys) \in RoundId
  BY <1>1, DataFields DEF HashEnlists, RoundId
<1>3. d \in Data
  BY <1>1, <1>2, DataUpdates, Constants DEF Agreeing
<1>4. d.init = data[s].init /\ d.rid.n = d.init
  BY <1>1 DEF Agreeing, HashEnlists, Data
<1>5. /\ Goto(s, "Agree", d, Tail(todo)) /\ UNCHANGED initCount
      /\ chan' = Sent(enlisted, s, conn[s], ToServers(agree))
  BY DEF EnterAgree
<1> HIDE DEF d
<1>6. agree \in NotInit /\ m \in NotInit
  <2>1. d.rid \in RoundId /\ d.eph \in Nat /\ d.init \in Nat
    BY <1>3, DataFields
  <2>2. agree \in NotInit
    BY <2>1 DEF NotInit, ServerAgree, Body
  <2>3. m \in NotInit
    BY <2>1 DEF NotInit, ServerEnlisted, Body
  <2> QED
    BY <2>2, <2>3
<1> HIDE DEF agree, m
<1>7. Ordered(storage, Tail(todo), enlisted, Used, initCount) /\ enlisted \in Chans
  BY <1>1, <1>6, TurnOrdered, InvTypes, SendsOrdered
<1> HIDE DEF enlisted
<1>8. Ordered(storage, Tail(todo), chan', Used, initCount) /\ chan' \in Chans
  BY <1>1, <1>5, <1>6, <1>7, SendsOrdered
<1> QED
  BY <1>3, <1>4, <1>5, <1>8, TurnOrdered, KeepOrder DEF Forming

LEMMA ProcessEnlistOrder ==
  ASSUME Inv, OrderInv, NEW s \in Server, ProcessEnlist(s)
  PROVE  OrderInv'
<1> DEFINE keys == [data[s].keys EXCEPT ![Msg.from] = Msg.key]
           d == [data[s] EXCEPT !.keys = keys]
<1>1. todo # <<>> /\ Msg.type = "ServerEnlist" /\ st[s] = "Enlist"
  BY DEF ProcessEnlist, EnlistOK, Processing
<1>2. data[s] \in Data /\ Msg.from \in Server /\ Msg.key \in Nat
  BY <1>1, TurnOrdered, InvTypes, BodyFields
<1>3. keys \in [Server -> Nat]
  BY <1>2, DataFields
<1>4. Stay(s, d) \/ EnterAgree(s, keys)
  BY DEF ProcessEnlist
<1>5. d.init = data[s].init /\ d.rid = data[s].rid
  BY <1>2 DEF Data
<1> HIDE DEF keys, d
<1> QED
  BY <1>1, <1>3, <1>4, <1>5, StayOrder, EnterAgreeOrder

LEMMA ProcessEnlistedOrder ==
  ASSUME Inv, OrderInv, NEW s \in Server, ProcessEnlisted(s)
  PROVE  OrderInv'
<1>1. /\ todo # <<>> /\ Msg.type = "ServerEnlisted" /\ EnterAgree(s, Msg.keys)
      /\ st[s] = "Enlist"
  BY DEF ProcessEnlisted, EnlistedOK, Processing
<1>2. Msg.keys \in [Server -> Nat]
  BY <1>1, TurnOrdered, BodyFields
<1> QED
  BY <1>1, <1>2, EnterAgreeOrder

LEMMA ProcessAgreeOrder ==
  ASSUME Inv, OrderInv, NEW s \in Server, ProcessAgree(s)
  PROVE  OrderInv'
<1> DEFINE d == [data[s] EXCEPT !.got = data[s].got \cup {Msg.from}]
           e == [data[s] EXCEPT !.got = {}, !.regs = NoRegs]
<1>1. todo # <<>> /\ st[s] = "Agree"
  BY DEF ProcessAgree, AgreeOK, Processing
<1>2. data[s] \in Data /\ data[s].rid.n = data[s].init
  BY <1>1, InvTypes DEF OrderInv, Numbered
<1>3. /\ d.init = data[s].init /\ d.rid = data[s].rid
      /\ e.init = data[s].init /\ e.rid = data[s].rid
  BY <1>2 DEF Data
<1>4. e \in Data
  BY <1>2, DataFields, DataUpdates, Constants
<1>5. \/ Stay(s, d)
      \/ Goto(s, "Registering", e, Tail(todo)) /\ UNCHANGED <<chan, initCount>>
  BY DEF ProcessAgree
<1> HIDE DEF d, e
<1>6. CASE Stay(s, d)
  BY <1>1, <1>3, <1>6, StayOrder
<1>7. CASE Goto(s, "Registering", e, Tail(todo)) /\ UNCHANGED <<chan, initCount>>
  BY <1>1, <1>2, <1>3, <1>4, <1>7, TurnOrdered, InvTypes, KeepOrder DEF Queued, Forming
<1> QED
  BY <1>5, <1>6, <1>7

LEMMA ProcessRegisterOrder ==
  ASSUME Inv, OrderInv, NEW s \in Server, ProcessRegister(s)
  PROVE  OrderInv'
<1> DEFINE d == [data[s] EXCEPT !.regs[Msg.from] = Msg.key]
<1>1. todo # <<>> /\ Stay(s, d)
  BY DEF ProcessRegister, RegisterOK, Processing
<1>2. data[s] \in Data
  BY InvTypes
<1>3. d.init = data[s].init /\ d.rid = data[s].rid
  BY <1>2 DEF Data
<1> HIDE DEF d
<1> QED
  BY <1>1, <1>3, StayOrder

LEMMA FinishClientRegisterOrder ==
  ASSUME Inv, OrderInv, NEW s \in Server, FinishClientRegister(s)
  PROVE  OrderInv'
<1> DEFINE d == [data[s] EXCEPT !.got = {}]
           l == RegisterList(data[s].rid, data[s].regs)
           m == ServerList(l)
<1>1. /\ todo = <<>> /\ st[s] = "Registering" /\ Goto(s, "ListExchange", d, <<>>)
      /\ chan' = Sent(chan, s, conn[s], ToServers(m)) /\ UNCHANGED initCount
  BY DEF FinishClientRegister, Idle
<1>2. data[s] \in Data /\ data[s].rid.n = data[s].init
  BY <1>1, InvTypes DEF OrderInv, Numbered, Queued
<1>3. d.init = data[s].init /\ d.rid = data[s].rid
  BY <1>2 DEF Data
<1>4. d \in Data
  BY <1>2, DataUpdates, Constants
<1>5. m \in NotInit
  <2>1. l \in RegisterLists
    BY <1>2, DataFields, Constants
  <2> HIDE DEF l
  <2> QED
    BY <2>1 DEF NotInit, ServerList, Body
<1> HIDE DEF d, m
<1>6. Ordered(storage, <<>>, chan, Used, initCount) /\ <<>> \in Seq(Packet)
  BY <1>1 DEF OrderInv
<1>7. Ordered(storage, <<>>, chan', Used, initCount) /\ chan' \in Chans
  BY <1>1, <1>5, <1>6, InvTypes, SendsOrdered
<1> QED
  BY <1>1, <1>2, <1>3, <1>4, <1>6, <1>7, KeepOrder DEF Queued, Forming

LEMMA ProcessListOrder ==
  ASSUME Inv, OrderInv, NEW s \in Server, ProcessList(s)
  PROVE  OrderInv'
<1> DEFINE got == data[s].got \cup {Head(todo).src}
           regs == Merge(data[s].regs, Msg.list.regs)
           l == RegisterList(data[s].rid, regs)
           verify == ServerVerifyList(s, l)
           d == [data[s] EXCEPT !.got = got, !.regs = regs]
           e == [data[s] EXCEPT !.got = {}, !.regs = regs]
<1>1. todo # <<>> /\ Msg.type = "ServerList" /\ st[s] = "ListExchange"
  BY DEF ProcessList, ListOK, Processing
<1>2. /\ data[s] \in Data /\ data[s].rid.n = data[s].init
      /\ Msg.list.regs \in [Client -> Nat]
  BY <1>1, TurnOrdered, InvTypes, BodyFields DEF OrderInv, Numbered, Queued
<1>3. regs \in [Client -> Nat]
  BY <1>2, DataFields DEF Merge
<1>4. \/ Stay(s, d)
      \/ /\ Goto(s, "VerifyList", e, Tail(todo)) /\ UNCHANGED initCount
         /\ chan' = Sent(chan, s, conn[s], ToServers(verify))
  BY DEF ProcessList
<1> HIDE DEF regs, got
<1>5. e \in Data
  BY <1>2, <1>3, DataUpdates, Constants
<1>6. /\ d.init = data[s].init /\ d.rid = data[s].rid
      /\ e.init = data[s].init /\ e.rid = data[s].rid
  BY <1>2 DEF Data
<1>7. verify \in NotInit
  <2>1. l \in RegisterLists
    BY <1>2, <1>3, DataFields, Constants
  <2> HIDE DEF l
  <2> QED
    BY <2>1 DEF NotInit, ServerVerifyList, Body
<1> HIDE DEF d, e, verify
<1>8. CASE Stay(s, d)
  BY <1>1, <1>6, <1>8, StayOrder
<1>9. CASE ~Stay(s, d)
  <2>1. Ordered(storage, Tail(todo), chan', Used, initCount) /\ chan' \in Chans
    <3>1. chan' = Sent(chan, s, conn[s], ToServers(verify))
      BY <1>4, <1>9
    <3>2. chan \in Chans /\ conn[s] \in SUBSET Server
      BY InvTypes
    <3>3. Ordered(storage, Tail(todo), chan, Used, initCount)
      BY <1>1, TurnOrdered
    <3> QED
      BY <1>7, <3>1, <3>2, <3>3, SendsOrdered
  <2> QED
    BY <1>1, <1>2, <1>4, <1>5, <1>6, <1>9, <2>1, TurnOrdered, KeepOrder DEF Queued, Forming
<1> QED
  BY <1>8, <1>9

LEMMA ProcessVerifyListOrder ==
  ASSUME Inv, OrderInv, NEW s \in Server, ProcessVerifyList(s)
  PROVE  OrderInv'
<1> DEFINE got == data[s].got \cup {Head(todo).src}
           d == [data[s] EXCEPT !.got = got]
<1>1. todo # <<>> /\ st[s] = "VerifyList" /\ Head(todo).src \in Server
  BY DEF ProcessVerifyList, VerifyListOK, Processing
<1>2. data[s] \in Data /\ data[s].rid.n = data[s].init
  BY <1>1, InvTypes DEF OrderInv, Numbered, Queued
<1>3. got \in SUBSET Server
  BY <1>1, <1>2, DataFields
<1>4. \/ Stay(s, d)
      \/ Goto(s, "Communicating", d, Tail(todo)) /\ UNCHANGED <<chan, initCount>>
  BY DEF ProcessVerifyList
<1>5. d.init = data[s].init /\ d.rid = data[s].rid
  BY <1>2 DEF Data
<1> HIDE DEF got
<1>6. d \in Data
  BY <1>2, <1>3, DataUpdates, Constants
<1> HIDE DEF d
<1>7. CASE Stay(s, d)
  BY <1>1, <1>5, <1>7, StayOrder
<1>8. CASE Goto(s, "Communicating", d, Tail(todo)) /\ UNCHANGED <<chan, initCount>>
  BY <1>1, <1>2, <1>5, <1>6, <1>8, TurnOrdered, InvTypes, KeepOrder DEF Queued, Forming
<1> QED
  BY <1>4, <1>7, <1>8

LEMMA ProcessStopOrder ==
  ASSUME Inv, OrderInv, NEW s \in Server, ProcessStop(s)
  PROVE  OrderInv'
<1> DEFINE again == IF Msg.rid = data[s].rid THEN [t \in conn[s] |-> Msg]
                                            ELSE ToServers(Msg)
           c == IF s = Proposer THEN Sent(chan, s, conn[s], again) ELSE chan
<1>1. todo # <<>> /\ Msg.type = "ServerStop"
  BY DEF ProcessStop, Processing
<1>2. /\ Msg \in NotInit /\ Ordered(storage, Tail(todo), chan, Used, initCount)
      /\ Tail(todo) \in Seq(Packet) /\ chan \in Chans /\ conn[s] \in SUBSET Server
  BY <1>1, TurnOrdered, InvTypes DEF NotInit
<1>3. CASE /\ todo' = Tail(todo)
           /\ UNCHANGED <<st, data, storage, reached, chan, initCount>>
  <2>1. Used' = Used /\ \A t \in Server : Past(t)' = Past(t)
    BY <1>3 DEF Used, Past
  <2> QED
    BY <1>2, <1>3, <2>1 DEF OrderInv, Numbered
<1>4. CASE Restart(s, conn[s], c, Tail(todo))
  <2>1. Ordered(storage, Tail(todo), c, Used, initCount) /\ c \in Chans
    <3> DEFINE out == [t \in conn[s] |-> Msg]
    <3>1. out \in [conn[s] -> {Msg}]
      OBVIOUS
    <3>2. again = out \/ again = ToServers(Msg)
      OBVIOUS
    <3> HIDE DEF out, again
    <3>3. /\ Ordered(storage, Tail(todo), Sent(chan, s, conn[s], out), Used, initCount)
          /\ Sent(chan, s, conn[s], out) \in Chans
      BY <1>2, <3>1, SendsOrdered
    <3>4. /\ Ordered(storage, Tail(todo), Sent(chan, s, conn[s], ToServers(Msg)), Used, initCount)
          /\ Sent(chan, s, conn[s], ToServers(Msg)) \in Chans
      BY <1>2, SendsOrdered
    <3> QED
      BY <1>2, <3>2, <3>3, <3>4
  <2> HIDE DEF c
  <2> QED
    BY <1>2, <1>4, <2>1, RestartOrder
<1> QED
  BY <1>3, <1>4 DEF ProcessStop

LEMMA DropOrder ==
  ASSUME Inv, OrderInv, NEW s \in Server, Drop(s)
  PROVE  OrderInv'
<1>1. todo # <<>> /\ Stay(s, data[s])
  BY DEF Drop
<1> QED
  BY <1>1, StayOrder

-----------------------------------------------------------------------------
(* Connections, the surroundings and the order *)

\* Nothing changes but the turn and the channels.
LEMMA QuietOrder ==
  ASSUME OrderInv, UNCHANGED <<st, data, storage, reached, initCount>>,
         Ordered(storage, todo', chan', Used, initCount)
  PROVE  OrderInv'
<1>1. Used' = Used /\ \A t \in Server : Past(t)' = Past(t)
  BY DEF Used, Past
<1> QED
  BY <1>1 DEF OrderInv, Numbered

\* The channels c are in order when nothing is left of a turn.
Calm(c) == c \in Chans /\ Ordered(storage, <<>>, c, Used, initCount)

LEMMA HandleConnectionOrder ==
  ASSUME Inv, OrderInv, Idle, NEW s \in Server, NEW cn \in SUBSET Server, NEW c, Calm(c),
         HandleConnection(s, cn, c)
  PROVE  OrderInv'
<1>1. c \in Chans /\ Ordered(storage, <<>>, c, Used, initCount) /\ <<>> \in Seq(Packet)
      /\ todo = <<>>
  BY DEF Calm, Idle
<1>2. CASE Restart(s, cn, c, <<>>)
  BY <1>1, <1>2, RestartOrder
<1>3. CASE chan' = c /\ UNCHANGED <<st, data, storage, reached, todo, initCount>>
  BY <1>1, <1>3, QuietOrder
<1> QED
  BY <1>2, <1>3 DEF HandleConnection

LEMMA HandleDisconnectionOrder ==
  ASSUME Inv, OrderInv, Idle, NEW s \in Server, NEW p \in Server, NEW cn \in SUBSET Server,
         NEW c, Calm(c), HandleDisconnection(s, p, cn, c)
  PROVE  OrderInv'
<1>1. c \in Chans /\ Ordered(storage, <<>>, c, Used, initCount) /\ <<>> \in Seq(Packet)
      /\ todo = <<>>
  BY DEF Calm, Idle
<1>2. CASE DefaultHandleDisconnection(s, p, cn, c)
  <2> DEFINE r == IF data[s].rid = NoRound THEN NonceId(data[s].init) ELSE data[s].rid
             m == ServerStop(s, r, p)
             out == [t \in cn |-> m]
  <2>1. r \in RoundId
    BY DataFields, Constants, InvTypes
  <2>2. /\ chan' = Sent(c, s, cn, out)
        /\ UNCHANGED <<st, data, storage, reached, todo, initCount>>
    BY <1>2 DEF DefaultHandleDisconnection
  <2> HIDE DEF r
  <2>3. m \in NotInit
    BY <2>1 DEF NotInit, ServerStop, Body
  <2> HIDE DEF m
  <2>4. out \in [cn -> {m}]
    OBVIOUS
  <2> HIDE DEF out
  <2>5. Ordered(storage, <<>>, chan', Used, initCount)
    BY <1>1, <2>2, <2>3, <2>4, SendsOrdered
  <2> QED
    BY <1>1, <2>2, <2>5, QuietOrder
<1>3. CASE Restart(s, cn, c, <<>>)
  BY <1>1, <1>3, RestartOrder
<1>4. CASE chan' = c /\ UNCHANGED <<st, data, storage, reached, todo, initCount>>
  BY <1>1, <1>4, QuietOrder
<1> QED
  BY <1>2, <1>3, <1>4
     DEF HandleDisconnection, InitHandleDisconnection, CommHandleDisconnection

\* One channel changes, in a way that leaves it in order.
LEMMA ChannelOrder ==
  ASSUME Inv, OrderInv, NEW q, NEW a \in Server, NEW b \in Server, NEW r \in Seq(Packet),
         NEW c \in Chans, Ordered(storage, q, c, Used, initCount),
         a = Proposer => Orderly(storage[b], q, r, b, Used[b], initCount),
         \A i \in DOMAIN r : r[i].body.type = "ServerInit" => a = Proposer /\ r[i].dst = b
  PROVE  /\ [c EXCEPT ![a][b] = r] \in Chans
         /\ Ordered(storage, q, [c EXCEPT ![a][b] = r], Used, initCount)
<1> DEFINE f == [c EXCEPT ![a][b] = r]
<1>1. \A x, y \in Server : f[x][y] = IF x = a /\ y = b THEN r ELSE c[x][y]
  BY DEF Chans
<1>2. f \in Chans
  <2>1. [c[a] EXCEPT ![b] = r] \in [Server -> Seq(Packet)]
    BY DEF Chans
  <2>2. f = [c EXCEPT ![a] = [c[a] EXCEPT ![b] = r]]
    BY DEF Chans
  <2> QED
    BY <2>1, <2>2 DEF Chans
<1> HIDE DEF f
<1>3. ASSUME NEW t \in Server
      PROVE  Orderly(storage[t], q, f[Proposer][t], t, Used[t], initCount)
  BY <1>1, ServerAssumption DEF Ordered
<1>4. Direct(f)
  BY <1>1 DEF Ordered, Direct
<1> QED
  BY <1>2, <1>3, <1>4 DEF Ordered, f

\* What a server takes from an edge.
LEMMA TakenOrder ==
  ASSUME Inv, OrderInv, NEW p \in Server, NEW s \in Server, Arriving(p, s)
  PROVE  /\ Calm(Taken(p, s)) /\ Head(chan[p][s]) \in Packet
         /\ Ordered(storage, <<Head(chan[p][s])>>, Taken(p, s), Used, initCount)
<1> DEFINE e == chan[p][s]
           h == Head(e)
<1>1. e # <<>> /\ todo = <<>>
  BY DEF Arriving, Idle
<1>2. chan \in Chans /\ e \in Seq(Packet) /\ storage \in Stores
  BY InvTypes DEF Chans
<1>3. h \in Packet /\ Tail(e) \in Seq(Packet)
  BY <1>1, <1>2, HeadTail
<1>4. Ordered(storage, <<>>, chan, Used, initCount)
  BY <1>1 DEF OrderInv
<1>5. 1 \in DOMAIN e /\ h = e[1] /\ \A i \in DOMAIN Tail(e) : i + 1 \in DOMAIN e /\ Tail(e)[i] = e[i + 1]
  BY <1>1, <1>2
<1>6. \A i \in DOMAIN Tail(e) : Tail(e)[i].body.type = "ServerInit" => p = Proposer /\ Tail(e)[i].dst = s
  <2> HIDE DEF e
  <2> QED
    BY <1>4, <1>5 DEF Ordered, Direct, e
<1>7. h.body.type = "ServerInit" => p = Proposer /\ h.dst = s
  <2> HIDE DEF e, h
  <2> QED
    BY <1>4, <1>5 DEF Ordered, Direct, e
<1>8. p = Proposer => /\ Orderly(storage[s], <<h>>, Tail(e), s, Used[s], initCount)
                      /\ Orderly(storage[s], <<>>, Tail(e), s, Used[s], initCount)
  <2> SUFFICES ASSUME p = Proposer
               PROVE  /\ Orderly(storage[s], <<h>>, Tail(e), s, Used[s], initCount)
                      /\ Orderly(storage[s], <<>>, Tail(e), s, Used[s], initCount)
    OBVIOUS
  <2>1. Orderly(storage[s], <<>>, e, s, Used[s], initCount)
    BY <1>4 DEF Ordered
  <2>2. storage[s] \in Seq(Packet)
    BY <1>2 DEF Stores
  <2> HIDE DEF e
  <2> QED
    BY <1>1, <1>2, <2>1, <2>2, OrderlyTaken
<1>9. Taken(p, s) = [chan EXCEPT ![p][s] = Tail(e)]
  BY DEF Taken
<1> HIDE DEF e, h
<1>10. Calm(Taken(p, s))
  <2> DEFINE r == Tail(e)
  <2>1. /\ p = Proposer => Orderly(storage[s], <<>>, r, s, Used[s], initCount)
        /\ \A i \in DOMAIN r : r[i].body.type = "ServerInit" => p = Proposer /\ r[i].dst = s
    BY <1>3, <1>6, <1>8
  <2>2. r \in Seq(Packet) /\ Taken(p, s) = [chan EXCEPT ![p][s] = r]
    BY <1>3, <1>9
  <2> HIDE DEF r
  <2>3. /\ [chan EXCEPT ![p][s] = r] \in Chans
        /\ Ordered(storage, <<>>, [chan EXCEPT ![p][s] = r], Used, initCount)
    BY <1>2, <1>4, <2>1, <2>2, ChannelOrder
  <2> QED
    BY <2>2, <2>3 DEF Calm
<1> DEFINE f == Taken(p, s)
           g == <<h>>
<1>11. g \in Seq(Packet) /\ g \o <<>> = g /\ <<>> \in Seq(Packet)
  BY <1>3
<1>12. DOMAIN g = {1} /\ g[1] = h
  OBVIOUS
<1>13. f[Proposer][s] = IF p = Proposer THEN Tail(e) ELSE chan[Proposer][s]
  BY <1>2, <1>9, ServerAssumption DEF Chans
<1> HIDE DEF f, g
<1>14. ASSUME NEW t \in Server
       PROVE  Orderly(storage[t], g, f[Proposer][t], t, Used[t], initCount)
  <2>1. CASE p = Proposer /\ t = s
    BY <1>8, <1>13, <2>1 DEF g
  <2>2. CASE ~(p = Proposer /\ t = s)
    <3>1. Plain(g, t)
      BY <1>7, <1>12, <2>2 DEF Plain, IsInit
    <3>2. Orderly(storage[t], <<>>, f[Proposer][t], t, Used[t], initCount)
      BY <1>10 DEF Calm, Ordered, f
    <3>3. Orderly(storage[t], g \o <<>>, f[Proposer][t], t, Used[t], initCount)
      BY <1>11, <3>1, <3>2, OrderlyPlainTurn
    <3> QED
      BY <1>11, <3>3
  <2> QED
    BY <2>1, <2>2
<1>15. Ordered(storage, g, f, Used, initCount)
  BY <1>10, <1>14 DEF Calm, Ordered, f
<1> QED
  BY <1>3, <1>10, <1>15 DEF f, g, h, e

\* A message that is no ServerInit is put on an edge.
LEMMA AppendOrder ==
  ASSUME Inv, OrderInv, NEW a \in Server, NEW b \in Server, NEW m \in Packet,
         NEW c, Calm(c), m.body.type # "ServerInit"
  PROVE  Calm([c EXCEPT ![a][b] = Append(@, m)])
<1> DEFINE e == c[a][b]
           r == Append(e, m)
<1>1. c \in Chans /\ e \in Seq(Packet) /\ Ordered(storage, <<>>, c, Used, initCount)
  BY DEF Calm, Chans
<1>2. r \in Seq(Packet) /\ r = e \o <<m>> /\ <<m>> \in Seq(Packet)
  <2> HIDE DEF e
  <2> QED
    BY <1>1
<1>3. \A i \in DOMAIN r : (i \in DOMAIN e /\ r[i] = e[i]) \/ r[i] = m
  <2> HIDE DEF e
  <2> QED
    BY <1>1
<1>4. a = Proposer => Orderly(storage[b], <<>>, r, b, Used[b], initCount)
  <2> SUFFICES ASSUME a = Proposer PROVE Orderly(storage[b], <<>>, r, b, Used[b], initCount)
    OBVIOUS
  <2>1. Orderly(storage[b], <<>>, e, b, Used[b], initCount)
    BY <1>1 DEF Ordered
  <2> DEFINE g == <<m>>
  <2>2. Plain(g, b)
    BY DEF Plain, IsInit
  <2> HIDE DEF e, r, g
  <2>3. r = e \o g /\ g \in Seq(Packet)
    BY <1>2 DEF g
  <2>4. Orderly(storage[b], <<>>, e \o g, b, Used[b], initCount)
    BY <1>1, <2>1, <2>2, <2>3, OrderlySent
  <2> QED
    BY <2>3, <2>4
<1>5. \A i \in DOMAIN r : r[i].body.type = "ServerInit" => a = Proposer /\ r[i].dst = b
  <2> HIDE DEF r, e
  <2> QED
    BY <1>1, <1>3 DEF Ordered, Direct, e
<1>6. [c EXCEPT ![a][b] = Append(@, m)] = [c EXCEPT ![a][b] = r]
  OBVIOUS
<1> HIDE DEF r, e
<1>7. /\ [c EXCEPT ![a][b] = r] \in Chans
      /\ Ordered(storage, <<>>, [c EXCEPT ![a][b] = r], Used, initCount)
  BY <1>1, <1>2, <1>4, <1>5, ChannelOrder
<1>8. Calm([c EXCEPT ![a][b] = r])
  BY <1>7 DEF Calm
<1> QED
  BY <1>6, <1>8

LEMMA IdleCalm ==
  ASSUME Inv, OrderInv, Idle
  PROVE  Calm(chan)
  BY InvTypes DEF Calm, OrderInv, Idle

LEMMA BindEdgeOrder ==
  ASSUME Inv, OrderInv, NEW a \in Server, NEW b \in Server, BindEdge(a, b)
  PROVE  OrderInv'
<1> DEFINE m == [src |-> a, dst |-> b, body |-> Connect]
           c == [chan EXCEPT ![a][b] = Append(@, m)]
<1>1. m \in Packet /\ m.body.type # "ServerInit"
  BY DEF Packet, Body, Connect
<1> HIDE DEF m
<1>2. Idle /\ chan[a][b] = <<>> /\ conn'[a] \in SUBSET Server
  BY InvTypes DEF BindEdge
<1>3. Append(chan[a][b], m) = <<m>>
  BY <1>2
<1>4. HandleConnection(a, conn'[a], c)
  BY <1>3 DEF BindEdge, m
<1>5. Calm(c)
  BY <1>1, <1>2, IdleCalm, AppendOrder
<1> HIDE DEF c
<1> QED
  BY <1>2, <1>4, <1>5, HandleConnectionOrder

LEMMA BreakEdgeOrder ==
  ASSUME Inv, OrderInv, NEW a \in Server, NEW b \in Server, BreakEdge(a, b)
  PROVE  OrderInv'
<1> DEFINE Cut(x, y, k) == Append(SubSeq(chan[x][y], 1, k),
                                  [src |-> x, dst |-> y, body |-> Closed])
<1>1. Idle /\ a # b /\ UNCHANGED <<st, data, storage, reached, todo, initCount>>
  BY DEF BreakEdge, machine
<1>2. PICK i \in 0..Len(chan[a][b]), j \in 0..Len(chan[b][a]) :
        chan' = [chan EXCEPT ![a][b] = Cut(a, b, i), ![b][a] = Cut(b, a, j)]
  BY DEF BreakEdge
<1>3. chan \in Chans /\ Ordered(storage, <<>>, chan, Used, initCount)
  BY <1>1, IdleCalm DEF Calm
<1>4. ASSUME NEW x \in Server, NEW y \in Server, NEW k \in 0..Len(chan[x][y])
      PROVE  /\ Cut(x, y, k) \in Seq(Packet)
             /\ x = Proposer => Orderly(storage[y], <<>>, Cut(x, y, k), y, Used[y], initCount)
             /\ \A l \in DOMAIN Cut(x, y, k) :
                  Cut(x, y, k)[l].body.type = "ServerInit" => x = Proposer /\ Cut(x, y, k)[l].dst = y
  <2> DEFINE e == chan[x][y]
             m == [src |-> x, dst |-> y, body |-> Closed]
             r == Append(SubSeq(e, 1, k), m)
  <2>1. m \in Packet /\ m.body.type # "ServerInit" /\ e \in Seq(Packet)
    BY <1>3 DEF Packet, Body, Closed, Chans
  <2> HIDE DEF m
  <2>2. SubSeq(e, 1, k) \in Seq(Packet) /\ r \in Seq(Packet)
    <3>1. k \in 0..Len(e)
      OBVIOUS
    <3> HIDE DEF e
    <3> QED
      BY <2>1, <3>1
  <2>3. x = Proposer => Orderly(storage[y], <<>>, r, y, Used[y], initCount)
    <3>1. k \in 0..Len(e) /\ (x = Proposer => Orderly(storage[y], <<>>, e, y, Used[y], initCount))
      BY <1>3 DEF Ordered
    <3> HIDE DEF e
    <3> QED
      BY <2>1, <3>1, OrderlyCut DEF IsInit
  <2>4. \A l \in DOMAIN r : (l \in DOMAIN e /\ r[l] = e[l]) \/ r[l] = m
    <3>1. k \in 0..Len(e)
      OBVIOUS
    <3> HIDE DEF e
    <3> QED
      BY <2>1, <3>1
  <2>5. \A l \in DOMAIN r : r[l].body.type = "ServerInit" => x = Proposer /\ r[l].dst = y
    <3> HIDE DEF r, e
    <3> QED
      BY <1>3, <2>1, <2>4 DEF Ordered, Direct, e
  <2>6. r = Cut(x, y, k)
    BY DEF m
  <2> HIDE DEF r, Cut
  <2> QED
    BY <2>2, <2>3, <2>5, <2>6
<1> DEFINE u == Cut(a, b, i)
           v == Cut(b, a, j)
           c == [chan EXCEPT ![a][b] = u]
<1>5. /\ u \in Seq(Packet)
      /\ a = Proposer => Orderly(storage[b], <<>>, u, b, Used[b], initCount)
      /\ \A l \in DOMAIN u : u[l].body.type = "ServerInit" => a = Proposer /\ u[l].dst = b
  <2> HIDE DEF Cut
  <2> QED
    BY <1>4
<1>6. /\ v \in Seq(Packet)
      /\ b = Proposer => Orderly(storage[a], <<>>, v, a, Used[a], initCount)
      /\ \A l \in DOMAIN v : v[l].body.type = "ServerInit" => b = Proposer /\ v[l].dst = a
  <2> HIDE DEF Cut
  <2> QED
    BY <1>4
<1>7. chan' = [c EXCEPT ![b][a] = v]
  BY <1>2
<1> HIDE DEF u, v
<1>8. c \in Chans /\ Ordered(storage, <<>>, c, Used, initCount)
  BY <1>3, <1>5, ChannelOrder
<1> HIDE DEF c
<1>9. Ordered(storage, <<>>, chan', Used, initCount)
  BY <1>6, <1>7, <1>8, ChannelOrder
<1> QED
  BY <1>1, <1>9, QuietOrder DEF Idle

LEMMA ReceiveConnectOrder ==
  ASSUME Inv, OrderInv, NEW p \in Server, NEW s \in Server, ReceiveConnect(p, s)
  PROVE  OrderInv'
<1>1. /\ Arriving(p, s) /\ Idle /\ conn'[s] \in SUBSET Server
      /\ HandleConnection(s, conn'[s], Taken(p, s))
  BY InvTypes DEF ReceiveConnect, Arriving
<1>2. Calm(Taken(p, s))
  BY <1>1, TakenOrder
<1> QED
  BY <1>1, <1>2, HandleConnectionOrder

LEMMA ReceiveClosedOrder ==
  ASSUME Inv, OrderInv, NEW p \in Server, NEW s \in Server, ReceiveClosed(p, s)
  PROVE  OrderInv'
<1>1. Arriving(p, s) /\ Idle /\ conn'[s] \in SUBSET Server
  BY InvTypes DEF ReceiveClosed, Arriving
<1>2. Calm(Taken(p, s))
  BY <1>1, TakenOrder
<1>3. CASE HandleDisconnection(s, p, conn'[s], Taken(p, s))
  BY <1>1, <1>2, <1>3, HandleDisconnectionOrder
<1>4. CASE chan' = Taken(p, s) /\ UNCHANGED <<st, data, storage, reached, todo, initCount>>
  BY <1>1, <1>2, <1>4, QuietOrder DEF Calm, Idle
<1> QED
  BY <1>3, <1>4 DEF ReceiveClosed

LEMMA ReceiveOrder ==
  ASSUME Inv, OrderInv, NEW p \in Server, NEW s \in Server, Receive(p, s)
  PROVE  OrderInv'
<1>1. /\ Arriving(p, s) /\ todo' = <<Head(chan[p][s])>> /\ chan' = Taken(p, s)
      /\ UNCHANGED <<st, data, storage, reached, initCount>>
  BY DEF Receive, machine
<1>2. Ordered(storage, todo', chan', Used, initCount)
  BY <1>1, TakenOrder
<1> QED
  BY <1>1, <1>2, QuietOrder

\* Only what is not a ServerInit is ever forwarded.
LEMMA ForwardedDataOrder ==
  ASSUME Inv, OrderInv, NEW p \in Server, NEW s \in Server, ForwardedData(p, s)
  PROVE  OrderInv'
<1> DEFINE m == Head(chan[p][s])
           c == Taken(p, s)
<1>1. /\ Arriving(p, s) /\ Idle /\ m.dst # s
      /\ UNCHANGED <<st, data, storage, reached, todo, initCount>>
      /\ chan' = c \/ chan' = [c EXCEPT ![s][m.dst] = Append(@, m)]
  BY DEF ForwardedData, Arriving, machine
<1>2. Calm(c) /\ m \in Packet
  BY <1>1, TakenOrder
<1>3. m.body.type # "ServerInit"
  <2> DEFINE e == chan[p][s]
  <2>1. e \in Seq(Packet) /\ e # <<>>
    BY <1>1, InvTypes DEF Arriving, Chans
  <2>2. m = Head(e)
    OBVIOUS
  <2> HIDE DEF e, m
  <2>3. 1 \in DOMAIN e /\ m = e[1]
    BY <2>1, <2>2
  <2>4. \A i \in DOMAIN e : e[i].body.type = "ServerInit" => e[i].dst = s
    BY DEF OrderInv, Ordered, Direct, e
  <2>5. m.dst # s
    BY <1>1
  <2> QED
    BY <2>3, <2>4, <2>5
<1>4. m.dst \in Server
  BY <1>2 DEF Packet
<1> HIDE DEF c, m
<1>5. Calm([c EXCEPT ![s][m.dst] = Append(@, m)])
  BY <1>2, <1>3, <1>4, AppendOrder
<1>6. Ordered(storage, <<>>, chan', Used, initCount)
  <2>1. Calm(chan')
    BY <1>1, <1>2, <1>5
  <2> QED
    BY <2>1 DEF Calm
<1> QED
  BY <1>1, <1>6, QuietOrder DEF Idle

LEMMA StartOrder ==
  ASSUME Inv, OrderInv, NEW s \in Server, Start(s)
  PROVE  OrderInv'
<1>1. Restart(s, conn[s], chan, <<>>) /\ Idle
  BY DEF Start
<1>2. Ordered(storage, <<>>, chan, Used, initCount) /\ <<>> \in Seq(Packet)
  BY <1>1, IdleCalm DEF Calm
<1> QED
  BY <1>1, <1>2, InvTypes, RestartOrder

LEMMA RoundFinishedOrder ==
  ASSUME Inv, OrderInv, NEW s \in Server, RoundFinished(s)
  PROVE  OrderInv'
<1>1. Restart(s, conn[s], chan, <<>>) /\ Idle
  BY DEF RoundFinished
<1>2. Ordered(storage, <<>>, chan, Used, initCount) /\ <<>> \in Seq(Packet)
  BY <1>1, IdleCalm DEF Calm
<1> QED
  BY <1>1, <1>2, InvTypes, RestartOrder

LEMMA RegisterOrder ==
  ASSUME Inv, OrderInv, NEW s \in Server, NEW c \in Client, NEW r \in RoundId, Register(s, c, r)
  PROVE  OrderInv'
<1> DEFINE m == [src |-> c, dst |-> s, body |-> ClientRegister(c, r, regCount[c] + 1)]
           g == <<m>>
<1>1. /\ Idle /\ todo' = g /\ UNCHANGED <<st, data, storage, reached, chan, initCount>>
  BY DEF Register, machine
<1>2. m.body.type # "ServerInit" /\ DOMAIN g = {1} /\ g[1] = m
  BY DEF ClientRegister
<1> HIDE DEF m
<1>3. g \in Seq({m}) /\ <<>> \in Seq({m}) /\ g \o <<>> = g
  OBVIOUS
<1> HIDE DEF g
<1>4. ASSUME NEW t \in Server
      PROVE  Orderly(storage[t], g, chan[Proposer][t], t, Used[t], initCount)
  <2>1. Orderly(storage[t], <<>>, chan[Proposer][t], t, Used[t], initCount)
    BY <1>1, IdleCalm DEF Calm, Ordered
  <2>2. Plain(g, t)
    BY <1>2 DEF Plain, IsInit
  <2>3. Orderly(storage[t], g \o <<>>, chan[Proposer][t], t, Used[t], initCount)
    BY <1>3, <2>1, <2>2, OrderlyPlainTurn
  <2> QED
    BY <1>3, <2>3
<1>5. Ordered(storage, g, chan, Used, initCount)
  BY <1>4 DEF OrderInv, Ordered
<1> QED
  BY <1>1, <1>5, QuietOrder

LEMMA InitOrder == Init => OrderInv
<1> SUFFICES ASSUME Init PROVE OrderInv
  OBVIOUS
<1>1. \A t \in Server : Orderly(storage[t], todo, chan[Proposer][t], t, Used[t], initCount)
  BY ServerAssumption DEF Init, Orderly, Rising, Precedes, Fresh
<1>2. Direct(chan) /\ Own(storage)
  BY DEF Init, Direct, Own
<1>3. \A t \in Server : Past(t) = {}
  BY DEF Init, Past
<1>4. \A t \in Server : Used[t] = {0} /\ data[t].rid = NoRound /\ st[t] = "Offline"
  BY <1>3 DEF Used, Init
<1>5. initCount = 0
  BY DEF Init
<1>6. \A t \in Server : Numbered(t)
  BY <1>4, <1>5 DEF Numbered, Queued, Forming
<1> QED
  BY <1>1, <1>2, <1>6 DEF OrderInv, Ordered

LEMMA NextOrder == Inv /\ OrderInv /\ [Next]_vars => OrderInv'
<1> SUFFICES ASSUME Inv, OrderInv, [Next]_vars PROVE OrderInv'
  OBVIOUS
<1>1. CASE UNCHANGED <<st, data, storage, reached, todo, chan, initCount>>
  BY <1>1, QuietOrder DEF OrderInv
<1>2. CASE System
  <2>1. ASSUME NEW s \in Server, Handle(s) PROVE OrderInv'
    BY <2>1, StoreMessageOrder, ProcessInitOrder, ProcessEnlistOrder, ProcessEnlistedOrder,
       ProcessAgreeOrder, ProcessRegisterOrder, ProcessListOrder, ProcessVerifyListOrder,
       ProcessStopOrder, DropOrder DEF Handle
  <2>2. ASSUME NEW a \in Server, NEW b \in Server, NewEdge(a, b) PROVE OrderInv'
    BY <1>1, <2>2 DEF NewEdge, machine
  <2> QED
    BY <1>2, <2>1, <2>2, StartOrder, FinishClientRegisterOrder, RoundFinishedOrder,
       BindEdgeOrder, ReceiveConnectOrder, ReceiveClosedOrder, ReceiveOrder, ForwardedDataOrder
       DEF System
<1>3. CASE Environment
  <2>1. {x[3] : x \in reached} \subseteq RoundId
    BY InvTypes
  <2> QED
    BY <1>3, <2>1, BreakEdgeOrder, RegisterOrder, RoundFinishedOrder DEF Environment
<1> QED
  BY <1>1, <1>2, <1>3 DEF Next, vars, machine

-----------------------------------------------------------------------------
(* The history *)

\* Nothing a server's history tells about changes.
LEMMA StillHistory ==
  ASSUME HistoryInv, UNCHANGED <<st, reached, signed>>,
         \A t \in Server :
           /\ data'[t].rid = data[t].rid
           /\ st[t] \in {"VerifyList", "Communicating"} => data'[t].regs = data[t].regs
  PROVE  HistoryInv'
<1>1. ASSUME NEW t \in Server PROVE Historic(t, st[t], data[t].rid, data[t].regs)'
  BY DEF HistoryInv, Historic, Before
<1>2. (OneList /\ SignedLists /\ ListsSigned)'
  BY DEF HistoryInv, OneList, SignedLists, ListsSigned
<1>3. (OneAgree /\ SignedRounds /\ RoundsSigned)'
  BY DEF HistoryInv, OneAgree, SignedRounds, RoundsSigned
<1> QED
  BY <1>1, <1>2, <1>3 DEF HistoryInv

LEMMA StayHistory ==
  ASSUME Inv, HistoryInv, NEW s \in Server, NEW d, Stay(s, d), d.rid = data[s].rid,
         st[s] \in {"VerifyList", "Communicating"} => d.regs = data[s].regs
  PROVE  HistoryInv'
<1>1. UNCHANGED <<st, reached, signed>> /\ data' = [data EXCEPT ![s] = d]
  BY DEF Stay
<1>2. \A t \in Server :
        /\ data'[t].rid = data[t].rid
        /\ st[t] \in {"VerifyList", "Communicating"} => data'[t].regs = data[t].regs
  BY <1>1, InvTypes
<1> QED
  BY <1>1, <1>2, StillHistory

\* What a server that goes to state T with data d has done before.
Ready(s, T, d) ==
  /\ T = "Agree" => Before(s, Queued \cup {"Agree"}, d.rid.n)
  /\ T \in {"Registering", "ListExchange", "VerifyList"} =>
       Before(s, {"VerifyList", "Communicating"}, d.rid.n)
  /\ T = "Communicating" => <<s, "VerifyList", d.rid, d.regs>> \in reached

LEMMA GotoHistory ==
  ASSUME Inv, Inv', HistoryInv, NEW s \in Server, NEW T, NEW d \in Data, NEW rest,
         Goto(s, T, d, rest), Ready(s, T, d), signed \subseteq signed',
         \A m \in signed' :
           m \notin signed =>
             /\ m.type = "ServerVerifyList" /\ m.list.regs # NoRegs =>
                  <<m.from, "VerifyList", m.list.rid, m.list.regs>> \in reached'
             /\ m.type = "ServerAgree" =>
                  \E x \in reached' : x[1] = m.from /\ x[2] = "Agree" /\ x[3] = m.rid
  PROVE  HistoryInv'
<1> DEFINE z == <<s, T, d.rid, d.regs>>
<1>1. /\ reached' = reached \cup {z}
      /\ st' = [st EXCEPT ![s] = T] /\ data' = [data EXCEPT ![s] = d]
  BY DEF Goto
<1>2. z[1] = s /\ z[2] = T /\ z[3] = d.rid /\ z[4] = d.regs
  OBVIOUS
<1>3. d.rid.n \in Nat /\ \A n \in Nat : ~(n < n)
  BY DataFields DEF RoundId
<1>4. T = "VerifyList" => z = <<s, "VerifyList", d.rid, d.regs>>
  OBVIOUS
<1> HIDE DEF z
<1>5. Collected(T, d, signed')
  <2>1. st'[s] = T /\ data'[s] = d
    BY <1>1, InvTypes
  <2> QED
    BY <2>1 DEF Inv, Running
<1>6. ASSUME NEW t \in Server PROVE Historic(t, st[t], data[t].rid, data[t].regs)'
  <2>1. CASE t = s
    <3>1. st'[t] = T /\ data'[t] = d
      BY <1>1, <2>1, InvTypes
    <3>2. T = "Agree" => Before(t, Queued, d.rid.n)'
      BY <1>1, <1>2, <2>1 DEF Ready, Before, Queued
    <3>3. T \in {"Registering", "ListExchange"} =>
            Before(t, {"VerifyList", "Communicating"}, d.rid.n)'
      BY <1>1, <1>2, <2>1 DEF Ready, Before
    <3>4. T \in {"VerifyList", "Communicating"} =>
            <<t, "VerifyList", d.rid, d.regs>> \in reached'
      BY <1>1, <1>4, <2>1 DEF Ready
    <3>5. T = "VerifyList" => Before(t, {"Communicating"}, d.rid.n)'
      BY <1>1, <1>2, <2>1 DEF Ready, Before
    <3> QED
      BY <3>1, <3>2, <3>3, <3>4, <3>5 DEF Historic, Before
  <2>2. CASE t # s
    <3>1. st'[t] = st[t] /\ data'[t] = data[t]
      BY <1>1, <2>2, InvTypes
    <3>2. Historic(t, st[t], data[t].rid, data[t].regs)
      BY DEF HistoryInv
    <3> QED
      BY <1>1, <1>2, <2>2, <3>1, <3>2 DEF Historic, Before
  <2> QED
    BY <2>1, <2>2
<1>7. OneList'
  <2> SUFFICES ASSUME NEW x \in reached', NEW y \in reached', x[1] = y[1],
                      x[2] = "VerifyList", y[2] = "VerifyList", x[3] = y[3]
               PROVE  x[4] = y[4]
    BY DEF OneList
  <2>1. CASE x \in reached /\ y \in reached
    BY <2>1 DEF HistoryInv, OneList
  <2>2. CASE x = z /\ y = z
    BY <2>2
  <2>3. CASE x = z /\ y \in reached
    BY <1>2, <1>3, <2>3 DEF Ready, Before
  <2>4. CASE y = z /\ x \in reached
    BY <1>2, <1>3, <2>4 DEF Ready, Before
  <2> QED
    BY <1>1, <2>1, <2>2, <2>3, <2>4
<1>8. SignedLists'
  <2> SUFFICES ASSUME NEW x \in reached', x[2] = "Communicating"
               PROVE  /\ <<x[1], "VerifyList", x[3], x[4]>> \in reached'
                      /\ \A t \in Server : ServerVerifyList(t, RegisterList(x[3], x[4])) \in signed'
    BY DEF SignedLists
  <2>1. CASE x \in reached
    BY <1>1, <2>1 DEF HistoryInv, SignedLists
  <2>2. CASE x = z
    BY <1>1, <1>2, <1>5, <2>2 DEF Ready, Collected
  <2> QED
    BY <1>1, <2>1, <2>2
<1>9. ListsSigned'
  BY <1>1 DEF HistoryInv, ListsSigned
<1>10. OneAgree'
  <2> SUFFICES ASSUME NEW x \in reached', NEW y \in reached', x[1] = y[1],
                      x[2] = "Agree", y[2] = "Agree", x[3].n = y[3].n
               PROVE  x[3] = y[3]
    BY DEF OneAgree
  <2>1. CASE x \in reached /\ y \in reached
    BY <2>1 DEF HistoryInv, OneAgree
  <2>2. CASE x = z /\ y = z
    BY <2>2
  <2>3. CASE x = z /\ y \in reached
    BY <1>2, <1>3, <2>3 DEF Ready, Before
  <2>4. CASE y = z /\ x \in reached
    BY <1>2, <1>3, <2>4 DEF Ready, Before
  <2> QED
    BY <1>1, <2>1, <2>2, <2>3, <2>4
<1>11. SignedRounds'
  <2> SUFFICES ASSUME NEW x \in reached', x[2] \in Queued
               PROVE  \A t \in Server : ServerAgree(t, x[3], x[3].keys[t]) \in signed'
    BY DEF SignedRounds
  <2>1. CASE x \in reached
    BY <1>1, <2>1 DEF HistoryInv, SignedRounds
  <2>2. CASE x = z
    BY <1>2, <1>5, <2>2 DEF Collected
  <2> QED
    BY <1>1, <2>1, <2>2
<1>12. RoundsSigned'
  BY <1>1 DEF HistoryInv, RoundsSigned
<1> QED
  BY <1>6, <1>7, <1>8, <1>9, <1>10, <1>11, <1>12 DEF HistoryInv

LEMMA RestartHistory ==
  ASSUME Inv, Inv', HistoryInv, NEW s \in Server, NEW cn, NEW c, NEW rest,
         Restart(s, cn, c, rest), UNCHANGED signed
  PROVE  HistoryInv'
<1> DEFINE d == Reset(data[s])
           f == Enlisting(d, NewNonce)
           T == IF cn = Server THEN "Init" ELSE "WaitingForServers"
<1>1. Goto(s, "Enlist", f, rest) \/ Goto(s, T, d, rest)
  BY DEF Restart
<1>2. d \in Data /\ NewNonce \in Nat
  BY InvTypes, ResetType DEF NewNonce
<1>3. f \in Data
  <2> HIDE DEF d
  <2> QED
    BY <1>2, EnlistingType
<1> HIDE DEF d, f
<1>4. Ready(s, "Enlist", f) /\ Ready(s, T, d)
  BY DEF Ready
<1> HIDE DEF T
<1> QED
  BY <1>1, <1>2, <1>3, <1>4, GotoHistory

LEMMA EnterAgreeHistory ==
  ASSUME Inv, Inv', OrderInv, HistoryInv, NEW s \in Server, NEW keys \in [Server -> Nat],
         st[s] = "Enlist", EnterAgree(s, keys)
  PROVE  HistoryInv'
<1> DEFINE d == Agreeing(data[s], keys)
           agree == ServerAgree(s, d.rid, d.eph)
<1>1. data[s] \in Data
  BY InvTypes
<1>2. HashEnlists(data[s].init, keys) \in RoundId
  BY <1>1, DataFields DEF HashEnlists, RoundId
<1>3. d \in Data
  BY <1>1, <1>2, DataUpdates, Constants DEF Agreeing
<1>4. d.rid.n = data[s].init
  BY <1>1 DEF Agreeing, HashEnlists, Data
<1>5. Goto(s, "Agree", d, Tail(todo)) /\ signed' = signed \cup {agree}
  BY DEF EnterAgree
<1>6. agree.type # "ServerVerifyList" /\ agree.from = s /\ agree.rid = d.rid
  BY DEF ServerAgree
<1> DEFINE z == <<s, "Agree", d.rid, d.regs>>
<1>7. z \in reached' /\ z[1] = s /\ z[2] = "Agree" /\ z[3] = d.rid
  BY <1>5 DEF Goto
<1> HIDE DEF d, agree, z
<1>8. \A x \in reached : x[1] = s => x[3].n < data[s].init
  <2>1. \A k \in Past(s) : k < data[s].init
    BY DEF OrderInv, Numbered
  <2> QED
    BY <2>1 DEF Past
<1>9. Ready(s, "Agree", d)
  BY <1>4, <1>8 DEF Ready, Before
<1>10. \A m \in signed' :
         m \notin signed =>
           /\ m.type # "ServerVerifyList"
           /\ \E x \in reached' : x[1] = m.from /\ x[2] = "Agree" /\ x[3] = m.rid
  BY <1>5, <1>6, <1>7
<1> QED
  BY <1>3, <1>5, <1>9, <1>10, GotoHistory

\* What the history says of the state a server is in.
LEMMA NowHistory ==
  ASSUME HistoryInv, NEW s \in Server
  PROVE  Historic(s, st[s], data[s].rid, data[s].regs)
  BY DEF HistoryInv

LEMMA HandleHistory ==
  ASSUME Inv, Inv', OrderInv, HistoryInv, NEW s \in Server, Handle(s)
  PROVE  HistoryInv'
<1>1. CASE StoreMessage(s)
  BY <1>1, StillHistory DEF StoreMessage
<1>2. CASE ProcessInit(s)
  <2> DEFINE d == Enlisting(data[s], Msg.n)
  <2>1. todo # <<>> /\ Msg.type = "ServerInit" /\ Goto(s, "Enlist", d, Tail(todo)) /\ UNCHANGED signed
    BY <1>2 DEF ProcessInit, Processing
  <2>2. Msg.n \in Nat /\ data[s] \in Data
    BY <2>1, TurnOrdered, InvTypes, BodyFields
  <2>3. d \in Data
    BY <2>2, EnlistingType
  <2> HIDE DEF d
  <2>4. Ready(s, "Enlist", d)
    BY DEF Ready
  <2> QED
    BY <2>1, <2>3, <2>4, GotoHistory
<1>3. CASE ProcessEnlist(s)
  <2> DEFINE keys == [data[s].keys EXCEPT ![Msg.from] = Msg.key]
             d == [data[s] EXCEPT !.keys = keys]
  <2>1. todo # <<>> /\ Msg.type = "ServerEnlist" /\ st[s] = "Enlist"
    BY <1>3 DEF ProcessEnlist, EnlistOK, Processing
  <2>2. data[s] \in Data /\ Msg.from \in Server /\ Msg.key \in Nat
    BY <2>1, TurnOrdered, InvTypes, BodyFields
  <2>3. keys \in [Server -> Nat]
    BY <2>2, DataFields
  <2>4. Stay(s, d) \/ EnterAgree(s, keys)
    BY <1>3 DEF ProcessEnlist
  <2>5. d.rid = data[s].rid
    BY <2>2 DEF Data
  <2> HIDE DEF keys, d
  <2> QED
    BY <2>1, <2>3, <2>4, <2>5, StayHistory, EnterAgreeHistory
<1>4. CASE ProcessEnlisted(s)
  <2>1. /\ todo # <<>> /\ Msg.type = "ServerEnlisted" /\ EnterAgree(s, Msg.keys)
        /\ st[s] = "Enlist"
    BY <1>4 DEF ProcessEnlisted, EnlistedOK, Processing
  <2>2. Msg.keys \in [Server -> Nat]
    BY <2>1, TurnOrdered, BodyFields
  <2> QED
    BY <2>1, <2>2, EnterAgreeHistory
<1>5. CASE ProcessAgree(s)
  <2> DEFINE d == [data[s] EXCEPT !.got = data[s].got \cup {Msg.from}]
             e == [data[s] EXCEPT !.got = {}, !.regs = NoRegs]
  <2>1. st[s] = "Agree" /\ data[s] \in Data
    BY <1>5, InvTypes DEF ProcessAgree, AgreeOK, Processing
  <2>2. d.rid = data[s].rid /\ e.rid = data[s].rid /\ d.regs = data[s].regs
    BY <2>1 DEF Data
  <2>3. e \in Data
    BY <2>1, DataFields, DataUpdates, Constants
  <2>4. Stay(s, d) \/ (Goto(s, "Registering", e, Tail(todo)) /\ UNCHANGED signed)
    BY <1>5 DEF ProcessAgree
  <2> HIDE DEF d, e
  <2>5. Ready(s, "Registering", e)
    BY <2>1, <2>2, NowHistory DEF Historic, Ready, Before, Queued
  <2> QED
    BY <2>2, <2>3, <2>4, <2>5, StayHistory, GotoHistory
<1>6. CASE ProcessRegister(s)
  <2> DEFINE d == [data[s] EXCEPT !.regs[Msg.from] = Msg.key]
  <2>1. st[s] = "Registering" /\ Stay(s, d) /\ data[s] \in Data
    BY <1>6, InvTypes DEF ProcessRegister, RegisterOK, Processing
  <2>2. d.rid = data[s].rid
    BY <2>1 DEF Data
  <2> HIDE DEF d
  <2> QED
    BY <2>1, <2>2, StayHistory
<1>7. CASE ProcessList(s)
  <2> DEFINE got == data[s].got \cup {Head(todo).src}
             regs == Merge(data[s].regs, Msg.list.regs)
             verify == ServerVerifyList(s, RegisterList(data[s].rid, regs))
             d == [data[s] EXCEPT !.got = got, !.regs = regs]
             e == [data[s] EXCEPT !.got = {}, !.regs = regs]
  <2>1. todo # <<>> /\ Msg.type = "ServerList" /\ st[s] = "ListExchange"
    BY <1>7 DEF ProcessList, ListOK, Processing
  <2>2. data[s] \in Data /\ Msg.list.regs \in [Client -> Nat]
    BY <2>1, TurnOrdered, InvTypes, BodyFields
  <2>3. regs \in [Client -> Nat]
    BY <2>2, DataFields DEF Merge
  <2>4. \/ Stay(s, d)
        \/ Goto(s, "VerifyList", e, Tail(todo)) /\ signed' = signed \cup {verify}
    BY <1>7 DEF ProcessList
  <2> HIDE DEF regs, got
  <2>5. d.rid = data[s].rid /\ e.rid = data[s].rid /\ e.regs = regs
    BY <2>2 DEF Data
  <2>6. e \in Data
    BY <2>2, <2>3, DataUpdates, Constants
  <2>7. /\ verify.from = s /\ verify.list.regs = regs /\ verify.type # "ServerAgree"
        /\ regs # NoRegs => verify.list.rid = data[s].rid
    BY DEF ServerVerifyList, RegisterList
  <2> HIDE DEF d, e, verify
  <2>8. CASE Stay(s, d)
    BY <2>1, <2>5, <2>8, StayHistory
  <2>9. CASE Goto(s, "VerifyList", e, Tail(todo)) /\ signed' = signed \cup {verify}
    <3>1. Ready(s, "VerifyList", e)
      BY <2>1, <2>5, NowHistory DEF Historic, Ready
    <3>2. <<s, "VerifyList", data[s].rid, regs>> \in reached'
      BY <2>5, <2>9 DEF Goto
    <3> QED
      BY <2>6, <2>7, <2>9, <3>1, <3>2, GotoHistory
  <2> QED
    BY <2>4, <2>8, <2>9
<1>8. CASE ProcessVerifyList(s)
  <2> DEFINE got == data[s].got \cup {Head(todo).src}
             d == [data[s] EXCEPT !.got = got]
  <2>1. /\ st[s] = "VerifyList" /\ data[s] \in Data /\ Head(todo).src \in Server
    BY <1>8, InvTypes DEF ProcessVerifyList, VerifyListOK, Processing
  <2>2. got \in SUBSET Server
    BY <2>1, DataFields
  <2>3. Stay(s, d) \/ (Goto(s, "Communicating", d, Tail(todo)) /\ UNCHANGED signed)
    BY <1>8 DEF ProcessVerifyList
  <2>4. d.rid = data[s].rid /\ d.regs = data[s].regs
    BY <2>1 DEF Data
  <2> HIDE DEF got
  <2>5. d \in Data
    BY <2>1, <2>2, DataUpdates, Constants
  <2> HIDE DEF d
  <2>6. CASE Stay(s, d)
    BY <2>4, <2>6, StayHistory
  <2>7. CASE Goto(s, "Communicating", d, Tail(todo)) /\ UNCHANGED signed
    <3>1. <<s, "VerifyList", d.rid, d.regs>> \in reached
      BY <2>1, <2>4, NowHistory DEF Historic
    <3>2. Ready(s, "Communicating", d)
      BY <3>1 DEF Ready
    <3> QED
      BY <2>5, <2>7, <3>2, GotoHistory
  <2> QED
    BY <2>3, <2>6, <2>7
<1>9. CASE ProcessStop(s)
  <2>1. CASE UNCHANGED <<st, data, reached, signed>>
    BY <2>1, StillHistory
  <2>2. ASSUME NEW c, Restart(s, conn[s], c, Tail(todo)), UNCHANGED signed PROVE HistoryInv'
    BY <2>2, RestartHistory
  <2> QED
    BY <1>9, <2>1, <2>2 DEF ProcessStop
<1>10. CASE Drop(s)
  BY <1>10, StayHistory DEF Drop
<1> QED
  BY <1>1, <1>2, <1>3, <1>4, <1>5, <1>6, <1>7, <1>8, <1>9, <1>10 DEF Handle

LEMMA FinishClientRegisterHistory ==
  ASSUME Inv, Inv', HistoryInv, NEW s \in Server, FinishClientRegister(s)
  PROVE  HistoryInv'
<1> DEFINE d == [data[s] EXCEPT !.got = {}]
<1>1. st[s] = "Registering" /\ Goto(s, "ListExchange", d, <<>>) /\ UNCHANGED signed
  BY DEF FinishClientRegister
<1>2. data[s] \in Data
  BY InvTypes
<1>3. d.rid = data[s].rid
  BY <1>2 DEF Data
<1>4. d \in Data
  BY <1>2, DataUpdates, Constants
<1> HIDE DEF d
<1>5. Ready(s, "ListExchange", d)
  BY <1>1, <1>3, NowHistory DEF Historic, Ready
<1> QED
  BY <1>1, <1>4, <1>5, GotoHistory

LEMMA ConnectionHistory ==
  ASSUME Inv, Inv', HistoryInv, NEW s \in Server, NEW p, NEW cn, NEW c, UNCHANGED signed,
         HandleConnection(s, cn, c) \/ HandleDisconnection(s, p, cn, c)
  PROVE  HistoryInv'
<1>1. Restart(s, cn, c, <<>>) \/ UNCHANGED <<st, data, reached>>
  BY DEF HandleConnection, HandleDisconnection, DefaultHandleDisconnection,
         InitHandleDisconnection, CommHandleDisconnection
<1> QED
  BY <1>1, RestartHistory, StillHistory

LEMMA NextHistory == Inv /\ OrderInv /\ HistoryInv /\ [Next]_vars => HistoryInv'
<1> SUFFICES ASSUME Inv, Inv', OrderInv, HistoryInv, [Next]_vars PROVE HistoryInv'
  BY NextInv
<1>1. CASE UNCHANGED <<st, data, reached, signed>>
  BY <1>1, StillHistory
<1>2. ASSUME NEW s \in Server, Start(s) \/ RoundFinished(s) PROVE HistoryInv'
  BY <1>2, RestartHistory DEF Start, RoundFinished
<1>3. ASSUME NEW a \in Server, NEW b \in Server,
             NewEdge(a, b) \/ BreakEdge(a, b) \/ Receive(a, b) \/ ForwardedData(a, b)
      PROVE  HistoryInv'
  BY <1>1, <1>3 DEF NewEdge, BreakEdge, Receive, ForwardedData, machine
<1>4. ASSUME NEW a \in Server, NEW b \in Server,
             BindEdge(a, b) \/ ReceiveConnect(a, b)
      PROVE  HistoryInv'
  BY <1>4, ConnectionHistory DEF BindEdge, ReceiveConnect
<1>5. ASSUME NEW a \in Server, NEW b \in Server, ReceiveClosed(a, b)
      PROVE  HistoryInv'
  BY <1>1, <1>5, ConnectionHistory DEF ReceiveClosed
<1>6. ASSUME NEW s, NEW c, NEW r, Register(s, c, r) PROVE HistoryInv'
  BY <1>1, <1>6 DEF Register, machine
<1>7. CASE System
  BY <1>2, <1>3, <1>4, <1>5, <1>7, HandleHistory, FinishClientRegisterHistory DEF System
<1>8. CASE Environment
  BY <1>2, <1>3, <1>6, <1>8 DEF Environment
<1> QED
  BY <1>1, <1>7, <1>8 DEF Next, vars, machine

LEMMA SpecHistory == Spec => [](Inv /\ OrderInv /\ HistoryInv)
<1>1. Init => HistoryInv
  BY DEF Init, HistoryInv, Historic, OneList, SignedLists, ListsSigned, OneAgree,
         SignedRounds, RoundsSigned, Queued
<1>2. Init => Inv /\ OrderInv /\ HistoryInv
  BY <1>1, InitInv, InitOrder
<1>3. Inv /\ OrderInv /\ HistoryInv /\ [Next]_vars => (Inv /\ OrderInv /\ HistoryInv)'
  BY NextInv, NextOrder, NextHistory
<1> QED
  BY <1>2, <1>3, PTL DEF Spec

-----------------------------------------------------------------------------
(* The theorems *)

\* Server s goes to state T.
Moved(s, T) ==
  /\ st' = [st EXCEPT ![s] = T]
  /\ data' = [data EXCEPT ![s] = data'[s]]
  /\ reached' = reached \cup {<<s, T, data'[s].rid, data'[s].regs>>}

\* A step leaves all servers where they are, or one goes to another state.  It
\* begins to take registrations for the round it has just agreed on, and runs the
\* round whose list it has just verified.
Steady == UNCHANGED <<st, reached>> /\ \A t \in Server : data'[t].rid = data[t].rid
Step ==
  Steady \/ \E s \in Server, T \in States :
              /\ Moved(s, T)
              /\ T = "Registering" => st[s] = "Agree" /\ data'[s].rid = data[s].rid
              /\ T = "Communicating" => st[s] = "VerifyList" /\ data'[s].rid = data[s].rid

LEMMA GotoStep ==
  ASSUME Inv, NEW s \in Server, NEW T \in States, NEW d, NEW rest, Goto(s, T, d, rest),
         T = "Registering" => st[s] = "Agree" /\ d.rid = data[s].rid,
         T = "Communicating" => st[s] = "VerifyList" /\ d.rid = data[s].rid
  PROVE  Step
<1>1. data'[s] = d
  BY InvTypes DEF Goto
<1>2. Moved(s, T)
  BY <1>1 DEF Goto, Moved
<1> QED
  BY <1>1, <1>2 DEF Step

LEMMA NextStep == Inv /\ [Next]_vars => Step
<1> SUFFICES ASSUME Inv, [Next]_vars PROVE Step
  OBVIOUS
<1>1. data \in [Server -> Data]
  BY InvTypes
<1>2. ASSUME UNCHANGED <<st, reached, data>> PROVE Step
  BY <1>2 DEF Step, Steady
<1>3. ASSUME NEW t \in Server, NEW d, Stay(t, d), d.rid = data[t].rid PROVE Step
  BY <1>1, <1>3 DEF Stay, Step, Steady
<1>4. ASSUME NEW t \in Server, NEW T \in States, NEW d, NEW rest, Goto(t, T, d, rest),
             T \notin {"Registering", "Communicating"}
      PROVE  Step
  BY <1>4, GotoStep
<1>5. ASSUME NEW t \in Server, NEW cn, NEW c, NEW rest, Restart(t, cn, c, rest) PROVE Step
  <2> DEFINE T == IF cn = Server THEN "Init" ELSE "WaitingForServers"
  <2>1. T \in States \ {"Registering", "Communicating"}
    BY DEF States
  <2>2. "Enlist" \in States
    BY DEF States
  <2> HIDE DEF T
  <2> QED
    BY <1>4, <1>5, <2>1, <2>2 DEF Restart, T
<1>6. ASSUME NEW t \in Server, Handle(t) PROVE Step
  <2>1. \A d \in Data : \A x, y :
          /\ [d EXCEPT !.keys = x].rid = d.rid /\ [d EXCEPT !.got = x].rid = d.rid
          /\ [d EXCEPT !.got = x, !.regs = y].rid = d.rid /\ [d EXCEPT !.regs = y].rid = d.rid
    BY DEF Data
  <2>2. ASSUME NEW keys, EnterAgree(t, keys) PROVE Step
    BY <1>4, <2>2 DEF EnterAgree, States
  <2>3. CASE StoreMessage(t)
    BY <1>2, <2>3 DEF StoreMessage
  <2>4. CASE ProcessInit(t)
    BY <1>4, <2>4 DEF ProcessInit, States
  <2>5. CASE ProcessEnlist(t) \/ ProcessEnlisted(t)
    BY <1>1, <1>3, <2>1, <2>2, <2>5 DEF ProcessEnlist, ProcessEnlisted
  <2>6. CASE ProcessAgree(t)
    <3> DEFINE d == [data[t] EXCEPT !.got = data[t].got \cup {Msg.from}]
               e == [data[t] EXCEPT !.got = {}, !.regs = NoRegs]
    <3>1. st[t] = "Agree" /\ (Stay(t, d) \/ Goto(t, "Registering", e, Tail(todo)))
      BY <2>6 DEF ProcessAgree, AgreeOK, Processing
    <3>2. d.rid = data[t].rid /\ e.rid = data[t].rid /\ "Registering" \in States
      BY <1>1, <2>1 DEF States
    <3> HIDE DEF d, e
    <3> QED
      BY <1>3, <3>1, <3>2, GotoStep
  <2>7. CASE ProcessRegister(t)
    <3> DEFINE d == [data[t] EXCEPT !.regs[Msg.from] = Msg.key]
    <3>1. Stay(t, d) /\ d.rid = data[t].rid
      BY <1>1, <2>7 DEF ProcessRegister, Data
    <3> HIDE DEF d
    <3> QED
      BY <1>3, <3>1
  <2>8. CASE ProcessList(t)
    <3> DEFINE got == data[t].got \cup {Head(todo).src}
               regs == Merge(data[t].regs, Msg.list.regs)
               d == [data[t] EXCEPT !.got = got, !.regs = regs]
               e == [data[t] EXCEPT !.got = {}, !.regs = regs]
    <3>1. Stay(t, d) \/ Goto(t, "VerifyList", e, Tail(todo))
      BY <2>8 DEF ProcessList
    <3>2. d.rid = data[t].rid /\ "VerifyList" \in States
      BY <1>1, <2>1 DEF States
    <3> HIDE DEF d, e
    <3> QED
      BY <1>3, <1>4, <3>1, <3>2
  <2>9. CASE ProcessVerifyList(t)
    <3> DEFINE d == [data[t] EXCEPT !.got = data[t].got \cup {Head(todo).src}]
    <3>1. st[t] = "VerifyList" /\ (Stay(t, d) \/ Goto(t, "Communicating", d, Tail(todo)))
      BY <2>9 DEF ProcessVerifyList, VerifyListOK, Processing
    <3>2. d.rid = data[t].rid /\ "Communicating" \in States
      BY <1>1, <2>1 DEF States
    <3> HIDE DEF d
    <3> QED
      BY <1>3, <3>1, <3>2, GotoStep
  <2>10. CASE ProcessStop(t)
    BY <1>2, <1>5, <2>10 DEF ProcessStop
  <2>11. CASE Drop(t)
    BY <1>3, <2>11 DEF Drop
  <2> QED
    BY <1>6, <2>3, <2>4, <2>5, <2>6, <2>7, <2>8, <2>9, <2>10, <2>11 DEF Handle
<1>7. ASSUME NEW t \in Server, Start(t) \/ RoundFinished(t) PROVE Step
  BY <1>5, <1>7 DEF Start, RoundFinished
<1>8. ASSUME NEW t \in Server, FinishClientRegister(t) PROVE Step
  BY <1>4, <1>8 DEF FinishClientRegister, States
<1>9. ASSUME NEW t \in Server, NEW p, NEW cn, NEW c,
             HandleConnection(t, cn, c) \/ HandleDisconnection(t, p, cn, c)
      PROVE  Step
  BY <1>2, <1>5, <1>9 DEF HandleConnection, HandleDisconnection, DefaultHandleDisconnection,
         InitHandleDisconnection, CommHandleDisconnection
<1>10. ASSUME NEW a \in Server, NEW b \in Server,
              NewEdge(a, b) \/ BreakEdge(a, b) \/ Receive(a, b) \/ ForwardedData(a, b)
       PROVE  Step
  BY <1>2, <1>10 DEF NewEdge, BreakEdge, Receive, ForwardedData, machine
<1>11. ASSUME NEW a \in Server, NEW b \in Server,
              BindEdge(a, b) \/ ReceiveConnect(a, b) \/ ReceiveClosed(a, b)
       PROVE  Step
  BY <1>2, <1>9, <1>11 DEF BindEdge, ReceiveConnect, ReceiveClosed
<1>12. ASSUME NEW t, NEW c, NEW r, Register(t, c, r) PROVE Step
  BY <1>2, <1>12 DEF Register, machine
<1>13. CASE System
  BY <1>6, <1>7, <1>8, <1>10, <1>11, <1>13 DEF System
<1>14. CASE Environment
  BY <1>7, <1>10, <1>12, <1>14 DEF Environment
<1>15. CASE UNCHANGED vars
  BY <1>2, <1>15 DEF vars, machine
<1> QED
  BY <1>13, <1>14, <1>15 DEF Next

\* A server never goes back: when RegisteringState is entered for a round, every
\* round the server took registrations for before came from an earlier ServerInit.
THEOREM RoundsInOrder == Spec => RoundOrder
<1> DEFINE A == \A s \in Server :
                  st[s] # "Registering" /\ st'[s] = "Registering" =>
                    \A x \in reached : x[1] = s /\ x[2] \in Queued => x[3].n < data'[s].rid.n
<1>1. Inv /\ OrderInv /\ HistoryInv /\ [Next]_vars => A
  <2> SUFFICES ASSUME Inv, OrderInv, HistoryInv, [Next]_vars, NEW s \in Server,
                      st[s] # "Registering", st'[s] = "Registering",
                      NEW x \in reached, x[1] = s, x[2] \in Queued
               PROVE  x[3].n < data'[s].rid.n
    OBVIOUS
  <2>1. st[s] = "Agree" /\ data'[s].rid = data[s].rid
    BY NextStep, InvTypes DEF Step, Steady, Moved
  <2> QED
    BY <2>1, NowHistory DEF Historic, Before
<1>2. Inv /\ OrderInv /\ HistoryInv /\ [Next]_vars => [A]_vars
  BY <1>1
<1>3. RoundOrder <=> [][A]_vars
  BY DEF RoundOrder
<1> HIDE DEF A
<1> QED
  BY <1>2, <1>3, SpecHistory, PTL DEF Spec

LEMMA HistoryRoster == Inv /\ HistoryInv => RosterAgreement
<1> SUFFICES ASSUME Inv, HistoryInv, NEW x \in reached, NEW y \in reached,
                    x[2] = "Communicating", y[2] = "Communicating", x[3] = y[3]
             PROVE  x[4] = y[4]
  BY DEF RosterAgreement
<1>1. ASSUME NEW v \in reached, NEW w \in reached, v[2] = "Communicating",
             w[2] = "Communicating", v[3] = w[3], v[4] # NoRegs
      PROVE  v[4] = w[4]
  <2> DEFINE m == ServerVerifyList(w[1], RegisterList(v[3], v[4]))
  <2>1. w[1] \in Server
    BY InvTypes
  <2>2. m \in signed /\ <<w[1], "VerifyList", w[3], w[4]>> \in reached
    BY <1>1, <2>1 DEF HistoryInv, SignedLists
  <2>3. /\ m.type = "ServerVerifyList" /\ m.from = w[1]
        /\ m.list.rid = v[3] /\ m.list.regs = v[4]
    BY <1>1 DEF ServerVerifyList, RegisterList
  <2> HIDE DEF m
  <2>4. <<w[1], "VerifyList", v[3], v[4]>> \in reached
    BY <1>1, <2>2, <2>3 DEF HistoryInv, ListsSigned
  <2> DEFINE f == <<w[1], "VerifyList", v[3], v[4]>>
             g == <<w[1], "VerifyList", w[3], w[4]>>
  <2>5. /\ f[1] = g[1] /\ f[2] = "VerifyList" /\ g[2] = "VerifyList"
        /\ f[3] = g[3] /\ f[4] = v[4] /\ g[4] = w[4] /\ f \in reached /\ g \in reached
    BY <1>1, <2>2, <2>4
  <2> HIDE DEF f, g
  <2> QED
    BY <2>5 DEF HistoryInv, OneList
<1> QED
  BY <1>1

\* Servers that run the same round (CommState) run it with the same clients and
\* client keys: the signatures VerifyListState collects are on one list, because no
\* server enters VerifyListState twice for a round.
THEOREM RostersAgree == Spec => []RosterAgreement
  BY HistoryRoster, SpecHistory, PTL

\* One ServerInit leads to at most one RoundId: RegisteringState is entered with every
\* server's agreement, and no server enters AgreeState twice for a ServerInit.
THEOREM OneRound == Spec => []OneRoundPerInit
<1>1. Inv /\ HistoryInv => OneRoundPerInit
  <2> SUFFICES ASSUME Inv, HistoryInv, NEW x \in reached, NEW y \in reached,
                      x[2] \in Queued, y[2] \in Queued, x[3].n = y[3].n
               PROVE  x[3] = y[3]
    BY DEF OneRoundPerInit
  <2>1. ASSUME NEW v \in reached, v[2] \in Queued
        PROVE  \E w \in reached : w[1] = Proposer /\ w[2] = "Agree" /\ w[3] = v[3]
    <3> DEFINE m == ServerAgree(Proposer, v[3], v[3].keys[Proposer])
    <3>1. m \in signed
      BY <2>1, ServerAssumption DEF HistoryInv, SignedRounds
    <3>2. m.type = "ServerAgree" /\ m.from = Proposer /\ m.rid = v[3]
      BY DEF ServerAgree
    <3> HIDE DEF m
    <3> QED
      BY <3>1, <3>2 DEF HistoryInv, RoundsSigned
  <2>2. PICK v \in reached : v[1] = Proposer /\ v[2] = "Agree" /\ v[3] = x[3]
    BY <2>1
  <2>3. PICK w \in reached : w[1] = Proposer /\ w[2] = "Agree" /\ w[3] = y[3]
    BY <2>1
  <2> QED
    BY <2>2, <2>3 DEF HistoryInv, OneAgree
<1> QED
  BY <1>1, SpecHistory, PTL

LEMMA HistoryRosterNext == Inv' /\ HistoryInv' => RosterAgreement'
  BY HistoryRoster, PTL

\* A server that goes to Communicating begins a round, one that leaves it ends one,
\* and no other step of the servers shows.
LEMMA StepService ==
  ASSUME Inv, OrderInv, HistoryInv, RosterAgreement', Step
  PROVE  Service!Next \/ UNCHANGED Service!vars
<1> DEFINE run == [s \in Server |-> IF st[s] = "Communicating" THEN data[s].rid ELSE NoRound]
           begun == {<<x[1], x[3], x[4]>> : x \in {y \in reached : y[2] = "Communicating"}}
<1>1. st \in [Server -> States] /\ data \in [Server -> Data]
  BY InvTypes
<1>2. CASE Steady
  <2>1. run' = run /\ begun' = begun
    BY <1>2 DEF Steady
  <2> QED
    BY <2>1 DEF Service!vars
<1>3. ASSUME NEW s \in Server, NEW T \in States, Moved(s, T), T # "Communicating"
      PROVE  Service!Next \/ UNCHANGED Service!vars
  <2>1. begun' = begun
    BY <1>3 DEF Moved
  <2>2. run' = [run EXCEPT ![s] = NoRound]
    BY <1>1, <1>3 DEF Moved
  <2>3. CASE st[s] # "Communicating"
    <3>1. run' = run
      BY <2>2, <2>3
    <3> QED
      BY <2>1, <3>1 DEF Service!vars
  <2>4. CASE st[s] = "Communicating"
    <3>1. 0 < data[s].init /\ data[s].rid.n = data[s].init
      BY <2>4 DEF OrderInv, Numbered, Queued
    <3>2. data[s].init \in Nat
      BY <1>1, DataFields
    <3>3. run[s] # NoRound
      BY <2>4, <3>1, <3>2 DEF NoRound, NonceId
    <3> QED
      BY <2>1, <2>2, <3>3 DEF Service!Next, Service!End
  <2> QED
    BY <2>3, <2>4
<1>4. ASSUME NEW s \in Server, Moved(s, "Communicating"), st[s] = "VerifyList",
             data'[s].rid = data[s].rid
      PROVE  Service!Next
  <2> DEFINE r == data'[s].rid
             l == data'[s].regs
             z == <<s, "Communicating", r, l>>
             b == <<s, r, l>>
  <2>1. run[s] = NoRound
    BY <1>4
  <2>2. run' = [run EXCEPT ![s] = r]
    BY <1>1, <1>4 DEF Moved
  <2>3. reached' = reached \cup {z} /\ z[1] = s /\ z[2] = "Communicating" /\ z[3] = r /\ z[4] = l
    BY <1>4 DEF Moved
  <2>4. b[1] = s /\ b[2] = r /\ b[3] = l /\ b = <<z[1], z[3], z[4]>>
    OBVIOUS
  <2> HIDE DEF r, l, z, b
  <2>5. begun' = begun \cup {b}
    BY <2>3, <2>4
  <2>6. Before(s, {"Communicating"}, r.n)
    BY <1>4, NowHistory DEF Historic, r
  <2>7. r.n \in Nat /\ \A n \in Nat : ~(n < n)
    BY <1>1, <1>4, DataFields DEF RoundId, r
  <2>8. ASSUME NEW y \in begun
        PROVE  /\ y[2] = b[2] => y[3] = b[3]
               /\ y[1] = s => Number(y[2]) < Number(b[2])
    <3>1. PICK x \in reached : x[2] = "Communicating" /\ y = <<x[1], x[3], x[4]>>
      OBVIOUS
    <3>2. y[1] = x[1] /\ y[2] = x[3] /\ y[3] = x[4]
      BY <3>1
    <3>3. x[3] = z[3] => x[4] = z[4]
      BY <2>3, <3>1 DEF RosterAgreement
    <3>4. x[1] = s => x[3].n < r.n
      BY <2>6, <3>1 DEF Before
    <3> QED
      BY <2>3, <2>4, <3>2, <3>3, <3>4 DEF Number
  <2>9. b \in begun' \ begun
    <3>1. b \notin begun
      BY <2>4, <2>7, <2>8 DEF Number
    <3> QED
      BY <2>5, <3>1
  <2> HIDE DEF run, begun
  <2>10. \E x \in begun' \ begun :
           /\ run[s] = NoRound
           /\ x[1] = s
           /\ \A y \in begun : /\ y[2] = x[2] => y[3] = x[3]
                               /\ y[1] = s => Number(y[2]) < Number(x[2])
           /\ run' = [run EXCEPT ![s] = x[2]]
           /\ begun' = begun \cup {x}
    BY <2>1, <2>2, <2>4, <2>5, <2>8, <2>9
  <2> QED
    BY <2>10 DEF Service!Next, Service!Begin, run, begun
<1> QED
  BY <1>2, <1>3, <1>4 DEF Step

\* The servers' session layer implements RoundService, which is all that a round and
\* the code around it see of how CommState is reached and left.
THEOREM ImplementsService == Spec => ServiceSpec
<1>1. Init => Service!Init
  BY DEF Init, Service!Init
<1>2. Inv /\ OrderInv /\ HistoryInv /\ [Next]_vars => [Service!Next]_(Service!vars)
  BY NextInv, NextHistory, HistoryRosterNext, NextStep, StepService
<1> QED
  BY <1>1, <1>2, SpecHistory, PTL DEF Spec, ServiceSpec, Service!Spec

-----------------------------------------------------------------------------
(* The packets under way are in a set P.  A step keeps them there when P has *)
(* the packets about keys that the step makes, and every other packet.       *)

Pkt(s, d, m) == [src |-> s, dst |-> d, body |-> m]
KeyTypes == {"ServerInit", "ServerEnlist", "ServerEnlisted"}

PacketsIn(W, q, c, P) ==
  /\ W \in [Server -> Seq(P)]
  /\ q \in Seq(P)
  /\ c \in [Server -> [Server -> Seq(P)]]

Others(P) == \A p \in Packet : p.body.type \notin KeyTypes => p \in P
Opens(P) ==
  initCount' # initCount => \A s, d \in Server : Pkt(s, d, ServerInit(initCount')) \in P
Enlists(P) ==
  \A s, d \in Server :
    data'[s].eph # data[s].eph =>
      Pkt(s, d, ServerEnlist(s, data'[s].init, data'[s].eph)) \in P
Enlisted(P) ==
  \A s, d \in Server :
    st[s] # "Agree" /\ st'[s] = "Agree" =>
      Pkt(s, d, ServerEnlisted(s, data'[s].init, data'[s].keys)) \in P
Admits(P) == Others(P) /\ Opens(P) /\ Enlists(P) /\ Enlisted(P)

LEMMA OtherIn ==
  ASSUME NEW P, Others(P), NEW s \in Server \cup Client, NEW d \in Server, NEW m \in Body,
         m.type \notin KeyTypes
  PROVE  Pkt(s, d, m) \in P
<1>1. Pkt(s, d, m) \in Packet /\ Pkt(s, d, m).body = m
  BY DEF Pkt, Packet
<1> QED
  BY <1>1 DEF Others

LEMMA OnEdgeIn ==
  ASSUME NEW s \in Server, NEW cn \in SUBSET Server, NEW b \in Server, NEW P,
         NEW out, DOMAIN out \subseteq Server, \A d \in DOMAIN out : Pkt(s, d, out[d]) \in P
  PROVE  OnEdge(s, cn, b, out) \in Seq(P)
<1> DEFINE S == {d \in DOMAIN out : Via(s, cn, d, b)}
           q == InOrder(S)
<1>1. IsFiniteSet(S)
  BY FS_Subset, ServerAssumption
<1>2. q \in [1..Cardinality(S) -> S] /\ Cardinality(S) \in Nat
  BY <1>1, InOrderType
<1>3. \A d \in S : d \in DOMAIN out
  OBVIOUS
<1> HIDE DEF q
<1>4. CASE b \in cn /\ Up(s, b)
  <2>1. OnEdge(s, cn, b, out) = [i \in DOMAIN q |-> Pkt(s, q[i], out[q[i]])]
    BY <1>4 DEF OnEdge, q, Pkt
  <2> HIDE DEF S
  <2>2. \A i \in DOMAIN q : q[i] \in DOMAIN out
    BY <1>2, <1>3
  <2>3. [i \in DOMAIN q |-> Pkt(s, q[i], out[q[i]])] \in [1..Cardinality(S) -> P]
    BY <2>2, <1>2
  <2> QED
    BY <2>1, <2>3, <1>2, FunIsSeq
<1>5. CASE ~(b \in cn /\ Up(s, b))
  BY <1>5 DEF OnEdge
<1> QED
  BY <1>4, <1>5

LEMMA SentIn ==
  ASSUME NEW P, NEW c \in [Server -> [Server -> Seq(P)]], NEW s \in Server,
         NEW cn \in SUBSET Server,
         NEW out, DOMAIN out \subseteq Server, \A d \in DOMAIN out : Pkt(s, d, out[d]) \in P
  PROVE  Sent(c, s, cn, out) \in [Server -> [Server -> Seq(P)]]
<1>1. \A b \in Server : c[s][b] \o OnEdge(s, cn, b, out) \in Seq(P)
  <2> TAKE b \in Server
  <2>1. c[s][b] \in Seq(P)
    OBVIOUS
  <2>2. OnEdge(s, cn, b, out) \in Seq(P)
    BY OnEdgeIn
  <2> QED
    BY <2>1, <2>2, ConcatType
<1> QED
  BY <1>1 DEF Sent

\* To whom a server sends.
LEMMA SendsIn ==
  ASSUME NEW P, NEW c \in [Server -> [Server -> Seq(P)]], NEW s \in Server,
         NEW cn \in SUBSET Server, NEW m, \A d \in Server : Pkt(s, d, m) \in P
  PROVE  /\ Sent(c, s, cn, ToOthers(m)) \in [Server -> [Server -> Seq(P)]]
         /\ Sent(c, s, cn, ToProposer(m)) \in [Server -> [Server -> Seq(P)]]
         /\ Sent(c, s, cn, ToServers(m)) \in [Server -> [Server -> Seq(P)]]
<1> DEFINE Fits(out) == DOMAIN out \subseteq Server /\ \A d \in DOMAIN out : Pkt(s, d, out[d]) \in P
<1>1. ASSUME NEW out, Fits(out) PROVE Sent(c, s, cn, out) \in [Server -> [Server -> Seq(P)]]
  BY <1>1, SentIn
<1>2. Fits(ToOthers(m)) /\ Fits(ToProposer(m)) /\ Fits(ToServers(m))
  BY ServerAssumption DEF ToOthers, ToProposer, ToServers
<1> HIDE DEF Fits
<1> QED
  BY <1>1, <1>2

LEMMA SendsMineIn ==
  ASSUME NEW P, NEW c \in [Server -> [Server -> Seq(P)]], NEW s \in Server,
         NEW cn \in SUBSET Server, NEW m, \A d \in Server : Pkt(s, d, m) \in P,
         NEW out, out = [t \in cn |-> m] \/ out = ToServers(m)
  PROVE  Sent(c, s, cn, out) \in [Server -> [Server -> Seq(P)]]
<1>1. DOMAIN out \subseteq Server
  BY DEF ToServers
<1>2. \A d \in DOMAIN out : Pkt(s, d, out[d]) \in P
  BY DEF ToServers
<1> QED
  BY <1>1, <1>2, SentIn

LEMMA GotoIn ==
  ASSUME NEW P, PacketsIn(storage, todo, chan, P), NEW s \in Server, NEW T, NEW d,
         NEW rest \in Seq(P), Goto(s, T, d, rest),
         chan' \in [Server -> [Server -> Seq(P)]]
  PROVE  PacketsIn(storage', todo', chan', P)
<1>1. storage[s] \o rest \in Seq(P)
  BY ConcatType DEF PacketsIn
<1>2. storage' \in [Server -> Seq(P)]
  BY DEF PacketsIn, Goto
<1> QED
  BY <1>1, <1>2 DEF PacketsIn, Goto

LEMMA EnlistingFields ==
  ASSUME NEW d \in Data, NEW n \in Nat
  PROVE  /\ Enlisting(d, n).init = n /\ Enlisting(d, n).eph = d.eph + 1
         /\ Enlisting(d, n).keys = NoKeys /\ Enlisting(d, n).eph # d.eph
<1>1. Enlisting(d, n).init = n /\ Enlisting(d, n).eph = d.eph + 1
      /\ Enlisting(d, n).keys = NoKeys
  BY DEF Enlisting, Data
<1>2. d.eph \in Nat
  BY DEF Data
<1> QED
  BY <1>1, <1>2

LEMMA RestartIn ==
  ASSUME Inv, NEW P, Opens(P), Enlists(P), NEW s \in Server, NEW cn \in SUBSET Server,
         NEW c \in [Server -> [Server -> Seq(P)]], PacketsIn(storage, todo, chan, P),
         NEW rest \in Seq(P), Restart(s, cn, c, rest)
  PROVE  PacketsIn(storage', todo', chan', P)
<1> DEFINE d == Reset(data[s])
           n == initCount + 1
           f == Enlisting(d, n)
           opened == Sent(c, s, cn, ToOthers(ServerInit(n)))
<1>1. /\ data \in [Server -> Data] /\ d \in Data /\ n \in Nat /\ n # initCount
      /\ d.eph = data[s].eph
  BY ResetType DEF Inv, Running, Reset
<1>2. CASE cn = Server /\ s = Proposer
  <2>1. /\ Goto(s, "Enlist", f, rest)
        /\ initCount' = n
        /\ chan' = Sent(opened, s, cn, ToProposer(ServerEnlist(s, n, f.eph)))
    BY <1>2 DEF Restart, NewNonce
  <2>2. f.init = n /\ f.eph # data[s].eph
    <3> HIDE DEF d, n
    <3> QED
      BY <1>1, EnlistingFields
  <2>3. data'[s] = f
    BY <2>1, <1>1 DEF Goto
  <2> HIDE DEF f, n
  <2>4. \A t \in Server : Pkt(s, t, ServerInit(n)) \in P
    BY <2>1, <1>1 DEF Opens
  <2>5. \A t \in Server : Pkt(s, t, ServerEnlist(s, n, f.eph)) \in P
    BY <2>2, <2>3 DEF Enlists
  <2>6. opened \in [Server -> [Server -> Seq(P)]]
    BY <2>4, SendsIn
  <2> HIDE DEF opened
  <2>7. chan' \in [Server -> [Server -> Seq(P)]]
    BY <2>1, <2>5, <2>6, SendsIn
  <2> QED
    BY <2>1, <2>7, GotoIn
<1>3. CASE ~(cn = Server /\ s = Proposer)
  <2> DEFINE T == IF cn = Server THEN "Init" ELSE "WaitingForServers"
  <2>1. Goto(s, T, d, rest) /\ chan' = c
    BY <1>3 DEF Restart
  <2> HIDE DEF T, d
  <2> QED
    BY <2>1, GotoIn
<1> QED
  BY <1>2, <1>3

-----------------------------------------------------------------------------
(* The message handlers *)

LEMMA TailIn ==
  ASSUME NEW P, PacketsIn(storage, todo, chan, P), todo # <<>>
  PROVE  Head(todo) \in P /\ Tail(todo) \in Seq(P)
  BY HeadTail DEF PacketsIn

LEMMA StayIn ==
  ASSUME NEW P, PacketsIn(storage, todo, chan, P), todo # <<>>, NEW s, NEW d, Stay(s, d)
  PROVE  PacketsIn(storage', todo', chan', P)
  BY TailIn DEF PacketsIn, Stay

LEMMA StoreMessageIn ==
  ASSUME NEW P, PacketsIn(storage, todo, chan, P), NEW s \in Server, StoreMessage(s)
  PROVE  PacketsIn(storage', todo', chan', P)
<1>1. Append(storage[s], Head(todo)) \in Seq(P) /\ Tail(todo) \in Seq(P)
  BY TailIn DEF PacketsIn, StoreMessage
<1>2. storage' \in [Server -> Seq(P)]
  BY <1>1 DEF StoreMessage, PacketsIn
<1> QED
  BY <1>1, <1>2 DEF StoreMessage, PacketsIn

LEMMA ProcessInitIn ==
  ASSUME Inv, NEW P, PacketsIn(storage, todo, chan, P), Enlists(P),
         NEW s \in Server, ProcessInit(s)
  PROVE  PacketsIn(storage', todo', chan', P)
<1> DEFINE d == Enlisting(data[s], Msg.n)
           m == ServerEnlist(s, d.init, d.eph)
<1>1. /\ todo # <<>> /\ Msg.type = "ServerInit" /\ Goto(s, "Enlist", d, Tail(todo))
      /\ chan' = Sent(chan, s, conn[s], ToProposer(m))
  BY DEF ProcessInit, Processing
<1>2. Msg.n \in Nat /\ data \in [Server -> Data] /\ conn[s] \in SUBSET Server
  BY <1>1, MsgType, BodyFields DEF Inv, Running, Resting
<1>3. d.eph # data[s].eph
  BY <1>2, EnlistingFields
<1>4. data'[s] = d
  BY <1>1, <1>2 DEF Goto
<1> HIDE DEF d
<1>5. \A t \in Server : Pkt(s, t, m) \in P
  BY <1>3, <1>4 DEF Enlists
<1> HIDE DEF m
<1>6. chan' \in [Server -> [Server -> Seq(P)]]
  BY <1>1, <1>2, <1>5, SendsIn DEF PacketsIn
<1> QED
  BY <1>1, <1>6, TailIn, GotoIn

LEMMA EnterAgreeIn ==
  ASSUME Inv, NEW P, PacketsIn(storage, todo, chan, P), Others(P), Enlisted(P),
         NEW s \in Server, NEW keys \in [Server -> Nat], todo # <<>>, st[s] # "Agree",
         EnterAgree(s, keys)
  PROVE  PacketsIn(storage', todo', chan', P)
<1> DEFINE d == Agreeing(data[s], keys)
           agree == ServerAgree(s, d.rid, d.eph)
           m == ServerEnlisted(s, d.init, keys)
           enlisted == Sent(chan, s, conn[s], ToOthers(m))
<1>1. /\ Goto(s, "Agree", d, Tail(todo))
      /\ chan' = Sent(enlisted, s, conn[s], ToServers(agree))
  BY DEF EnterAgree
<1>2. data \in [Server -> Data] /\ st \in [Server -> States] /\ conn[s] \in SUBSET Server
  BY DEF Inv, Running, Resting
<1>3. HashEnlists(data[s].init, keys) \in RoundId
  BY <1>2, DataFields DEF HashEnlists, RoundId
<1>4. d \in Data
  BY <1>2, <1>3, DataUpdates, Constants DEF Agreeing
<1>5. d.keys = keys
  BY <1>2 DEF Agreeing, Data
<1>6. data'[s] = d /\ st'[s] = "Agree"
  BY <1>1, <1>2 DEF Goto
<1> HIDE DEF d
<1>7. \A t \in Server : Pkt(s, t, m) \in P
  BY <1>5, <1>6 DEF Enlisted
<1>8. \A t \in Server : Pkt(s, t, agree) \in P
  <2>1. agree \in Body
    BY <1>4, DataFields DEF ServerAgree, Body
  <2>2. agree.type \notin KeyTypes
    BY DEF ServerAgree, KeyTypes
  <2> HIDE DEF agree
  <2> QED
    BY <2>1, <2>2, OtherIn
<1> HIDE DEF m, agree
<1>9. enlisted \in [Server -> [Server -> Seq(P)]]
  BY <1>2, <1>7, SendsIn DEF PacketsIn
<1> HIDE DEF enlisted
<1>10. chan' \in [Server -> [Server -> Seq(P)]]
  BY <1>1, <1>2, <1>8, <1>9, SendsIn
<1> QED
  BY <1>1, <1>10, TailIn, GotoIn

LEMMA ProcessEnlistIn ==
  ASSUME Inv, NEW P, PacketsIn(storage, todo, chan, P), Others(P), Enlisted(P),
         NEW s \in Server, ProcessEnlist(s) \/ ProcessEnlisted(s)
  PROVE  PacketsIn(storage', todo', chan', P)
<1> DEFINE keys == [data[s].keys EXCEPT ![Msg.from] = Msg.key]
           d == [data[s] EXCEPT !.keys = keys]
<1>1. todo # <<>> /\ st[s] # "Agree"
  BY DEF ProcessEnlist, EnlistOK, ProcessEnlisted, EnlistedOK, Processing
<1>2. CASE ProcessEnlist(s)
  <2>1. Msg.type = "ServerEnlist" /\ (Stay(s, d) \/ EnterAgree(s, keys))
    BY <1>2 DEF ProcessEnlist, EnlistOK, Processing
  <2>2. data[s] \in Data /\ Msg.from \in Server /\ Msg.key \in Nat
    BY <1>1, <2>1, MsgType, BodyFields DEF Inv, Running
  <2>3. keys \in [Server -> Nat]
    BY <2>2, DataFields
  <2> HIDE DEF d, keys
  <2> QED
    BY <1>1, <2>1, <2>3, StayIn, EnterAgreeIn
<1>3. CASE ProcessEnlisted(s)
  <2>1. Msg.type = "ServerEnlisted" /\ EnterAgree(s, Msg.keys)
    BY <1>3 DEF ProcessEnlisted, EnlistedOK, Processing
  <2>2. Msg.keys \in [Server -> Nat]
    BY <1>1, <2>1, MsgType, BodyFields DEF Inv, Running
  <2> QED
    BY <1>1, <2>1, <2>2, EnterAgreeIn
<1> QED
  BY <1>2, <1>3

LEMMA ProcessAgreeIn ==
  ASSUME NEW P, PacketsIn(storage, todo, chan, P), NEW s \in Server, ProcessAgree(s)
  PROVE  PacketsIn(storage', todo', chan', P)
<1> DEFINE d == [data[s] EXCEPT !.got = data[s].got \cup {Msg.from}]
           e == [data[s] EXCEPT !.got = {}, !.regs = NoRegs]
<1>1. /\ todo # <<>>
      /\ Stay(s, d) \/ (Goto(s, "Registering", e, Tail(todo)) /\ UNCHANGED chan)
  BY DEF ProcessAgree, AgreeOK, Processing
<1> HIDE DEF d, e
<1>2. chan \in [Server -> [Server -> Seq(P)]]
  BY DEF PacketsIn
<1> QED
  BY <1>1, <1>2, StayIn, GotoIn, TailIn

LEMMA ProcessRegisterIn ==
  ASSUME NEW P, PacketsIn(storage, todo, chan, P), NEW s \in Server, ProcessRegister(s)
  PROVE  PacketsIn(storage', todo', chan', P)
<1> DEFINE d == [data[s] EXCEPT !.regs[Msg.from] = Msg.key]
<1>1. todo # <<>> /\ Stay(s, d)
  BY DEF ProcessRegister, RegisterOK, Processing
<1> HIDE DEF d
<1> QED
  BY <1>1, StayIn

LEMMA FinishClientRegisterIn ==
  ASSUME Inv, NEW P, PacketsIn(storage, todo, chan, P), Others(P),
         NEW s \in Server, FinishClientRegister(s)
  PROVE  PacketsIn(storage', todo', chan', P)
<1> DEFINE d == [data[s] EXCEPT !.got = {}]
           m == ServerList(RegisterList(data[s].rid, data[s].regs))
<1>1. Goto(s, "ListExchange", d, <<>>) /\ chan' = Sent(chan, s, conn[s], ToServers(m))
  BY DEF FinishClientRegister
<1>2. m \in Body /\ m.type \notin KeyTypes
  <2>1. RegisterList(data[s].rid, data[s].regs) \in RegisterLists
    BY DataFields, Constants DEF Inv, Running
  <2> QED
    BY <2>1 DEF ServerList, Body, KeyTypes
<1>3. conn[s] \in SUBSET Server /\ <<>> \in Seq(P)
  BY DEF Inv, Resting
<1> HIDE DEF d, m
<1>4. \A t \in Server : Pkt(s, t, m) \in P
  BY <1>2, OtherIn
<1>5. chan' \in [Server -> [Server -> Seq(P)]]
  BY <1>1, <1>3, <1>4, SendsIn DEF PacketsIn
<1> QED
  BY <1>1, <1>3, <1>5, GotoIn

LEMMA ProcessListIn ==
  ASSUME Inv, NEW P, PacketsIn(storage, todo, chan, P), Others(P),
         NEW s \in Server, ProcessList(s)
  PROVE  PacketsIn(storage', todo', chan', P)
<1> DEFINE got == data[s].got \cup {Head(todo).src}
           regs == Merge(data[s].regs, Msg.list.regs)
           l == RegisterList(data[s].rid, regs)
           m == ServerVerifyList(s, l)
           d == [data[s] EXCEPT !.got = got, !.regs = regs]
           e == [data[s] EXCEPT !.got = {}, !.regs = regs]
<1>1. /\ todo # <<>> /\ Msg.type = "ServerList"
      /\ \/ Stay(s, d)
         \/ Goto(s, "VerifyList", e, Tail(todo)) /\ chan' = Sent(chan, s, conn[s], ToServers(m))
  BY DEF ProcessList, ListOK, Processing
<1>2. data[s] \in Data /\ Msg.list.regs \in [Client -> Nat] /\ conn[s] \in SUBSET Server
  BY <1>1, MsgType, BodyFields DEF Inv, Running, Resting
<1>3. regs \in [Client -> Nat]
  BY <1>2, DataFields DEF Merge
<1> HIDE DEF regs
<1>4. l \in RegisterLists
  BY <1>2, <1>3, DataFields, Constants
<1> HIDE DEF l, d, e
<1>5. m \in Body /\ m.type \notin KeyTypes
  BY <1>4 DEF ServerVerifyList, Body, KeyTypes
<1> HIDE DEF m
<1>6. \A t \in Server : Pkt(s, t, m) \in P
  BY <1>5, OtherIn
<1>7. Sent(chan, s, conn[s], ToServers(m)) \in [Server -> [Server -> Seq(P)]]
  BY <1>2, <1>6, SendsIn DEF PacketsIn
<1> QED
  BY <1>1, <1>7, StayIn, GotoIn, TailIn

LEMMA ProcessVerifyListIn ==
  ASSUME NEW P, PacketsIn(storage, todo, chan, P), NEW s \in Server, ProcessVerifyList(s)
  PROVE  PacketsIn(storage', todo', chan', P)
<1> DEFINE d == [data[s] EXCEPT !.got = data[s].got \cup {Head(todo).src}]
<1>1. /\ todo # <<>>
      /\ Stay(s, d) \/ (Goto(s, "Communicating", d, Tail(todo)) /\ UNCHANGED chan)
  BY DEF ProcessVerifyList, VerifyListOK, Processing
<1> HIDE DEF d
<1>2. chan \in [Server -> [Server -> Seq(P)]]
  BY DEF PacketsIn
<1> QED
  BY <1>1, <1>2, StayIn, GotoIn, TailIn

LEMMA ProcessStopIn ==
  ASSUME Inv, NEW P, PacketsIn(storage, todo, chan, P), Admits(P),
         NEW s \in Server, ProcessStop(s)
  PROVE  PacketsIn(storage', todo', chan', P)
<1> DEFINE again == IF Msg.rid = data[s].rid THEN [t \in conn[s] |-> Msg]
                                            ELSE ToServers(Msg)
           c == IF s = Proposer THEN Sent(chan, s, conn[s], again) ELSE chan
<1>1. todo # <<>> /\ Msg.type = "ServerStop"
  BY DEF ProcessStop, Processing
<1>2. /\ \/ todo' = Tail(todo) /\ UNCHANGED <<storage, chan>>
         \/ Restart(s, conn[s], c, Tail(todo))
  BY DEF ProcessStop
<1>3. Msg \in Body /\ Tail(todo) \in Seq(P) /\ conn[s] \in SUBSET Server
  BY <1>1, MsgType, TailIn DEF Inv, Running, Resting
<1>4. \A t \in Server : Pkt(s, t, Msg) \in P
  <2>1. Msg.type \notin KeyTypes
    BY <1>1 DEF KeyTypes
  <2> QED
    BY <1>3, <2>1, OtherIn DEF Admits
<1>5. c \in [Server -> [Server -> Seq(P)]]
  <2>1. chan \in [Server -> [Server -> Seq(P)]]
    BY DEF PacketsIn
  <2>2. again = [t \in conn[s] |-> Msg] \/ again = ToServers(Msg)
    OBVIOUS
  <2> HIDE DEF again
  <2>3. Sent(chan, s, conn[s], again) \in [Server -> [Server -> Seq(P)]]
    BY <1>3, <1>4, <2>1, <2>2, SendsMineIn
  <2> QED
    BY <2>1, <2>3
<1> HIDE DEF c
<1>6. CASE Restart(s, conn[s], c, Tail(todo))
  BY <1>3, <1>5, <1>6, RestartIn DEF Admits
<1>7. CASE todo' = Tail(todo) /\ UNCHANGED <<storage, chan>>
  BY <1>3, <1>7 DEF PacketsIn
<1> QED
  BY <1>2, <1>6, <1>7

LEMMA HandleIn ==
  ASSUME Inv, NEW P, PacketsIn(storage, todo, chan, P), Admits(P),
         NEW s \in Server, Handle(s)
  PROVE  PacketsIn(storage', todo', chan', P)
<1>1. ASSUME Drop(s) PROVE PacketsIn(storage', todo', chan', P)
  BY <1>1, StayIn DEF Drop
<1>2. Others(P) /\ Enlists(P) /\ Enlisted(P)
  BY DEF Admits
<1> QED
  BY <1>1, <1>2, StoreMessageIn, ProcessInitIn, ProcessEnlistIn, ProcessAgreeIn,
     ProcessRegisterIn, ProcessListIn, ProcessVerifyListIn, ProcessStopIn DEF Handle

-----------------------------------------------------------------------------
(* Connections and the surroundings *)

LEMMA RestartIdleIn ==
  ASSUME Inv, NEW P, PacketsIn(storage, todo, chan, P), Admits(P), NEW s \in Server,
         NEW cn \in SUBSET Server, NEW c \in [Server -> [Server -> Seq(P)]],
         Restart(s, cn, c, <<>>)
  PROVE  PacketsIn(storage', todo', chan', P)
<1>1. <<>> \in Seq(P) /\ Opens(P) /\ Enlists(P)
  BY DEF Admits
<1> QED
  BY <1>1, RestartIn

LEMMA HandleConnectionIn ==
  ASSUME Inv, NEW P, PacketsIn(storage, todo, chan, P), Admits(P), NEW s \in Server,
         NEW cn \in SUBSET Server, NEW c \in [Server -> [Server -> Seq(P)]],
         HandleConnection(s, cn, c)
  PROVE  PacketsIn(storage', todo', chan', P)
<1>1. CASE Restart(s, cn, c, <<>>)
  BY <1>1, RestartIdleIn
<1>2. CASE chan' = c /\ UNCHANGED <<storage, todo>>
  BY <1>2 DEF PacketsIn
<1> QED
  BY <1>1, <1>2 DEF HandleConnection

LEMMA HandleDisconnectionIn ==
  ASSUME Inv, NEW P, PacketsIn(storage, todo, chan, P), Admits(P), NEW s \in Server,
         NEW p \in Server, NEW cn \in SUBSET Server,
         NEW c \in [Server -> [Server -> Seq(P)]], HandleDisconnection(s, p, cn, c)
  PROVE  PacketsIn(storage', todo', chan', P)
<1>1. CASE DefaultHandleDisconnection(s, p, cn, c)
  <2> DEFINE r == IF data[s].rid = NoRound THEN NonceId(data[s].init) ELSE data[s].rid
             m == ServerStop(s, r, p)
  <2>1. r \in RoundId
    BY DataFields, Constants DEF Inv, Running
  <2>2. chan' = Sent(c, s, cn, [t \in cn |-> m]) /\ UNCHANGED <<storage, todo>>
    BY <1>1 DEF DefaultHandleDisconnection
  <2> HIDE DEF r
  <2>3. m \in Body /\ m.type \notin KeyTypes
    BY <2>1 DEF ServerStop, Body, KeyTypes
  <2> HIDE DEF m
  <2>4. \A t \in Server : Pkt(s, t, m) \in P
    BY <2>3, OtherIn DEF Admits
  <2> DEFINE out == [t \in cn |-> m]
  <2>5. out = [t \in cn |-> m] /\ chan' = Sent(c, s, cn, out)
    BY <2>2
  <2> HIDE DEF out
  <2>6. Sent(c, s, cn, out) \in [Server -> [Server -> Seq(P)]]
    BY <2>4, <2>5, SendsMineIn
  <2> QED
    BY <2>2, <2>5, <2>6 DEF PacketsIn
<1>2. CASE Restart(s, cn, c, <<>>)
  BY <1>2, RestartIdleIn
<1>3. CASE chan' = c /\ UNCHANGED <<storage, todo>>
  BY <1>3 DEF PacketsIn
<1> QED
  BY <1>1, <1>2, <1>3
     DEF HandleDisconnection, InitHandleDisconnection, CommHandleDisconnection

LEMMA TakenIn ==
  ASSUME NEW P, PacketsIn(storage, todo, chan, P), NEW p \in Server, NEW s \in Server,
         Arriving(p, s)
  PROVE  Head(chan[p][s]) \in P /\ Taken(p, s) \in [Server -> [Server -> Seq(P)]]
<1>1. chan \in [Server -> [Server -> Seq(P)]] /\ chan[p][s] # <<>>
  BY DEF PacketsIn, Arriving
<1>2. Head(chan[p][s]) \in P /\ Tail(chan[p][s]) \in Seq(P)
  BY <1>1, HeadTail
<1> QED
  BY <1>1, <1>2 DEF Taken

LEMMA SignalIn ==
  ASSUME NEW P, Others(P), NEW a \in Server, NEW b \in Server
  PROVE  Pkt(a, b, Connect) \in P /\ Pkt(a, b, Closed) \in P
<1>1. Connect \in Body /\ Closed \in Body
  BY DEF Body
<1>2. Connect.type \notin KeyTypes /\ Closed.type \notin KeyTypes
  BY DEF Connect, Closed, KeyTypes
<1> QED
  BY <1>1, <1>2, OtherIn

LEMMA BindEdgeIn ==
  ASSUME Inv, NEW P, PacketsIn(storage, todo, chan, P), Admits(P), NEW a \in Server,
         NEW b \in Server, BindEdge(a, b)
  PROVE  PacketsIn(storage', todo', chan', P)
<1> DEFINE m == Pkt(a, b, Connect)
           c == [chan EXCEPT ![a][b] = <<m>>]
<1>1. HandleConnection(a, conn'[a], c)
  BY DEF BindEdge, Pkt
<1>2. conn'[a] \in SUBSET Server
  BY DEF BindEdge, Inv, Resting
<1>3. m \in P
  BY SignalIn DEF Admits
<1> HIDE DEF m
<1>4. c \in [Server -> [Server -> Seq(P)]]
  BY <1>3 DEF PacketsIn
<1> HIDE DEF c
<1> QED
  BY <1>1, <1>2, <1>4, HandleConnectionIn

LEMMA BreakEdgeIn ==
  ASSUME NEW P, PacketsIn(storage, todo, chan, P), Admits(P), NEW a \in Server,
         NEW b \in Server, BreakEdge(a, b)
  PROVE  PacketsIn(storage', todo', chan', P)
<1> DEFINE Cut(x, y, k) == Append(SubSeq(chan[x][y], 1, k), Pkt(x, y, Closed))
<1>1. \A x, y \in Server : \A k \in 0..Len(chan[x][y]) : Cut(x, y, k) \in Seq(P)
  <2> TAKE x, y \in Server
  <2> TAKE k \in 0..Len(chan[x][y])
  <2>1. chan[x][y] \in Seq(P)
    BY DEF PacketsIn
  <2>2. SubSeq(chan[x][y], 1, k) \in Seq(P)
    BY <2>1
  <2>3. Pkt(x, y, Closed) \in P
    BY SignalIn DEF Admits
  <2> QED
    BY <2>2, <2>3
<1>2. PICK i \in 0..Len(chan[a][b]), j \in 0..Len(chan[b][a]) :
        chan' = [chan EXCEPT ![a][b] = Cut(a, b, i), ![b][a] = Cut(b, a, j)]
  BY DEF BreakEdge, Pkt
<1>3. Cut(a, b, i) \in Seq(P) /\ Cut(b, a, j) \in Seq(P)
  BY <1>1
<1> HIDE DEF Cut
<1>4. chan' \in [Server -> [Server -> Seq(P)]]
  BY <1>2, <1>3 DEF PacketsIn
<1> QED
  BY <1>4 DEF PacketsIn, BreakEdge, machine

LEMMA ReceiveConnectIn ==
  ASSUME Inv, NEW P, PacketsIn(storage, todo, chan, P), Admits(P), NEW p \in Server,
         NEW s \in Server, ReceiveConnect(p, s)
  PROVE  PacketsIn(storage', todo', chan', P)
<1>1. Taken(p, s) \in [Server -> [Server -> Seq(P)]]
  BY TakenIn DEF ReceiveConnect
<1>2. conn'[s] \in SUBSET Server /\ HandleConnection(s, conn'[s], Taken(p, s))
  BY DEF ReceiveConnect, Inv, Resting
<1> QED
  BY <1>1, <1>2, HandleConnectionIn

LEMMA ReceiveClosedIn ==
  ASSUME Inv, NEW P, PacketsIn(storage, todo, chan, P), Admits(P), NEW p \in Server,
         NEW s \in Server, ReceiveClosed(p, s)
  PROVE  PacketsIn(storage', todo', chan', P)
<1>1. Taken(p, s) \in [Server -> [Server -> Seq(P)]]
  BY TakenIn DEF ReceiveClosed
<1>2. conn'[s] \in SUBSET Server
  BY DEF ReceiveClosed, Inv, Resting
<1>3. CASE HandleDisconnection(s, p, conn'[s], Taken(p, s))
  BY <1>1, <1>2, <1>3, HandleDisconnectionIn
<1>4. CASE chan' = Taken(p, s) /\ UNCHANGED <<storage, todo>>
  BY <1>1, <1>4 DEF PacketsIn
<1> QED
  BY <1>3, <1>4 DEF ReceiveClosed

LEMMA ReceiveIn ==
  ASSUME NEW P, PacketsIn(storage, todo, chan, P), NEW p \in Server, NEW s \in Server,
         Receive(p, s)
  PROVE  PacketsIn(storage', todo', chan', P)
<1>1. Head(chan[p][s]) \in P /\ Taken(p, s) \in [Server -> [Server -> Seq(P)]]
  BY TakenIn DEF Receive
<1> QED
  BY <1>1 DEF Receive, PacketsIn, machine

LEMMA ForwardedDataIn ==
  ASSUME Inv, NEW P, PacketsIn(storage, todo, chan, P), NEW p \in Server, NEW s \in Server,
         ForwardedData(p, s)
  PROVE  PacketsIn(storage', todo', chan', P)
<1> DEFINE m == Head(chan[p][s])
           c == Taken(p, s)
<1>1. m \in P /\ c \in [Server -> [Server -> Seq(P)]]
  BY TakenIn DEF ForwardedData
<1>2. m.dst \in Server
  BY TakenType DEF ForwardedData, PacketOf
<1>3. chan' = c \/ chan' = [c EXCEPT ![s][m.dst] = Append(@, m)]
  BY DEF ForwardedData
<1> HIDE DEF c, m
<1>4. Append(c[s][m.dst], m) \in Seq(P)
  BY <1>1, <1>2
<1>5. chan' \in [Server -> [Server -> Seq(P)]]
  <2> DEFINE q == Append(c[s][m.dst], m)
  <2>1. chan' = c \/ chan' = [c EXCEPT ![s] = [c[s] EXCEPT ![m.dst] = q]]
    BY <1>1, <1>2, <1>3
  <2> HIDE DEF q
  <2>2. [c[s] EXCEPT ![m.dst] = q] \in [Server -> Seq(P)]
    BY <1>1, <1>2, <1>4 DEF q
  <2> QED
    BY <1>1, <2>1, <2>2
<1> QED
  BY <1>5 DEF ForwardedData, PacketsIn, machine

LEMMA RegisterIn ==
  ASSUME Inv, NEW P, PacketsIn(storage, todo, chan, P), Admits(P), NEW s \in Server,
         NEW c \in Client, NEW r \in RoundId, Register(s, c, r)
  PROVE  PacketsIn(storage', todo', chan', P)
<1> DEFINE m == ClientRegister(c, r, regCount[c] + 1)
<1>1. m \in Body /\ m.type \notin KeyTypes
  BY DEF ClientRegister, Body, KeyTypes, Inv, Resting
<1>2. todo' = <<Pkt(c, s, m)>> /\ UNCHANGED <<storage, chan>>
  BY DEF Register, Pkt, machine
<1> HIDE DEF m
<1>3. Pkt(c, s, m) \in P
  BY <1>1, OtherIn DEF Admits
<1> QED
  BY <1>2, <1>3 DEF PacketsIn

\* Every packet under way after a step was under way before or is one P admits.
LEMMA NextIn ==
  ASSUME Inv, [Next]_vars, NEW P, PacketsIn(storage, todo, chan, P), Admits(P)
  PROVE  PacketsIn(storage', todo', chan', P)
<1>1. ASSUME UNCHANGED <<storage, todo, chan>> PROVE PacketsIn(storage', todo', chan', P)
  BY <1>1
<1>2. ASSUME NEW s \in Server, Start(s) \/ RoundFinished(s)
      PROVE  PacketsIn(storage', todo', chan', P)
  <2>1. Restart(s, conn[s], chan, <<>>)
    BY <1>2 DEF Start, RoundFinished
  <2>2. conn[s] \in SUBSET Server /\ chan \in [Server -> [Server -> Seq(P)]]
    BY DEF Inv, Resting, PacketsIn
  <2> QED
    BY <2>1, <2>2, RestartIdleIn
<1>3. ASSUME NEW s \in Server, FinishClientRegister(s)
      PROVE  PacketsIn(storage', todo', chan', P)
  BY <1>3, FinishClientRegisterIn DEF Admits
<1>4. CASE System
  <2>1. ASSUME NEW a \in Server, NEW b \in Server, NewEdge(a, b)
        PROVE  PacketsIn(storage', todo', chan', P)
    BY <1>1, <2>1 DEF NewEdge, machine
  <2> QED
    BY <1>2, <1>3, <1>4, <2>1, HandleIn, BindEdgeIn, ReceiveConnectIn, ReceiveClosedIn,
       ReceiveIn, ForwardedDataIn DEF System
<1>5. CASE Environment
  <2>1. {x[3] : x \in reached} \subseteq RoundId
    BY DEF Inv, Running
  <2> QED
    BY <1>2, <1>5, <2>1, BreakEdgeIn, RegisterIn DEF Environment
<1> QED
  BY <1>1, <1>4, <1>5 DEF Next, vars, machine

-----------------------------------------------------------------------------
(* What a step does to the numbers and keys of a server: nothing; it gives up *)
(* its ServerInit; it takes one up; it collects a key; or it agrees.          *)

Keyed == Queued \cup {"Agree"}

Unmoved(s) ==
  /\ data'[s].init = data[s].init /\ data'[s].eph = data[s].eph
  /\ data'[s].keys = data[s].keys /\ data'[s].rid = data[s].rid
  /\ st'[s] = "Enlist" => st[s] = "Enlist"
  /\ st'[s] = "Agree" => st[s] = "Agree"
  /\ st'[s] \in Keyed => st[s] \in Keyed
GivesUp(s) ==
  data'[s].init = 0 /\ data'[s].eph = data[s].eph /\ st'[s] \notin Keyed \cup {"Enlist"}
TakesUp(s) ==
  /\ st'[s] = "Enlist" /\ data'[s].keys = NoKeys
  /\ \/ data'[s].init = initCount + 1
     \/ todo # <<>> /\ IsInit(Head(todo), s) /\ data'[s].init = Msg.n
Learns(s) ==
  /\ st[s] = "Enlist" /\ todo # <<>> /\ Msg.n = data[s].init
  /\ data'[s].init = data[s].init /\ data'[s].eph = data[s].eph
  /\ \/ Msg.type = "ServerEnlist" /\ data'[s].keys = [data[s].keys EXCEPT ![Msg.from] = Msg.key]
     \/ Msg.type = "ServerEnlisted" /\ data'[s].keys = Msg.keys
Collects(s) == Learns(s) /\ st'[s] = "Enlist"
Agrees(s) ==
  /\ Learns(s) /\ st'[s] = "Agree" /\ data'[s].rid.keys = data'[s].keys
  /\ \A t \in Server : Msg.type = "ServerEnlist" => data'[s].keys[t] # 0
KeyStep(s) == Unmoved(s) \/ GivesUp(s) \/ TakesUp(s) \/ Collects(s) \/ Agrees(s)

LEMMA StillKeys ==
  ASSUME NEW s \in Server, UNCHANGED <<st, data>>
  PROVE  KeyStep(s)
  BY DEF KeyStep, Unmoved

LEMMA StayKeys ==
  ASSUME Inv, NEW s \in Server, NEW d, Stay(s, d), d.init = data[s].init, d.eph = data[s].eph,
         d.keys = data[s].keys, d.rid = data[s].rid
  PROVE  \A t \in Server : KeyStep(t)
  BY DEF KeyStep, Unmoved, Stay, Inv, Running

\* A server that goes to another state leaves the others alone.
LEMMA GotoKeys ==
  ASSUME Inv, NEW s \in Server, NEW T, NEW d, NEW rest, Goto(s, T, d, rest)
  PROVE  /\ data'[s] = d /\ st'[s] = T
         /\ KeyStep(s) => \A t \in Server : KeyStep(t)
<1>1. data'[s] = d /\ st'[s] = T
  BY DEF Goto, Inv, Running
<1>2. \A t \in Server : t # s => UNCHANGED <<st[t], data[t]>>
  BY DEF Goto, Inv, Running
<1>3. \A t \in Server : t # s => Unmoved(t)
  BY <1>2 DEF Unmoved
<1> QED
  BY <1>1, <1>3 DEF KeyStep

LEMMA OnwardKeys ==
  ASSUME Inv, NEW s \in Server, st[s] \in Keyed, NEW T \in Keyed, T # "Agree", NEW d, NEW rest,
         Goto(s, T, d, rest), d.init = data[s].init, d.eph = data[s].eph,
         d.keys = data[s].keys, d.rid = data[s].rid
  PROVE  \A t \in Server : KeyStep(t)
<1>1. T # "Enlist"
  BY DEF Keyed, Queued
<1> QED
  BY <1>1, GotoKeys DEF KeyStep, Unmoved

LEMMA RestartKeys ==
  ASSUME Inv, NEW s \in Server, NEW cn, NEW c, NEW rest, Restart(s, cn, c, rest)
  PROVE  \A t \in Server : KeyStep(t)
<1> DEFINE d == Reset(data[s])
           n == initCount + 1
           f == Enlisting(d, n)
           T == IF cn = Server THEN "Init" ELSE "WaitingForServers"
<1>1. d \in Data /\ n \in Nat /\ d.init = 0 /\ d.eph = data[s].eph
  BY ResetType DEF Inv, Running, Reset
<1>2. T \notin Keyed \cup {"Enlist"}
  BY DEF Keyed, Queued
<1>3. Goto(s, "Enlist", f, rest) \/ Goto(s, T, d, rest)
  BY DEF Restart, NewNonce
<1>4. f.init = n /\ f.keys = NoKeys
  <2> HIDE DEF d, n
  <2> QED
    BY <1>1, EnlistingFields
<1> HIDE DEF T, f, d
<1>5. CASE Goto(s, "Enlist", f, rest)
  BY <1>4, <1>5, GotoKeys DEF KeyStep, TakesUp
<1>6. CASE Goto(s, T, d, rest)
  BY <1>1, <1>2, <1>6, GotoKeys DEF KeyStep, GivesUp
<1> QED
  BY <1>3, <1>5, <1>6

LEMMA SameKeys ==
  ASSUME NEW d \in Data, NEW x, NEW y
  PROVE  /\ LET e == [d EXCEPT !.got = x] IN
              e.init = d.init /\ e.eph = d.eph /\ e.keys = d.keys /\ e.rid = d.rid
         /\ LET e == [d EXCEPT !.regs = y] IN
              e.init = d.init /\ e.eph = d.eph /\ e.keys = d.keys /\ e.rid = d.rid
         /\ LET e == [d EXCEPT !.got = x, !.regs = y] IN
              e.init = d.init /\ e.eph = d.eph /\ e.keys = d.keys /\ e.rid = d.rid
  BY DEF Data

LEMMA ProcessInitKeys ==
  ASSUME Inv, NEW s \in Server, ProcessInit(s)
  PROVE  \A t \in Server : KeyStep(t)
<1> DEFINE d == Enlisting(data[s], Msg.n)
<1>1. /\ todo # <<>> /\ Msg.type = "ServerInit" /\ Head(todo).dst = s
      /\ Goto(s, "Enlist", d, Tail(todo))
  BY DEF ProcessInit, Processing
<1>2. Msg.n \in Nat /\ data[s] \in Data
  BY <1>1, MsgType, BodyFields DEF Inv, Running
<1>3. d.init = Msg.n /\ d.keys = NoKeys
  BY <1>2, EnlistingFields
<1>4. IsInit(Head(todo), s)
  BY <1>1 DEF IsInit, Msg
<1> HIDE DEF d
<1> QED
  BY <1>1, <1>3, <1>4, GotoKeys DEF KeyStep, TakesUp

LEMMA EnterAgreeKeys ==
  ASSUME Inv, NEW s \in Server, NEW keys, EnterAgree(s, keys),
         st[s] = "Enlist", todo # <<>>, Msg.n = data[s].init,
         \/ Msg.type = "ServerEnlist" /\ keys = [data[s].keys EXCEPT ![Msg.from] = Msg.key]
         \/ Msg.type = "ServerEnlisted" /\ keys = Msg.keys,
         \A t \in Server : Msg.type = "ServerEnlist" => keys[t] # 0
  PROVE  \A t \in Server : KeyStep(t)
<1> DEFINE d == Agreeing(data[s], keys)
<1>1. Goto(s, "Agree", d, Tail(todo))
  BY DEF EnterAgree
<1>2. data[s] \in Data
  BY DEF Inv, Running
<1>3. d.init = data[s].init /\ d.eph = data[s].eph /\ d.keys = keys /\ d.rid.keys = keys
  BY <1>2 DEF Agreeing, HashEnlists, Data
<1> HIDE DEF d
<1>4. data'[s] = d /\ st'[s] = "Agree"
  BY <1>1, GotoKeys
<1>5. Agrees(s)
  BY <1>3, <1>4 DEF Agrees, Learns
<1> QED
  BY <1>1, <1>5, GotoKeys DEF KeyStep

LEMMA ProcessEnlistKeys ==
  ASSUME Inv, NEW s \in Server, ProcessEnlist(s)
  PROVE  \A t \in Server : KeyStep(t)
<1> DEFINE keys == [data[s].keys EXCEPT ![Msg.from] = Msg.key]
           d == [data[s] EXCEPT !.keys = keys]
<1>1. /\ todo # <<>> /\ Msg.type = "ServerEnlist" /\ st[s] = "Enlist"
      /\ Msg.n = data[s].init
  BY DEF ProcessEnlist, EnlistOK, Processing
<1>2. CASE Stay(s, d)
  <2>1. data \in [Server -> Data]
    BY DEF Inv, Running
  <2>2. d.init = data[s].init /\ d.eph = data[s].eph /\ d.keys = keys
    BY <2>1 DEF Data
  <2> HIDE DEF keys, d
  <2>3. data'[s] = d /\ st' = st /\ \A t \in Server : t # s => data'[t] = data[t]
    BY <1>2, <2>1 DEF Stay
  <2>4. Collects(s)
    BY <1>1, <2>2, <2>3 DEF Collects, Learns, keys
  <2>5. \A t \in Server : t # s => Unmoved(t)
    BY <2>3 DEF Unmoved
  <2> QED
    BY <2>4, <2>5 DEF KeyStep
<1>3. CASE (\A t \in Server : keys[t] # 0) /\ EnterAgree(s, keys)
  <2> HIDE DEF d
  <2> QED
    BY <1>1, <1>3, EnterAgreeKeys
<1> QED
  BY <1>2, <1>3 DEF ProcessEnlist

LEMMA ProcessEnlistedKeys ==
  ASSUME Inv, NEW s \in Server, ProcessEnlisted(s)
  PROVE  \A t \in Server : KeyStep(t)
<1>1. /\ todo # <<>> /\ Msg.type = "ServerEnlisted" /\ st[s] = "Enlist"
      /\ Msg.n = data[s].init /\ EnterAgree(s, Msg.keys)
  BY DEF ProcessEnlisted, EnlistedOK, Processing
<1> QED
  BY <1>1, EnterAgreeKeys

LEMMA HandleKeys ==
  ASSUME Inv, NEW s \in Server, Handle(s)
  PROVE  \A t \in Server : KeyStep(t)
<1>1. data[s] \in Data
  BY DEF Inv, Running
<1>2. /\ {"Registering", "ListExchange", "VerifyList", "Communicating"} \subseteq Keyed
      /\ "Agree" \in Keyed
  BY DEF Keyed, Queued
<1>3. CASE StoreMessage(s)
  BY <1>3, StillKeys DEF StoreMessage
<1>4. CASE ProcessAgree(s)
  <2> DEFINE d == [data[s] EXCEPT !.got = data[s].got \cup {Msg.from}]
             e == [data[s] EXCEPT !.got = {}, !.regs = NoRegs]
  <2>1. st[s] = "Agree" /\ (Stay(s, d) \/ Goto(s, "Registering", e, Tail(todo)))
    BY <1>4 DEF ProcessAgree, AgreeOK, Processing
  <2>2. d.init = data[s].init /\ d.eph = data[s].eph /\ d.keys = data[s].keys /\ d.rid = data[s].rid
    BY <1>1, SameKeys
  <2>3. e.init = data[s].init /\ e.eph = data[s].eph /\ e.keys = data[s].keys /\ e.rid = data[s].rid
    BY <1>1, SameKeys
  <2> HIDE DEF d, e
  <2> QED
    BY <1>2, <2>1, <2>2, <2>3, StayKeys, OnwardKeys
<1>5. CASE ProcessRegister(s)
  <2> DEFINE regs == [data[s].regs EXCEPT ![Msg.from] = Msg.key]
             d == [data[s] EXCEPT !.regs = regs]
  <2>1. Stay(s, d)
    BY <1>5 DEF ProcessRegister
  <2>2. d.init = data[s].init /\ d.eph = data[s].eph /\ d.keys = data[s].keys /\ d.rid = data[s].rid
    <3> HIDE DEF regs
    <3> QED
      BY <1>1, SameKeys
  <2> HIDE DEF d
  <2> QED
    BY <2>1, <2>2, StayKeys
<1>6. CASE ProcessList(s)
  <2> DEFINE got == data[s].got \cup {Head(todo).src}
             regs == Merge(data[s].regs, Msg.list.regs)
             d == [data[s] EXCEPT !.got = got, !.regs = regs]
             e == [data[s] EXCEPT !.got = {}, !.regs = regs]
  <2>1. st[s] = "ListExchange" /\ (Stay(s, d) \/ Goto(s, "VerifyList", e, Tail(todo)))
    BY <1>6 DEF ProcessList, ListOK, Processing
  <2> HIDE DEF got, regs
  <2>2. d.init = data[s].init /\ d.eph = data[s].eph /\ d.keys = data[s].keys /\ d.rid = data[s].rid
    BY <1>1, SameKeys
  <2>3. e.init = data[s].init /\ e.eph = data[s].eph /\ e.keys = data[s].keys /\ e.rid = data[s].rid
    BY <1>1, SameKeys
  <2> HIDE DEF d, e
  <2> QED
    BY <1>2, <2>1, <2>2, <2>3, StayKeys, OnwardKeys
<1>7. CASE ProcessVerifyList(s)
  <2> DEFINE d == [data[s] EXCEPT !.got = data[s].got \cup {Head(todo).src}]
  <2>1. st[s] = "VerifyList" /\ (Stay(s, d) \/ Goto(s, "Communicating", d, Tail(todo)))
    BY <1>7 DEF ProcessVerifyList, VerifyListOK, Processing
  <2>2. d.init = data[s].init /\ d.eph = data[s].eph /\ d.keys = data[s].keys /\ d.rid = data[s].rid
    BY <1>1, SameKeys
  <2> HIDE DEF d
  <2> QED
    BY <1>2, <2>1, <2>2, StayKeys, OnwardKeys
<1>8. CASE ProcessStop(s)
  BY <1>8, StillKeys, RestartKeys DEF ProcessStop
<1>9. CASE Drop(s)
  BY <1>9, StayKeys DEF Drop
<1> QED
  BY <1>3, <1>4, <1>5, <1>6, <1>7, <1>8, <1>9, ProcessInitKeys, ProcessEnlistKeys,
     ProcessEnlistedKeys DEF Handle

LEMMA NextKeys ==
  ASSUME Inv, [Next]_vars
  PROVE  \A t \in Server : KeyStep(t)
<1>1. ASSUME UNCHANGED <<st, data>> PROVE \A t \in Server : KeyStep(t)
  BY <1>1, StillKeys
<1>2. ASSUME NEW s \in Server, Start(s) \/ RoundFinished(s)
      PROVE  \A t \in Server : KeyStep(t)
  BY <1>2, RestartKeys DEF Start, RoundFinished
<1>3. ASSUME NEW s \in Server, FinishClientRegister(s)
      PROVE  \A t \in Server : KeyStep(t)
  <2> DEFINE d == [data[s] EXCEPT !.got = {}]
  <2>1. st[s] = "Registering" /\ Goto(s, "ListExchange", d, <<>>)
    BY <1>3 DEF FinishClientRegister
  <2>2. d.init = data[s].init /\ d.eph = data[s].eph /\ d.keys = data[s].keys /\ d.rid = data[s].rid
    BY SameKeys DEF Inv, Running
  <2>3. "Registering" \in Keyed /\ "ListExchange" \in Keyed
    BY DEF Keyed, Queued
  <2> HIDE DEF d
  <2> QED
    BY <2>1, <2>2, <2>3, OnwardKeys
<1>4. ASSUME NEW s \in Server, NEW p, NEW cn, NEW c,
             HandleConnection(s, cn, c) \/ HandleDisconnection(s, p, cn, c)
      PROVE  \A t \in Server : KeyStep(t)
  BY <1>1, <1>4, RestartKeys DEF HandleConnection, HandleDisconnection,
     DefaultHandleDisconnection, InitHandleDisconnection, CommHandleDisconnection
<1>5. ASSUME NEW a \in Server, NEW b \in Server,
             NewEdge(a, b) \/ BreakEdge(a, b) \/ Receive(a, b) \/ ForwardedData(a, b)
      PROVE  \A t \in Server : KeyStep(t)
  BY <1>1, <1>5 DEF NewEdge, BreakEdge, Receive, ForwardedData, machine
<1>6. ASSUME NEW a \in Server, NEW b \in Server,
             BindEdge(a, b) \/ ReceiveConnect(a, b) \/ ReceiveClosed(a, b)
      PROVE  \A t \in Server : KeyStep(t)
  BY <1>1, <1>4, <1>6 DEF BindEdge, ReceiveConnect, ReceiveClosed
<1>7. ASSUME NEW t, NEW c, NEW r, Register(t, c, r) PROVE \A u \in Server : KeyStep(u)
  BY <1>1, <1>7 DEF Register, machine
<1>8. CASE System
  BY <1>2, <1>3, <1>5, <1>6, <1>8, HandleKeys DEF System
<1>9. CASE Environment
  BY <1>2, <1>5, <1>7, <1>9 DEF Environment
<1>10. CASE UNCHANGED vars
  BY <1>1, <1>10 DEF vars, machine
<1> QED
  BY <1>8, <1>9, <1>10 DEF Next

\* At most one new ServerInit is made.
LEMMA NextCount ==
  ASSUME [Next]_vars
  PROVE  initCount' = initCount \/ initCount' = initCount + 1
<1>1. ASSUME NEW s, NEW cn, NEW c, NEW rest, Restart(s, cn, c, rest)
      PROVE  initCount' = initCount \/ initCount' = initCount + 1
  BY <1>1 DEF Restart, NewNonce
<1>2. ASSUME NEW s, NEW p, NEW cn, NEW c,
             HandleConnection(s, cn, c) \/ HandleDisconnection(s, p, cn, c)
      PROVE  initCount' = initCount \/ initCount' = initCount + 1
  BY <1>1, <1>2 DEF HandleConnection, HandleDisconnection, DefaultHandleDisconnection,
     InitHandleDisconnection, CommHandleDisconnection
<1>3. ASSUME NEW s, Handle(s) PROVE initCount' = initCount \/ initCount' = initCount + 1
  <2>1. ASSUME ProcessStop(s) PROVE initCount' = initCount \/ initCount' = initCount + 1
    BY <1>1, <2>1 DEF ProcessStop
  <2>2. ASSUME ~ProcessStop(s) PROVE initCount' = initCount
    BY <1>3, <2>2 DEF Handle, StoreMessage, ProcessInit, ProcessEnlist, ProcessEnlisted,
       EnterAgree, ProcessAgree, ProcessRegister, ProcessList, ProcessVerifyList, Drop, Stay
  <2> QED
    BY <2>1, <2>2
<1>4. CASE System
  <2>1. ASSUME NEW s, Start(s) \/ RoundFinished(s) \/ FinishClientRegister(s)
        PROVE  initCount' = initCount \/ initCount' = initCount + 1
    BY <1>1, <2>1 DEF Start, RoundFinished, FinishClientRegister
  <2>2. ASSUME NEW a, NEW b,
               BindEdge(a, b) \/ ReceiveConnect(a, b) \/ ReceiveClosed(a, b)
        PROVE  initCount' = initCount \/ initCount' = initCount + 1
    BY <1>2, <2>2 DEF BindEdge, ReceiveConnect, ReceiveClosed
  <2>3. ASSUME NEW a, NEW b, NewEdge(a, b) \/ Receive(a, b) \/ ForwardedData(a, b)
        PROVE  initCount' = initCount
    BY <2>3 DEF NewEdge, Receive, ForwardedData
  <2> QED
    BY <1>3, <1>4, <2>1, <2>2, <2>3 DEF System
<1>5. CASE Environment
  BY <1>1, <1>5 DEF Environment, BreakEdge, Register, RoundFinished
<1> QED
  BY <1>4, <1>5 DEF Next, vars

-----------------------------------------------------------------------------
(* The invariant.  Server t holds key k for the ServerInit numbered n: it has *)
(* made the ServerEnlist that says so, if it still works on n its key is k,   *)
(* and it will never take n up again, since the ServerInits under way to it   *)
(* are newer.                                                                 *)

Newer(t, n) == {p \in Packet : IsInit(p, t) => n < p.body.n}
Holds(t, n, k) ==
  /\ n \in 1..initCount
  /\ PacketsIn(storage, todo, chan, Newer(t, n))
  /\ data[t].init = n => data[t].eph = k

\* Every ServerEnlist and ServerEnlisted under way says what its subjects hold,
\* and so do the keys a server has collected.
Truthful(m) ==
  /\ m.type = "ServerEnlist" => Holds(m.from, m.n, m.key)
  /\ m.type = "ServerEnlisted" => \A t \in Server : Holds(t, m.n, m.keys[t])
True == {p \in Packet : Truthful(p.body)}

KeyInv ==
  /\ PacketsIn(storage, todo, chan, True)
  /\ \A s \in Server : st[s] = "Enlist" =>
       \A t \in Server : data[s].keys[t] # 0 => Holds(t, data[s].init, data[s].keys[t])
  /\ KeyCustody

LEMMA MembersIn ==
  ASSUME NEW X, NEW q \in Seq(X), NEW P, \A i \in DOMAIN q : q[i] \in P
  PROVE  q \in Seq(P)
  OBVIOUS

\* A server holds the key it has made for the ServerInit it works on.
OwnKeys == \A s \in Server : data[s].init # 0 => Holds(s, data[s].init, data[s].eph)

LEMMA OwnKey == Inv /\ OrderInv => OwnKeys
<1> SUFFICES ASSUME Inv, OrderInv, NEW s \in Server, data[s].init # 0
             PROVE  Holds(s, data[s].init, data[s].eph)
  BY DEF OwnKeys
<1> DEFINE n == data[s].init
<1>1. /\ data[s].init \in Nat /\ initCount \in Nat
      /\ storage \in [Server -> Seq(Packet)] /\ todo \in Seq(Packet)
      /\ chan \in [Server -> [Server -> Seq(Packet)]]
  BY InvTypes, DataFields DEF Chans, Stores, Inv, Running
<1>2. n \in Used[s] /\ Numbered(s) /\ n \in 1..initCount
  <2>1. n \in Used[s] /\ Numbered(s)
    BY DEF Used, OrderInv
  <2> QED
    BY <1>1, <2>1 DEF Numbered
<1>3. /\ Fresh(storage[s], s, Used[s], initCount) /\ Fresh(todo, s, Used[s], initCount)
      /\ Fresh(chan[Proposer][s], s, Used[s], initCount)
      /\ Direct(chan) /\ Own(storage)
  BY DEF OrderInv, Ordered, Orderly
<1>4. ASSUME NEW q \in Seq(Packet), Fresh(q, s, Used[s], initCount) PROVE q \in Seq(Newer(s, n))
  <2>1. \A i \in DOMAIN q : q[i] \in Packet
    BY MemberType
  <2>2. \A i \in DOMAIN q : IsInit(q[i], s) => n < q[i].body.n
    BY <1>2, <1>4 DEF Fresh
  <2>3. \A i \in DOMAIN q : q[i] \in Newer(s, n)
    BY <2>1, <2>2 DEF Newer
  <2> HIDE DEF n
  <2> QED
    BY <2>3, MembersIn
<1>5. ASSUME NEW q \in Seq(Packet), \A i \in DOMAIN q : ~IsInit(q[i], s)
      PROVE  q \in Seq(Newer(s, n))
  <2>1. \A i \in DOMAIN q : q[i] \in Newer(s, n)
    BY <1>5, MemberType DEF Newer
  <2> HIDE DEF n
  <2> QED
    BY <2>1, MembersIn
<1>6. \A a \in Server : storage[a] \in Seq(Newer(s, n))
  <2> TAKE a \in Server
  <2>1. a # s => \A i \in DOMAIN storage[a] : ~IsInit(storage[a][i], s)
    BY <1>3 DEF Own, IsInit
  <2> HIDE DEF n
  <2> QED
    BY <1>1, <1>3, <1>4, <1>5, <2>1
<1>7. \A a, b \in Server : chan[a][b] \in Seq(Newer(s, n))
  <2> TAKE a, b \in Server
  <2>1. a # Proposer \/ b # s => \A i \in DOMAIN chan[a][b] : ~IsInit(chan[a][b][i], s)
    BY <1>3 DEF Direct, IsInit
  <2> HIDE DEF n
  <2> QED
    BY <1>1, <1>3, <1>4, <1>5, <2>1
<1>8. PacketsIn(storage, todo, chan, Newer(s, n))
  <2>1. todo \in Seq(Newer(s, n))
    BY <1>1, <1>3, <1>4
  <2> HIDE DEF n
  <2> QED
    BY <1>1, <1>6, <1>7, <2>1 DEF PacketsIn
<1> QED
  BY <1>2, <1>8 DEF Holds

LEMMA OwnKeyNext == Inv' /\ OrderInv' => OwnKeys'
  BY OwnKey, PTL

\* What a server holds it holds for ever.
LEMMA HoldsNext ==
  ASSUME Inv, Inv', [Next]_vars, NEW t \in Server, NEW n, NEW k, Holds(t, n, k)
  PROVE  Holds(t, n, k)'
<1>1. /\ initCount \in Nat /\ initCount' \in Nat /\ n \in 1..initCount
      /\ data' \in [Server -> Data]
  BY DEF Holds, Inv, Running
<1>2. n \in 1..initCount' /\ (initCount' # initCount => n < initCount') /\ n < initCount + 1
  BY <1>1, NextCount
<1>3. Admits(Newer(t, n))
  <2>1. Others(Newer(t, n))
    BY DEF Others, Newer, IsInit, KeyTypes
  <2>2. Opens(Newer(t, n))
    <3> SUFFICES ASSUME NEW s \in Server, NEW d \in Server, initCount' # initCount
                 PROVE  Pkt(s, d, ServerInit(initCount')) \in Newer(t, n)
      BY DEF Opens
    <3>1. Pkt(s, d, ServerInit(initCount')) \in Packet
      BY <1>1 DEF Pkt, Packet, ServerInit, Body
    <3> QED
      BY <1>2, <3>1 DEF Newer, Pkt, ServerInit
  <2>3. Enlists(Newer(t, n))
    <3> SUFFICES ASSUME NEW s \in Server, NEW d \in Server
                 PROVE  Pkt(s, d, ServerEnlist(s, data'[s].init, data'[s].eph)) \in Newer(t, n)
      BY DEF Enlists
    <3>1. Pkt(s, d, ServerEnlist(s, data'[s].init, data'[s].eph)) \in Packet
      BY <1>1, DataFields DEF Pkt, Packet, ServerEnlist, Body
    <3> QED
      BY <3>1 DEF Newer, IsInit, Pkt, ServerEnlist
  <2>4. Enlisted(Newer(t, n))
    <3> SUFFICES ASSUME NEW s \in Server, NEW d \in Server
                 PROVE  Pkt(s, d, ServerEnlisted(s, data'[s].init, data'[s].keys)) \in Newer(t, n)
      BY DEF Enlisted
    <3>1. Pkt(s, d, ServerEnlisted(s, data'[s].init, data'[s].keys)) \in Packet
      BY <1>1, DataFields DEF Pkt, Packet, ServerEnlisted, Body
    <3> QED
      BY <3>1 DEF Newer, IsInit, Pkt, ServerEnlisted
  <2> QED
    BY <2>1, <2>2, <2>3, <2>4 DEF Admits
<1>4. PacketsIn(storage', todo', chan', Newer(t, n))
  BY <1>3, NextIn DEF Holds
<1>5. data'[t].init = n => data'[t].eph = k
  <2>1. KeyStep(t)
    BY NextKeys
  <2>2. CASE Unmoved(t) \/ Collects(t) \/ Agrees(t)
    BY <2>2 DEF Unmoved, Collects, Agrees, Learns, Holds
  <2>3. CASE GivesUp(t)
    BY <1>1, <2>3 DEF GivesUp
  <2>4. CASE TakesUp(t)
    <3>1. todo # <<>> => Head(todo) \in Newer(t, n)
      BY TailIn DEF Holds
    <3>2. todo # <<>> /\ IsInit(Head(todo), t) => n < Msg.n /\ Msg.n \in Nat
      <4>1. todo # <<>> /\ IsInit(Head(todo), t) => n < Msg.n /\ Msg.type = "ServerInit"
        BY <3>1 DEF Newer, Msg, IsInit
      <4> QED
        BY <4>1, MsgType, BodyFields DEF Inv, Running
    <3>3. data'[t].init # n
      BY <1>1, <1>2, <2>4, <3>2 DEF TakesUp
    <3> QED
      BY <3>3
  <2> QED
    BY <2>1, <2>2, <2>3, <2>4 DEF KeyStep
<1> QED
  BY <1>2, <1>4, <1>5 DEF Holds, Newer

\* The keys that a server has collected are held by the servers they are for.
LEMMA LearnsHeld ==
  ASSUME Inv, Inv', KeyInv, [Next]_vars, NEW s \in Server, Learns(s), NEW t \in Server,
         data'[s].keys[t] # 0
  PROVE  Holds(t, data[s].init, data[s].keys[t])'
<1>1. /\ st[s] = "Enlist" /\ todo # <<>> /\ Msg.n = data[s].init
      /\ data'[s].init = data[s].init
      /\ \/ Msg.type = "ServerEnlist" /\ data'[s].keys = [data[s].keys EXCEPT ![Msg.from] = Msg.key]
         \/ Msg.type = "ServerEnlisted" /\ data'[s].keys = Msg.keys
  BY DEF Learns
<1>2. Truthful(Msg) /\ data[s].keys \in [Server -> Nat]
  <2>1. Head(todo) \in True
    BY <1>1, TailIn DEF KeyInv
  <2> QED
    BY <2>1, DataFields DEF True, Msg, Inv, Running
<1>3. Holds(t, data[s].init, data'[s].keys[t])
  <2>1. CASE Msg.type = "ServerEnlist" /\ t = Msg.from
    BY <1>1, <1>2, <2>1 DEF Truthful
  <2>2. CASE Msg.type = "ServerEnlist" /\ t # Msg.from
    <3>1. data'[s].keys[t] = data[s].keys[t]
      BY <1>1, <1>2, <2>2
    <3> QED
      BY <1>1, <3>1 DEF KeyInv
  <2>3. CASE Msg.type = "ServerEnlisted"
    BY <1>1, <1>2, <2>3 DEF Truthful
  <2> QED
    BY <1>1, <2>1, <2>2, <2>3
<1>4. \A n, k : Holds(t, n, k) => Holds(t, n, k)'
  BY HoldsNext
<1> QED
  BY <1>1, <1>3, <1>4 DEF Holds

\* So are all that a ServerEnlisted lists.
LEMMA AgreesHeld ==
  ASSUME Inv, Inv', KeyInv, [Next]_vars, NEW s \in Server, Agrees(s)
  PROVE  \A t \in Server : Holds(t, data[s].init, data[s].keys[t])'
<1> SUFFICES ASSUME NEW t \in Server PROVE Holds(t, data[s].init, data[s].keys[t])'
  OBVIOUS
<1>1. Learns(s)
  BY DEF Agrees
<1>2. CASE data'[s].keys[t] # 0
  BY <1>1, <1>2, LearnsHeld
<1>3. CASE data'[s].keys[t] = 0
  <2>1. Msg.type = "ServerEnlisted" /\ data'[s].keys = Msg.keys /\ data'[s].init = Msg.n
        /\ todo # <<>>
    BY <1>3 DEF Agrees, Learns
  <2>2. Head(todo) \in True
    BY <2>1, TailIn DEF KeyInv
  <2>3. Holds(t, Msg.n, Msg.keys[t])
    BY <2>1, <2>2 DEF True, Truthful, Msg
  <2>4. \A n, k : Holds(t, n, k) => Holds(t, n, k)'
    BY HoldsNext
  <2> QED
    BY <2>1, <2>3, <2>4 DEF Holds
<1> QED
  BY <1>2, <1>3

\* What a step sends about keys is true.
LEMMA AdmitsTrue ==
  ASSUME Inv, Inv', OrderInv', KeyInv, [Next]_vars
  PROVE  Admits(True')
<1>1. initCount' \in Nat /\ data' \in [Server -> Data]
  BY DEF Inv, Running
<1>2. Others(True')
  BY DEF Others, True, Truthful, KeyTypes
<1>3. Opens(True')
  <2> SUFFICES ASSUME NEW s \in Server, NEW d \in Server
               PROVE  Pkt(s, d, ServerInit(initCount')) \in True'
    BY DEF Opens
  <2>1. Pkt(s, d, ServerInit(initCount')) \in Packet
    BY <1>1 DEF Pkt, Packet, ServerInit, Body
  <2> QED
    BY <2>1 DEF True, Truthful, Pkt, ServerInit
<1>4. Enlists(True')
  <2> SUFFICES ASSUME NEW s \in Server, NEW d \in Server, data'[s].eph # data[s].eph
               PROVE  Pkt(s, d, ServerEnlist(s, data'[s].init, data'[s].eph)) \in True'
    BY DEF Enlists
  <2>1. Pkt(s, d, ServerEnlist(s, data'[s].init, data'[s].eph)) \in Packet
    BY <1>1, DataFields DEF Pkt, Packet, ServerEnlist, Body
  <2>2. st'[s] = "Enlist"
    BY NextKeys DEF KeyStep, Unmoved, GivesUp, TakesUp, Collects, Agrees, Learns
  <2>3. data'[s].init # 0
    BY <1>1, <2>2, DataFields DEF OrderInv, Numbered, Forming
  <2>4. Holds(s, data[s].init, data[s].eph)'
    BY <2>3, OwnKeyNext DEF OwnKeys
  <2>5. Truthful(ServerEnlist(s, data[s].init, data[s].eph))'
    BY <2>4 DEF Truthful, ServerEnlist
  <2> QED
    BY <2>1, <2>5 DEF True, Pkt
<1>5. Enlisted(True')
  <2> SUFFICES ASSUME NEW s \in Server, NEW d \in Server, st[s] # "Agree", st'[s] = "Agree"
               PROVE  Pkt(s, d, ServerEnlisted(s, data'[s].init, data'[s].keys)) \in True'
    BY DEF Enlisted
  <2>1. Pkt(s, d, ServerEnlisted(s, data'[s].init, data'[s].keys)) \in Packet
    BY <1>1, DataFields DEF Pkt, Packet, ServerEnlisted, Body
  <2>2. Agrees(s)
    BY NextKeys DEF KeyStep, Unmoved, GivesUp, TakesUp, Collects, Keyed
  <2>3. \A t \in Server : Holds(t, data[s].init, data[s].keys[t])'
    BY <2>2, AgreesHeld
  <2>4. Truthful(ServerEnlisted(s, data[s].init, data[s].keys))'
    BY <2>3 DEF Truthful, ServerEnlisted
  <2> QED
    BY <2>1, <2>4 DEF True, Pkt
<1> QED
  BY <1>2, <1>3, <1>4, <1>5 DEF Admits

LEMMA NextKeyInv == Inv /\ Inv' /\ OrderInv' /\ KeyInv /\ [Next]_vars => KeyInv'
<1> SUFFICES ASSUME Inv, Inv', OrderInv', KeyInv, [Next]_vars PROVE KeyInv'
  OBVIOUS
<1>1. PacketsIn(storage', todo', chan', True')
  <2>1. PacketsIn(storage, todo, chan, True')
    <3>1. True \subseteq True'
      <4>1. \A t \in Server : \A n, k : Holds(t, n, k) => Holds(t, n, k)'
        BY HoldsNext
      <4> SUFFICES ASSUME NEW p \in Packet, Truthful(p.body) PROVE Truthful(p.body)'
        BY DEF True
      <4>2. p.body \in Body
        BY DEF Packet
      <4>3. p.body.type = "ServerEnlist" => p.body.from \in Server
        BY <4>2, BodyFields
      <4> QED
        BY <4>1, <4>3 DEF Truthful
    <3>2. Seq(True) \subseteq Seq(True')
      BY <3>1, SeqMono
    <3> QED
      BY <3>2 DEF KeyInv, PacketsIn
  <2> QED
    BY <2>1, AdmitsTrue, NextIn
<1>2. ASSUME NEW s \in Server, st'[s] = "Enlist", NEW t \in Server, data'[s].keys[t] # 0
      PROVE  Holds(t, data[s].init, data[s].keys[t])'
  <2>1. KeyStep(s)
    BY NextKeys
  <2>2. CASE Unmoved(s)
    <3>1. Holds(t, data[s].init, data[s].keys[t])
      BY <1>2, <2>2 DEF KeyInv, Unmoved
    <3>2. \A n, k : Holds(t, n, k) => Holds(t, n, k)'
      BY HoldsNext
    <3> QED
      BY <2>2, <3>1, <3>2 DEF Unmoved, Holds
  <2>3. CASE TakesUp(s)
    BY <1>2, <2>3 DEF TakesUp, NoKeys
  <2>4. CASE Collects(s)
    BY <1>2, <2>4, LearnsHeld DEF Collects
  <2> QED
    BY <1>2, <2>1, <2>2, <2>3, <2>4 DEF KeyStep, GivesUp, Agrees
<1>3. KeyCustody'
  <2> SUFFICES ASSUME NEW s \in Server, st'[s] \in Keyed
               PROVE  data'[s].rid.keys[s] = data'[s].eph
    BY DEF KeyCustody, Keyed
  <2>1. KeyStep(s)
    BY NextKeys
  <2>2. CASE Unmoved(s)
    BY <2>2 DEF KeyInv, KeyCustody, Unmoved, Keyed
  <2>3. CASE Agrees(s)
    <3>1. Holds(s, data[s].init, data[s].keys[s])'
      BY <2>3, AgreesHeld
    <3> QED
      BY <2>3, <3>1 DEF Agrees, Holds
  <2> QED
    BY <2>1, <2>2, <2>3 DEF KeyStep, GivesUp, TakesUp, Collects, Keyed, Queued
<1> QED
  BY <1>1, <1>2, <1>3 DEF KeyInv

LEMMA InitKeyInv == Init => KeyInv
<1> SUFFICES ASSUME Init PROVE KeyInv
  OBVIOUS
<1>1. PacketsIn(storage, todo, chan, True)
  <2>1. <<>> \in Seq(True)
    OBVIOUS
  <2> HIDE DEF True
  <2> QED
    BY <2>1 DEF Init, PacketsIn
<1> QED
  BY <1>1 DEF Init, KeyInv, KeyCustody, Queued

LEMMA SpecKeyInv == Spec => []KeyInv
<1>1. Inv /\ OrderInv /\ [Next]_vars => Inv' /\ OrderInv'
  BY NextInv, NextOrder
<1> QED
  BY <1>1, InitInv, InitOrder, InitKeyInv, NextKeyInv, PTL DEF Spec

\* In a round every server has the private half of the key that the RoundId, and
\* so every other server, has for it: EnlistState makes a new key at each attempt,
\* and no ServerEnlist or ServerEnlisted of an earlier attempt, stored, relayed or
\* late, brings an old key back into AgreeState.
THEOREM KeysAreHeld == Spec => []KeyCustody
<1>1. KeyInv => KeyCustody
  BY DEF KeyInv
<1> QED
  BY <1>1, SpecKeyInv, PTL
=============================================================================
