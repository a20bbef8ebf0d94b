---------------------- MODULE ConnectionManagerProofs ----------------------
(***************************************************************************)
(* What holds of the connections for every set of nodes, all addresses     *)
(* they are told to dial and every bound: the tables are consistent in     *)
(* every state, and when nothing is under way any more the two ends of an  *)
(* edge agree on whether it is the connection.                             *)
(***************************************************************************)
EXTENDS ConnectionManager, TLAPS

-----------------------------------------------------------------------------
(* Shapes *)

Fields ==
  {"active", "edges", "byId", "byEdge", "hooked", "ids", "addrs", "stopped", "over"}
IsNode(r) ==
  /\ r = [f \in Fields |-> r[f]]
  /\ r.byId = [m \in Node |-> r.byId[m]]
  /\ r.byEdge = [x \in DOMAIN r.byEdge |-> r.byEdge[x]]
  /\ r.addrs \subseteq Node

WorkFields == {"r", "out", "gone", "dial", "pick"}
Message ==
  [type : {"Inquire", "Inquired", "Connect", "Close", "Disconnect"}, id : Node \cup {0}]
Hellos == {"Inquire", "Inquired", "Connect"}
IsWork(w) ==
  /\ w = [f \in WorkFields |-> w[f]] /\ IsNode(w.r)
  /\ w.out \in [End -> Seq(Message)]

Typed ==
  /\ node = [n \in Node |-> node[n]] /\ \A n \in Node : IsNode(node[n])
  /\ edge = [e \in Slot |-> edge[e]]
  /\ open \subseteq End /\ dial \subseteq Node \X Node
  /\ \A x \in open : edge[x.e].from \in Node /\ edge[x.e].to \in Node
  /\ chan = [x \in End |-> chan[x]] /\ \A x \in End : chan[x] \in Seq(Message)
  /\ \A c \in Node \ Server : Remote[c] # {}

LEMMA EndFacts ==
  /\ Loop \notin End /\ NoEnd \notin End /\ Loop # NoEnd
  /\ \A x \in End : /\ Other(x) \in End /\ Other(x) # x /\ Other(x).e = x.e
                    /\ Other(Other(x)) = x
BY SlotAssumption DEF Loop, NoEnd, End, Other

LEMMA OwnerFacts ==
  ASSUME Typed, NEW x \in open
  PROVE  Owner(x) \in Node /\ Owner(Other(x)) \in Node
BY EndFacts DEF Typed, Owner

-----------------------------------------------------------------------------
(* What every operator on w keeps.  D are the addresses that n was dialing *)
(* before.                                                                 *)

\* The table of n, in which the ends that are gone have no place.
Table(n, w) ==
  LET r == w.r
  IN /\ r.edges \cap w.gone = {}
     /\ r.edges \ {Loop} = {x \in open : Owner(x) = n} \ w.gone
     /\ \A m \in Node : r.byId[m] # NoEnd =>
          r.byId[m] \in DOMAIN r.byEdge /\ r.byEdge[r.byId[m]] = m
     /\ \A x \in DOMAIN r.byEdge :
          x \in r.edges /\ r.byEdge[x] \in Node /\ r.byId[r.byEdge[x]] = x

\* The active addresses are those that are being dialed or have an edge.
Dialed(n, w) == Outbound(n) \ w.gone
Watch(n, D, w) ==
  /\ D \cup w.dial \subseteq Node
  /\ ~w.r.stopped =>
       /\ w.r.active = D \cup w.dial \cup {edge[x.e].to : x \in Dialed(n, w)}
       /\ \A x \in Dialed(n, w) :
            /\ edge[x.e].to \notin D \cup w.dial
            /\ \A y \in Dialed(n, w) : edge[x.e].to = edge[y.e].to => x = y

Good(n, D, w) ==
  /\ IsWork(w) /\ Table(n, w) /\ Watch(n, D, w)
  /\ n \in Server \/ w.pick \in Node \/ w.r.stopped

\* Nothing of the table, the edges and the messages changes.
Same(w, v) ==
  /\ v.out = w.out /\ v.gone = w.gone /\ v.pick = w.pick
  /\ v.r.edges = w.r.edges /\ v.r.byId = w.r.byId /\ v.r.byEdge = w.r.byEdge
  /\ v.r.stopped = w.r.stopped

LEMMA SameTrans ==
  ASSUME NEW a, NEW b, NEW c, Same(a, b), Same(b, c)
  PROVE  Same(a, c)
BY DEF Same

LEMMA SameTable ==
  ASSUME NEW n, NEW w, NEW v, Same(w, v), Table(n, w)
  PROVE  Table(n, v)
BY DEF Same, Table

-----------------------------------------------------------------------------
(* The acquirers *)

LEMMA ConnectToGood ==
  ASSUME Typed, NEW n \in Node, NEW D, NEW w, Good(n, D, w), NEW a \in Node,
         NEW v, v = ConnectTo(w, a)
  PROVE  Good(n, D, v) /\ Same(w, v)
<1>1. CASE v = w
  BY <1>1 DEF Same
<1>2. CASE /\ ~w.r.stopped /\ a \notin w.r.active
           /\ v = [w EXCEPT !.r.active = @ \cup {a}, !.dial = @ \cup {a}]
  <2>1. /\ IsWork(v) /\ Same(w, v)
        /\ v.r.active = w.r.active \cup {a} /\ v.dial = w.dial \cup {a}
    <3> DEFINE r == [w.r EXCEPT !.active = @ \cup {a}] d == w.dial \cup {a}
    <3>1. v = [w EXCEPT !.r = r, !.dial = d]
      BY <1>2
    <3>2. /\ IsNode(r) /\ r.active = w.r.active \cup {a} /\ r.edges = w.r.edges
          /\ r.byId = w.r.byId /\ r.byEdge = w.r.byEdge /\ r.stopped = w.r.stopped
      BY DEF Good, IsWork, IsNode, Fields
    <3> HIDE DEF r, d
    <3>3. /\ IsWork(v) /\ v.r = r /\ v.dial = d
          /\ v.out = w.out /\ v.gone = w.gone /\ v.pick = w.pick
      BY <3>1, <3>2 DEF Good, IsWork, WorkFields
    <3> QED
      BY <3>2, <3>3 DEF Same, d
  <2>2. Dialed(n, v) = Dialed(n, w)
    BY <2>1 DEF Dialed, Same
  <2>3. Watch(n, D, v)
    BY <1>2, <2>1, <2>2 DEF Watch, Good, Same
  <2> QED
    BY <2>1, <2>3, SameTable DEF Good, Same
<1> QED
  BY <1>1, <1>2 DEF ConnectTo

\* What the acquirer remembers of ids and addresses does not matter.
LEMMA RememberGood ==
  ASSUME NEW n, NEW D, NEW w, Good(n, D, w), NEW r, IsNode(r),
         r.active = w.r.active, r.edges = w.r.edges, r.byId = w.r.byId,
         r.byEdge = w.r.byEdge, r.stopped = w.r.stopped,
         NEW v, v = [w EXCEPT !.r = r]
  PROVE  Good(n, D, v) /\ Same(w, v) /\ v.r = r
<1>1. /\ IsWork(v) /\ Same(w, v) /\ v.r = r /\ v.dial = w.dial
  BY DEF Good, IsWork, WorkFields, Same
<1>2. Dialed(n, v) = Dialed(n, w)
  BY <1>1 DEF Dialed, Same
<1>3. Watch(n, D, v)
  BY <1>1, <1>2 DEF Watch, Good, Same
<1> QED
  BY <1>1, <1>3, SameTable DEF Good, Same

LEMMA AttemptGood ==
  ASSUME Typed, NEW n \in Node \ Server, NEW D, NEW w, Good(n, D, w), ~w.r.stopped,
         NEW v, v = AttemptConnection(w)
  PROVE  Good(n, D, v) /\ Same(w, v)
<1>1. w.pick \in Node
  BY DEF Good
<1>2. CASE v = w
  BY <1>2 DEF Same
<1>3. CASE v = ConnectTo(w, w.pick)
  BY <1>1, <1>3, ConnectToGood
<1> QED
  BY <1>2, <1>3 DEF AttemptConnection

LEMMA FailureGood ==
  ASSUME Typed, NEW n \in Node, NEW D, NEW w, Good(n, D, w), NEW a,
         NEW v, v = HandleConnectionAttemptFailure(n, w, a)
  PROVE  Good(n, D, v) /\ Same(w, v)
<1>1. CASE v = w
  BY <1>1 DEF Same
<1>2. CASE a \in w.r.addrs /\ v = [w EXCEPT !.r.addrs = @ \ {a}]
  <2> DEFINE r == [w.r EXCEPT !.addrs = @ \ {a}]
  <2>1. v = [w EXCEPT !.r = r]
    BY <1>2
  <2>2. /\ IsNode(r) /\ r.active = w.r.active /\ r.edges = w.r.edges /\ r.byId = w.r.byId
        /\ r.byEdge = w.r.byEdge /\ r.stopped = w.r.stopped
    BY DEF Good, IsWork, IsNode, Fields
  <2> HIDE DEF r
  <2> QED
    BY <2>1, <2>2, RememberGood
<1>3. CASE a \in w.r.addrs /\ v = ConnectTo(w, a)
  <2>1. a \in Node
    BY <1>3 DEF Good, IsWork, IsNode
  <2> QED
    BY <1>3, <2>1, ConnectToGood
<1>4. CASE ~w.r.stopped /\ n \notin Server /\ v = AttemptConnection(w)
  BY <1>4, AttemptGood
<1> QED
  BY <1>1, <1>2, <1>3, <1>4 DEF HandleConnectionAttemptFailure

LEMMA ConnectionGood ==
  ASSUME Typed, NEW n \in Node, NEW D, NEW w, Good(n, D, w), NEW x, NEW id,
         NEW v, v = HandleConnection(n, w, x, id)
  PROVE  Good(n, D, v) /\ Same(w, v)
<1>1. CASE v = w
  BY <1>1 DEF Same
<1>3. CASE v = [w EXCEPT !.r.hooked = @ \cup {x}]
  <2> DEFINE r == [w.r EXCEPT !.hooked = @ \cup {x}]
  <2>1. v = [w EXCEPT !.r = r]
    BY <1>3
  <2>2. /\ IsNode(r) /\ r.active = w.r.active /\ r.edges = w.r.edges /\ r.byId = w.r.byId
        /\ r.byEdge = w.r.byEdge /\ r.stopped = w.r.stopped
    BY DEF Good, IsWork, IsNode, Fields
  <2> HIDE DEF r
  <2> QED
    BY <2>1, <2>2, RememberGood
<1>4. CASE ~w.r.stopped /\ n \notin Server /\ v = AttemptConnection(w)
  BY <1>4, AttemptGood
<1>5. CASE ~w.r.stopped /\ n \in Server /\ id \in w.r.ids
  <2> DEFINE ids == w.r.ids \ {id} hooked == w.r.hooked \cup {x}
             addrs == IF ids = {} THEN {} ELSE w.r.addrs \ {id}
             r == [w.r EXCEPT !.ids = ids, !.addrs = addrs, !.hooked = hooked]
  <2>1. v = [w EXCEPT !.r = r]
    BY <1>5 DEF HandleConnection
  <2>2. addrs \subseteq w.r.addrs
    OBVIOUS
  <2> HIDE DEF ids, hooked, addrs
  <2>3. /\ IsNode(r) /\ r.active = w.r.active /\ r.edges = w.r.edges /\ r.byId = w.r.byId
        /\ r.byEdge = w.r.byEdge /\ r.stopped = w.r.stopped
    BY <2>2 DEF Good, IsWork, IsNode, Fields
  <2> HIDE DEF r
  <2> QED
    BY <2>1, <2>3, RememberGood
<1> QED
  BY <1>1, <1>3, <1>4, <1>5 DEF HandleConnection

LEMMA DisconnectionGood ==
  ASSUME Typed, NEW n \in Node, NEW D, NEW w, Good(n, D, w), NEW id \in Node,
         NEW v, v = HandleDisconnection(n, w, id)
  PROVE  Good(n, D, v) /\ Same(w, v)
<1>1. CASE v = w
  BY <1>1 DEF Same
<1>2. CASE v = ConnectTo(Lost(w, id), id)
  <2> DEFINE r == [w.r EXCEPT !.ids = @ \cup {id}, !.addrs = @ \cup {id}]
             u == [w EXCEPT !.r = r]
  <2>1. v = ConnectTo(u, id)
    BY <1>2 DEF Lost
  <2>2. /\ IsNode(r) /\ r.active = w.r.active /\ r.edges = w.r.edges /\ r.byId = w.r.byId
        /\ r.byEdge = w.r.byEdge /\ r.stopped = w.r.stopped
    BY DEF Good, IsWork, IsNode, Fields
  <2> HIDE DEF r
  <2>3. Good(n, D, u) /\ Same(w, u)
    BY <2>2, RememberGood
  <2> HIDE DEF u
  <2>4. Good(n, D, v) /\ Same(u, v)
    BY <2>1, <2>3, ConnectToGood
  <2> QED
    BY <2>3, <2>4, SameTrans
<1>3. CASE ~w.r.stopped /\ n \notin Server /\ v = AttemptConnection(w)
  BY <1>3, AttemptGood
<1> QED
  BY <1>1, <1>2, <1>3 DEF HandleDisconnection

-----------------------------------------------------------------------------
(* An edge that closes, at the end x of n, and everything that is called   *)
(* before the call returns.                                                *)

\* Between the slots of the manager and of the connection.
Halfway(w, u, x) ==
  /\ IsWork(u) /\ u.gone = w.gone \cup {x} /\ u.dial = w.dial /\ u.pick = w.pick
  /\ u.r.edges = w.r.edges \ {x} /\ u.r.active = w.r.active \ {GetRemoteAddress(x)}
  /\ u.r.byEdge = w.r.byEdge /\ u.r.stopped = w.r.stopped
  /\ \A i \in Node : \/ u.r.byId[i] = w.r.byId[i]
                     \/ w.r.byId[i] = x /\ u.r.byId[i] = NoEnd

Closed(w, v, x) ==
  /\ v.gone = w.gone \cup {x} /\ v.pick = w.pick
  /\ v.r.edges = w.r.edges \ {x} /\ v.r.stopped = w.r.stopped
  /\ DOMAIN v.r.byEdge = DOMAIN w.r.byEdge \ {x}
  /\ \A y \in DOMAIN v.r.byEdge : v.r.byEdge[y] = w.r.byEdge[y]
  /\ \A i \in Node : v.r.byId[i] = IF w.r.byId[i] = x THEN NoEnd ELSE w.r.byId[i]

LEMMA ClosedWatch ==
  ASSUME Typed, NEW n \in Node, NEW D, NEW w, Good(n, D, w), NEW x \in w.r.edges,
         NEW v, v.gone = w.gone \cup {x}, v.dial = w.dial, v.r.stopped = w.r.stopped,
         v.r.active = w.r.active \ {GetRemoteAddress(x)}
  PROVE  Watch(n, D, v)
<1> SUFFICES ASSUME ~w.r.stopped
             PROVE  /\ v.r.active = D \cup w.dial \cup {edge[y.e].to : y \in Dialed(n, v)}
                    /\ \A y \in Dialed(n, v) :
                         /\ edge[y.e].to \notin D \cup w.dial
                         /\ \A z \in Dialed(n, v) : edge[y.e].to = edge[z.e].to => y = z
  BY DEF Good, Watch
<1> DEFINE to(y) == edge[y.e].to T == D \cup w.dial
<1>1. Dialed(n, v) = Dialed(n, w) \ {x}
  BY DEF Dialed
<1>2. /\ w.r.active = T \cup {to(y) : y \in Dialed(n, w)} /\ T \subseteq Node
      /\ \A y \in Dialed(n, w) :
           to(y) \notin T /\ \A z \in Dialed(n, w) : to(y) = to(z) => y = z
  BY DEF Good, Watch
<1>3. \A y \in Dialed(n, w) : to(y) \in Node
  BY DEF Dialed, Outbound, Typed
<1>4. CASE x \in Dialed(n, w)
  <2>1. GetRemoteAddress(x) = to(x)
    BY <1>4, EndFacts DEF GetRemoteAddress, Dialed, Outbound, Typed
  <2> HIDE DEF to, T
  <2> QED
    BY <1>1, <1>2, <1>4, <2>1 DEF T, to
<1>5. CASE x \notin Dialed(n, w)
  <2>1. x \notin Outbound(n)
    BY <1>5 DEF Good, Table, Dialed
  <2>2. x = Loop \/ (x \in open /\ Owner(x) = n)
    BY DEF Good, Table
  <2>3. x = Loop \/ ~x.out
    BY <2>1, <2>2 DEF Outbound
  <2>4. GetRemoteAddress(x) = 0 /\ 0 \notin Node
    BY <2>3, IdAssumption DEF GetRemoteAddress, NoAddress
  <2>5. 0 \notin w.r.active
    BY <1>2, <1>3, <2>4
  <2> HIDE DEF to, T
  <2> QED
    BY <1>1, <1>2, <1>5, <2>4, <2>5 DEF T, to
<1> QED
  BY <1>4, <1>5

LEMMA SignalHalfway ==
  ASSUME NEW w, NEW x, NEW u, Halfway(w, u, x), NEW v, v = SignalDisconnected(u)
  PROVE  Halfway(w, v, x) /\ v.out = u.out
<1>1. CASE v = u
  BY <1>1
<1>2. CASE v = [u EXCEPT !.r.over = @ + 1]
  <2> DEFINE r == [u.r EXCEPT !.over = @ + 1]
  <2>1. v = [u EXCEPT !.r = r]
    BY <1>2
  <2>2. /\ IsNode(r) /\ r.active = u.r.active /\ r.edges = u.r.edges /\ r.byId = u.r.byId
        /\ r.byEdge = u.r.byEdge /\ r.stopped = u.r.stopped
    BY DEF Halfway, IsWork, IsNode, Fields
  <2> HIDE DEF r
  <2>3. /\ IsWork(v) /\ v.r = r /\ v.out = u.out /\ v.gone = u.gone /\ v.dial = u.dial
        /\ v.pick = u.pick
    BY <2>1, <2>2 DEF Halfway, IsWork, WorkFields
  <2> QED
    BY <2>2, <2>3 DEF Halfway
<1> QED
  BY <1>1, <1>2 DEF SignalDisconnected

LEMMA RemoveStep ==
  ASSUME NEW u, IsWork(u), NEW x, NEW v, v = RemoveConnection(u, x)
  PROVE  /\ IsWork(v) /\ v.out = u.out /\ v.gone = u.gone /\ v.dial = u.dial
         /\ v.pick = u.pick /\ v.r.edges = u.r.edges /\ v.r.active = u.r.active
         /\ v.r.stopped = u.r.stopped
         /\ DOMAIN v.r.byEdge = DOMAIN u.r.byEdge \ {x}
         /\ \A y \in DOMAIN v.r.byEdge : v.r.byEdge[y] = u.r.byEdge[y]
         /\ \A i \in Node : v.r.byId[i] = IF u.r.byId[i] = x THEN NoEnd ELSE u.r.byId[i]
<1> DEFINE i0 == [i \in DOMAIN u.r.byId |-> IF u.r.byId[i] = x THEN NoEnd ELSE u.r.byId[i]]
           e0 == [y \in DOMAIN u.r.byEdge \ {x} |-> u.r.byEdge[y]]
           h0 == u.r.hooked \ {x}
           r == [u.r EXCEPT !.byId = i0, !.byEdge = e0, !.hooked = h0]
<1>1. v = [u EXCEPT !.r = r]
  BY DEF RemoveConnection
<1>2. DOMAIN u.r.byId = Node
  BY DEF IsWork, IsNode
<1>3. /\ i0 = [m \in Node |-> i0[m]] /\ e0 = [y \in DOMAIN e0 |-> e0[y]]
      /\ DOMAIN e0 = DOMAIN u.r.byEdge \ {x}
      /\ \A y \in DOMAIN e0 : e0[y] = u.r.byEdge[y]
      /\ \A i \in Node : i0[i] = IF u.r.byId[i] = x THEN NoEnd ELSE u.r.byId[i]
  BY <1>2
<1> HIDE DEF i0, e0, h0
<1>4. /\ IsNode(r) /\ r.byId = i0 /\ r.byEdge = e0 /\ r.active = u.r.active
      /\ r.edges = u.r.edges /\ r.stopped = u.r.stopped
  BY <1>3 DEF IsWork, IsNode, Fields
<1> HIDE DEF r
<1>5. /\ IsWork(v) /\ v.r = r /\ v.out = u.out /\ v.gone = u.gone /\ v.dial = u.dial
      /\ v.pick = u.pick
  BY <1>1, <1>4 DEF IsWork, WorkFields
<1> QED
  BY <1>3, <1>4, <1>5

\* The table without the connection is a table again.
LEMMA ClosedTable ==
  ASSUME NEW n, NEW w, Table(n, w), NEW x \in w.r.edges, NEW v, Closed(w, v, x)
  PROVE  Table(n, v)
<1>1. /\ v.r.edges \cap v.gone = {}
      /\ v.r.edges \ {Loop} = {y \in open : Owner(y) = n} \ v.gone
  BY DEF Table, Closed
<1>2. ASSUME NEW m \in Node, v.r.byId[m] # NoEnd
      PROVE  v.r.byId[m] \in DOMAIN v.r.byEdge /\ v.r.byEdge[v.r.byId[m]] = m
  BY <1>2 DEF Table, Closed
<1>3. ASSUME NEW y \in DOMAIN v.r.byEdge
      PROVE  y \in v.r.edges /\ v.r.byEdge[y] \in Node /\ v.r.byId[v.r.byEdge[y]] = y
  BY <1>3 DEF Table, Closed
<1> QED
  BY <1>1, <1>2, <1>3 DEF Table

LEMMA ClosingGood ==
  ASSUME Typed, NEW n \in Node, NEW D, NEW w, Good(n, D, w), NEW x \in w.r.edges,
         NEW u, Halfway(w, u, x),
         NEW v, v = HandleDisconnected(n, SignalDisconnected(u), x)
  PROVE  Good(n, D, v) /\ Closed(w, v, x) /\ v.out = u.out
<1> DEFINE a == SignalDisconnected(u)
<1>1. Halfway(w, a, x) /\ a.out = u.out
  BY SignalHalfway
<1>2. v = HandleDisconnected(n, a, x)
  OBVIOUS
<1> HIDE DEF a
<1>3. CASE x \notin DOMAIN w.r.byEdge
  <2>1. v = a
    BY <1>1, <1>2, <1>3 DEF HandleDisconnected, Halfway
  <2>2. \A i \in Node : w.r.byId[i] # x
    <3>1. x # NoEnd
      BY EndFacts DEF Good, Table, Typed
    <3> QED
      BY <1>3, <3>1 DEF Good, Table
  <2>3. Closed(w, a, x)
    BY <1>1, <1>3, <2>2 DEF Halfway, Closed
  <2>4. Table(n, a)
    BY <2>3, ClosedTable DEF Good
  <2>5. Watch(n, D, a)
    BY <1>1, ClosedWatch DEF Halfway
  <2> QED
    BY <1>1, <2>1, <2>3, <2>4, <2>5 DEF Good, Halfway
<1>4. CASE x \in DOMAIN w.r.byEdge
  <2> DEFINE id == a.r.byEdge[x] b == RemoveConnection(a, x)
  <2>1. v = IF x \in a.r.hooked THEN HandleDisconnection(n, b, id) ELSE b
    BY <1>1, <1>2, <1>4 DEF HandleDisconnected, Halfway
  <2>2. id \in Node
    BY <1>1, <1>4 DEF Halfway, Good, Table
  <2>3. /\ IsWork(b) /\ b.out = a.out /\ b.gone = a.gone /\ b.dial = a.dial
        /\ b.pick = a.pick /\ b.r.edges = a.r.edges /\ b.r.active = a.r.active
        /\ b.r.stopped = a.r.stopped
        /\ DOMAIN b.r.byEdge = DOMAIN a.r.byEdge \ {x}
        /\ \A y \in DOMAIN b.r.byEdge : b.r.byEdge[y] = a.r.byEdge[y]
        /\ \A i \in Node : b.r.byId[i] = IF a.r.byId[i] = x THEN NoEnd ELSE a.r.byId[i]
    BY <1>1, RemoveStep DEF Halfway
  <2> HIDE DEF b, id
  <2>4. Closed(w, b, x)
    BY <1>1, <2>3 DEF Halfway, Closed
  <2>5. Table(n, b)
    BY <2>4, ClosedTable DEF Good
  <2>6. Watch(n, D, b)
    BY <1>1, <2>3, ClosedWatch DEF Halfway
  <2>7. Good(n, D, b) /\ b.out = u.out
    BY <1>1, <2>3, <2>5, <2>6 DEF Good, Halfway
  <2>8. CASE v = b
    BY <2>4, <2>7, <2>8
  <2>9. CASE v = HandleDisconnection(n, b, id)
    <3>1. Good(n, D, v) /\ Same(b, v)
      BY <2>2, <2>7, <2>9, DisconnectionGood
    <3> QED
      BY <2>4, <2>7, <3>1 DEF Same, Closed
  <2> QED
    BY <2>1, <2>8, <2>9
<1> QED
  BY <1>3, <1>4

\* The connection is no longer found by its id.
Cleared(w, c, x) ==
  /\ IsWork(c) /\ c.gone = w.gone /\ c.dial = w.dial /\ c.pick = w.pick
  /\ c.r.edges = w.r.edges /\ c.r.active = w.r.active
  /\ c.r.byEdge = w.r.byEdge /\ c.r.stopped = w.r.stopped
  /\ \A i \in Node : \/ c.r.byId[i] = w.r.byId[i]
                     \/ w.r.byId[i] = x /\ c.r.byId[i] = NoEnd

LEMMA ClearStep ==
  ASSUME NEW w, IsWork(w), NEW x \in DOMAIN w.r.byEdge, w.r.byEdge[x] \in Node,
         x # NoEnd, NEW v, v = TableDisconnect(w, x)
  PROVE  Cleared(w, v, x) /\ v.out = w.out /\ v.r.byId[w.r.byEdge[x]] # x
<1> DEFINE id == w.r.byEdge[x]
<1>1. CASE w.r.byId[id] # x
  <2>1. v = w
    BY <1>1 DEF TableDisconnect
  <2> QED
    BY <1>1, <2>1 DEF Cleared
<1>2. CASE w.r.byId[id] = x
  <2> DEFINE i0 == [w.r.byId EXCEPT ![id] = NoEnd] r == [w.r EXCEPT !.byId = i0]
  <2>1. v = [w EXCEPT !.r = r]
    BY <1>2 DEF TableDisconnect
  <2>2. /\ i0 = [m \in Node |-> i0[m]]
        /\ \A i \in Node : i0[i] = IF i = id THEN NoEnd ELSE w.r.byId[i]
    BY DEF IsWork, IsNode
  <2> HIDE DEF i0
  <2>3. /\ IsNode(r) /\ r.byId = i0 /\ r.byEdge = w.r.byEdge /\ r.active = w.r.active
        /\ r.edges = w.r.edges /\ r.stopped = w.r.stopped
    BY <2>2 DEF IsWork, IsNode, Fields
  <2> HIDE DEF r
  <2>4. /\ IsWork(v) /\ v.r = r /\ v.out = w.out /\ v.gone = w.gone /\ v.dial = w.dial
        /\ v.pick = w.pick
    BY <2>1, <2>3 DEF IsWork, WorkFields
  <2> QED
    BY <1>2, <2>2, <2>3, <2>4 DEF Cleared
<1> QED
  BY <1>1, <1>2

LEMMA RemoveEdgeStep ==
  ASSUME NEW w, NEW x, NEW c, Cleared(w, c, x), NEW v, v = RemoveEdge(c, x)
  PROVE  Halfway(w, v, x) /\ v.out = c.out
<1> DEFINE a == c.r.active \ {GetRemoteAddress(x)} e == c.r.edges \ {x}
           r == [c.r EXCEPT !.active = a, !.edges = e] g == c.gone \cup {x}
<1>1. v = [c EXCEPT !.gone = g, !.r = r]
  BY DEF RemoveEdge
<1> HIDE DEF a, e
<1>2. /\ IsNode(r) /\ r.active = a /\ r.edges = e /\ r.byId = c.r.byId
      /\ r.byEdge = c.r.byEdge /\ r.stopped = c.r.stopped
  BY DEF Cleared, IsWork, IsNode, Fields
<1> HIDE DEF r, g
<1>3. /\ IsWork(v) /\ v.r = r /\ v.gone = g /\ v.out = c.out /\ v.dial = c.dial
      /\ v.pick = c.pick
  BY <1>1, <1>2 DEF Cleared, IsWork, WorkFields
<1> QED
  BY <1>2, <1>3 DEF Cleared, Halfway, a, e, g

\* Edge::Stop, with the connection in the table or already taken out by its id.
LEMMA CloseGood ==
  ASSUME Typed, NEW n \in Node, NEW D, NEW w, Good(n, D, w), NEW x \in w.r.edges,
         NEW c, Cleared(w, c, x), NEW v, v = HandleEdgeClose(n, c, x)
  PROVE  Good(n, D, v) /\ Closed(w, v, x) /\ v.out = c.out
<1> DEFINE a == RemoveEdge(c, x)
           now == IF x \in DOMAIN a.r.byEdge THEN a.r.byId[a.r.byEdge[x]] ELSE NoEnd
           u == IF now # NoEnd THEN HandleDisconnect(n, a, now) ELSE a
<1>1. Halfway(w, a, x) /\ a.out = c.out
  BY RemoveEdgeStep
<1>2. v = HandleDisconnected(n, SignalDisconnected(u), x)
  BY DEF HandleEdgeClose
<1> HIDE DEF a
<1>3. CASE now = NoEnd
  <2>1. u = a
    BY <1>3
  <2> HIDE DEF now, u
  <2> QED
    BY <1>1, <1>2, <2>1, ClosingGood
<1>4. CASE now # NoEnd
  <2> DEFINE id == a.r.byEdge[x] b == TableDisconnect(a, x)
  <2>1. /\ x \in DOMAIN w.r.byEdge /\ id = w.r.byEdge[x] /\ now = a.r.byId[id]
    BY <1>1, <1>4 DEF Halfway
  <2>2. id \in Node /\ w.r.byId[id] = x
    BY <2>1 DEF Good, Table
  <2>3. a.r.byId[id] = x /\ now = x
    BY <1>1, <1>4, <2>1, <2>2 DEF Halfway
  <2>4. u = HandleDisconnect(n, a, x)
    BY <1>4, <2>3
  <2>5. u = b
    BY <1>1, <2>4 DEF HandleDisconnect, Halfway
  <2>6. Cleared(a, b, x) /\ b.out = a.out
    <3>1. x \in DOMAIN a.r.byEdge /\ IsWork(a) /\ x # NoEnd
      BY <1>1, <1>4, <2>1, <2>3 DEF Halfway
    <3> HIDE DEF now, u
    <3> QED
      BY <2>2, <3>1, ClearStep
  <2> HIDE DEF id, now, u, b
  <2>7. Halfway(w, b, x)
    BY <1>1, <2>2, <2>6 DEF Halfway, Cleared
  <2> QED
    BY <1>1, <1>2, <2>5, <2>6, <2>7, ClosingGood
<1> QED
  BY <1>3, <1>4

-----------------------------------------------------------------------------
(* Messages *)

Msgs(s) == {s[k] : k \in 1..Len(s)}
Says(type, id) == [type |-> type, id |-> id]

LEMMA NoMsgs == Msgs(<<>>) = {}
BY DEF Msgs

LEMMA MsgsAppend ==
  ASSUME NEW S, NEW s \in Seq(S), NEW m
  PROVE  Msgs(Append(s, m)) = Msgs(s) \cup {m}
<1> DEFINE t == Append(s, m)
<1>1. Len(t) = Len(s) + 1 /\ Len(s) \in Nat
  OBVIOUS
<1>2. t[Len(s) + 1] = m /\ \A k \in 1..Len(s) : t[k] = s[k]
  OBVIOUS
<1>3. 1..(Len(s) + 1) = 1..Len(s) \cup {Len(s) + 1}
  BY <1>1
<1> HIDE DEF t
<1>4. Msgs(t) = {t[k] : k \in 1..Len(s)} \cup {t[Len(s) + 1]}
  BY <1>1, <1>3 DEF Msgs
<1> QED
  BY <1>2, <1>4 DEF Msgs, t

LEMMA MsgsConcat ==
  ASSUME NEW S, NEW s \in Seq(S), NEW t \in Seq(S)
  PROVE  Msgs(s \o t) = Msgs(s) \cup Msgs(t)
<1> DEFINE u == s \o t
<1>1. Len(u) = Len(s) + Len(t) /\ Len(s) \in Nat /\ Len(t) \in Nat
  OBVIOUS
<1>2. /\ \A k \in 1..Len(s) : u[k] = s[k]
      /\ \A k \in 1..Len(t) : u[Len(s) + k] = t[k]
  OBVIOUS
<1> HIDE DEF u
<1>3. ASSUME NEW k \in 1..Len(u)  PROVE u[k] \in Msgs(s) \cup Msgs(t)
  <2>1. CASE k \in 1..Len(s)
    BY <1>2, <2>1 DEF Msgs
  <2>2. CASE k \notin 1..Len(s)
    <3>1. k - Len(s) \in 1..Len(t) /\ k = Len(s) + (k - Len(s))
      BY <1>1, <2>2
    <3> QED
      BY <1>2, <3>1 DEF Msgs
  <2> QED
    BY <2>1, <2>2
<1>4. ASSUME NEW k \in 1..Len(s)  PROVE s[k] \in Msgs(u)
  <2>1. k \in 1..Len(u)
    BY <1>1
  <2> QED
    BY <1>2, <2>1 DEF Msgs
<1>5. ASSUME NEW k \in 1..Len(t)  PROVE t[k] \in Msgs(u)
  <2>1. Len(s) + k \in 1..Len(u)
    BY <1>1
  <2> QED
    BY <1>2, <2>1 DEF Msgs
<1>6. Msgs(u) \subseteq Msgs(s) \cup Msgs(t) /\ Msgs(s) \subseteq Msgs(u) /\ Msgs(t) \subseteq Msgs(u)
  BY <1>3, <1>4, <1>5 DEF Msgs
<1> QED
  BY <1>6 DEF u

LEMMA MsgsTail ==
  ASSUME NEW S, NEW s \in Seq(S), s # <<>>
  PROVE  /\ Tail(s) \in Seq(S) /\ Head(s) \in S /\ Head(s) \in Msgs(s)
         /\ Msgs(s) = {Head(s)} \cup Msgs(Tail(s))
<1> DEFINE t == Tail(s)
<1>1. /\ t \in Seq(S) /\ Head(s) \in S /\ Head(s) = s[1]
      /\ Len(t) = Len(s) - 1 /\ Len(s) \in Nat /\ Len(s) > 0
  OBVIOUS
<1>2. \A k \in 1..Len(t) : t[k] = s[k + 1]
  OBVIOUS
<1>3. 1 \in 1..Len(s)
  BY <1>1
<1> HIDE DEF t
<1>4. ASSUME NEW k \in 1..Len(s)  PROVE s[k] \in {s[1]} \cup Msgs(t)
  <2>1. CASE k = 1
    BY <2>1
  <2>2. CASE k # 1
    <3>1. k - 1 \in 1..Len(t) /\ k = (k - 1) + 1
      BY <1>1, <2>2
    <3> QED
      BY <1>2, <3>1 DEF Msgs
  <2> QED
    BY <2>1, <2>2
<1>5. ASSUME NEW k \in 1..Len(t)  PROVE t[k] \in Msgs(s)
  <2>1. k + 1 \in 1..Len(s)
    BY <1>1
  <2> QED
    BY <1>2, <2>1 DEF Msgs
<1>6. s[1] \in Msgs(s)
  BY <1>3 DEF Msgs
<1>7. Msgs(s) \subseteq {s[1]} \cup Msgs(t) /\ Msgs(t) \subseteq Msgs(s)
  BY <1>4, <1>5 DEF Msgs
<1> QED
  BY <1>1, <1>6, <1>7 DEF t

LEMMA SendStep ==
  ASSUME NEW w, IsWork(w), NEW x \in End, NEW type, NEW id,
         Says(type, id) \in Message, NEW v, v = Send(w, x, type, id)
  PROVE  /\ IsWork(v) /\ v.r = w.r /\ v.gone = w.gone /\ v.dial = w.dial
         /\ v.pick = w.pick
         /\ \A y \in End : y # Other(x) => v.out[y] = w.out[y]
         /\ Msgs(v.out[Other(x)]) = Msgs(w.out[Other(x)]) \cup {Says(type, id)}
<1> DEFINE m == Says(type, id)
           o == [w.out EXCEPT ![Other(x)] = Append(w.out[Other(x)], m)]
<1>1. v = [w EXCEPT !.out = o]
  BY DEF Send, Says
<1>2. Other(x) \in End /\ w.out \in [End -> Seq(Message)]
  BY EndFacts DEF IsWork
<1> HIDE DEF m
<1>3. /\ o \in [End -> Seq(Message)] /\ o[Other(x)] = Append(w.out[Other(x)], m)
      /\ \A y \in End : y # Other(x) => o[y] = w.out[y]
  BY <1>2 DEF m
<1>4. Msgs(o[Other(x)]) = Msgs(w.out[Other(x)]) \cup {m}
  BY <1>2, <1>3, MsgsAppend
<1> HIDE DEF o
<1>5. /\ IsWork(v) /\ v.out = o /\ v.r = w.r /\ v.gone = w.gone /\ v.dial = w.dial
      /\ v.pick = w.pick
  BY <1>1, <1>3 DEF IsWork, WorkFields
<1> QED
  BY <1>3, <1>4, <1>5 DEF m

LEMMA SendGood ==
  ASSUME NEW n, NEW D, NEW w, Good(n, D, w), NEW v, IsWork(v), v.r = w.r,
         v.gone = w.gone, v.dial = w.dial, v.pick = w.pick
  PROVE  Good(n, D, v)
<1>1. Table(n, v)
  BY DEF Good, Table
<1>2. Watch(n, D, v)
  BY DEF Good, Watch, Dialed
<1> QED
  BY <1>1, <1>2 DEF Good

-----------------------------------------------------------------------------
(* Connections that end and begin *)

LEMMA DisconnectGood ==
  ASSUME Typed, NEW n \in Node, NEW D, NEW w, Good(n, D, w), NEW x \in DOMAIN w.r.byEdge,
         NEW v, v = HandleDisconnect(n, w, x)
  PROVE  /\ Good(n, D, v) /\ Closed(w, v, x)
         /\ \A y \in End : \A k \in Msgs(v.out[y]) :
              k \in Msgs(w.out[y]) \/ k.type = "Disconnect"
<1>1. /\ x \in w.r.edges /\ x \notin w.gone /\ w.r.byEdge[x] \in Node /\ IsWork(w)
      /\ x = Loop \/ x \in End
  BY DEF Good, Table, Typed
<1>2. x # NoEnd
  BY <1>1, EndFacts
<1> DEFINE a == TableDisconnect(w, x)
           b == IF x = Loop THEN a ELSE Send(a, x, "Disconnect", 0)
           u == RemoveEdge(b, x)
<1>3. Cleared(w, a, x) /\ a.out = w.out
  BY <1>1, <1>2, ClearStep
<1>4. v = HandleDisconnected(n, SignalDisconnected(u), x)
  BY <1>1 DEF HandleDisconnect, StopBound
<1> HIDE DEF a
<1>5. Cleared(w, b, x) /\ \A y \in End : \A k \in Msgs(b.out[y]) :
                              k \in Msgs(w.out[y]) \/ k.type = "Disconnect"
  <2>1. CASE x = Loop
    BY <1>3, <2>1
  <2>2. CASE x # Loop
    <3>1. b = Send(a, x, "Disconnect", 0) /\ x \in End
      BY <1>1, <2>2
    <3>2. Says("Disconnect", 0) \in Message
      BY DEF Says, Message
    <3> HIDE DEF b
    <3>3. /\ IsWork(b) /\ b.r = a.r /\ b.gone = a.gone /\ b.dial = a.dial
          /\ b.pick = a.pick
          /\ \A y \in End : y # Other(x) => b.out[y] = a.out[y]
          /\ Msgs(b.out[Other(x)]) = Msgs(a.out[Other(x)]) \cup {Says("Disconnect", 0)}
      <4>1. IsWork(a) /\ b = Send(a, x, "Disconnect", 0) /\ x \in End
        BY <1>3, <3>1 DEF Cleared
      <4> QED
        BY <3>2, <4>1, SendStep
    <3>4. Cleared(w, b, x)
      BY <1>3, <3>3 DEF Cleared
    <3>5. ASSUME NEW y \in End, NEW k \in Msgs(b.out[y])
          PROVE  k \in Msgs(w.out[y]) \/ k.type = "Disconnect"
      <4>1. CASE y = Other(x)
        BY <1>3, <3>3, <3>5, <4>1 DEF Says
      <4>2. CASE y # Other(x)
        BY <1>3, <3>3, <3>5, <4>2
      <4> QED
        BY <4>1, <4>2
    <3> QED
      BY <3>4, <3>5
  <2> QED
    BY <2>1, <2>2
<1> HIDE DEF b
<1>6. Halfway(w, u, x) /\ u.out = b.out
  BY <1>5, RemoveEdgeStep
<1> HIDE DEF u
<1>7. Good(n, D, v) /\ Closed(w, v, x) /\ v.out = u.out
  BY <1>1, <1>4, <1>6, ClosingGood
<1> QED
  BY <1>5, <1>6, <1>7

Created(w, v, x, id) ==
  /\ v.out = w.out /\ v.gone = w.gone /\ v.pick = w.pick
  /\ v.r.edges = w.r.edges /\ v.r.stopped = w.r.stopped
  /\ DOMAIN v.r.byEdge = DOMAIN w.r.byEdge \cup {x} /\ v.r.byEdge[x] = id
  /\ \A y \in DOMAIN w.r.byEdge : v.r.byEdge[y] = w.r.byEdge[y]

LEMMA CreateGood ==
  ASSUME Typed, NEW n \in Node, NEW D, NEW w, Good(n, D, w), NEW x \in w.r.edges,
         x \notin DOMAIN w.r.byEdge, NEW id \in Node, w.r.byId[id] = NoEnd,
         NEW v, v = CreateConnection(n, w, x, id)
  PROVE  Good(n, D, v) /\ Created(w, v, x, id)
<1> DEFINE i0 == [w.r.byId EXCEPT ![id] = x]
           e0 == [y \in DOMAIN w.r.byEdge \cup {x} |-> IF y = x THEN id ELSE w.r.byEdge[y]]
           r == [w.r EXCEPT !.byId = i0, !.byEdge = e0]
           u == [w EXCEPT !.r = r]
<1>1. v = HandleConnection(n, u, x, id)
  BY DEF CreateConnection
<1>2. /\ i0 = [m \in Node |-> i0[m]] /\ e0 = [y \in DOMAIN e0 |-> e0[y]]
      /\ \A i \in Node : i0[i] = IF i = id THEN x ELSE w.r.byId[i]
      /\ DOMAIN e0 = DOMAIN w.r.byEdge \cup {x} /\ e0[x] = id
      /\ \A y \in DOMAIN w.r.byEdge : e0[y] = w.r.byEdge[y]
  <2>1. w.r.byId = [m \in Node |-> w.r.byId[m]]
    BY DEF Good, IsWork, IsNode
  <2> QED
    BY <2>1
<1> HIDE DEF i0, e0
<1>0. IsNode(w.r)
  BY DEF Good, IsWork
<1>3. /\ IsNode(r) /\ r.byId = i0 /\ r.byEdge = e0 /\ r.active = w.r.active
      /\ r.edges = w.r.edges /\ r.stopped = w.r.stopped
  BY <1>0, <1>2 DEF IsNode, Fields
<1> HIDE DEF r
<1>4. /\ IsWork(u) /\ u.r = r /\ u.out = w.out /\ u.gone = w.gone /\ u.dial = w.dial
      /\ u.pick = w.pick
  BY <1>3 DEF Good, IsWork, WorkFields
<1> HIDE DEF u
<1>5. Table(n, u)
  <2>1. x # NoEnd
    BY EndFacts DEF Good, Table, Typed
  <2>2. ASSUME NEW m \in Node, u.r.byId[m] # NoEnd
        PROVE  u.r.byId[m] \in DOMAIN u.r.byEdge /\ u.r.byEdge[u.r.byId[m]] = m
    <3>1. CASE m = id
      BY <1>2, <1>3, <1>4, <3>1
    <3>2. CASE m # id
      BY <1>2, <1>3, <1>4, <2>2, <3>2 DEF Good, Table
    <3> QED
      BY <3>1, <3>2
  <2>3. ASSUME NEW y \in DOMAIN u.r.byEdge
        PROVE  /\ y \in u.r.edges /\ u.r.byEdge[y] \in Node
               /\ u.r.byId[u.r.byEdge[y]] = y
    <3>1. CASE y = x
      BY <1>2, <1>3, <1>4, <3>1
    <3>2. CASE y # x
      <4>1. /\ y \in DOMAIN w.r.byEdge /\ y \in w.r.edges /\ w.r.byEdge[y] \in Node
            /\ w.r.byId[w.r.byEdge[y]] = y
        BY <1>2, <1>3, <1>4, <2>3, <3>2 DEF Good, Table
      <4>2. y # NoEnd
        BY <4>1, EndFacts DEF Good, Table, Typed
      <4>3. w.r.byEdge[y] # id
        BY <4>1, <4>2
      <4> QED
        BY <1>2, <1>3, <1>4, <4>1, <4>3
    <3> QED
      BY <3>1, <3>2
  <2>4. /\ u.r.edges \cap u.gone = {}
        /\ u.r.edges \ {Loop} = {y \in open : Owner(y) = n} \ u.gone
    BY <1>3, <1>4 DEF Good, Table
  <2> QED
    BY <2>2, <2>3, <2>4 DEF Table
<1>6. Watch(n, D, u)
  BY <1>3, <1>4 DEF Good, Watch, Dialed
<1>7. Good(n, D, u)
  BY <1>3, <1>4, <1>5, <1>6 DEF Good
<1>8. Good(n, D, v) /\ Same(u, v)
  BY <1>1, <1>7, ConnectionGood
<1> QED
  BY <1>2, <1>3, <1>4, <1>8 DEF Same, Created

LEMMA StopGood ==
  ASSUME Typed, NEW n \in Node, NEW D, NEW w, Good(n, D, w), NEW x \in w.r.edges,
         NEW v, v = HandleEdgeClose(n, w, x)
  PROVE  Good(n, D, v) /\ Closed(w, v, x) /\ v.out = w.out
<1>1. Cleared(w, w, x)
  BY DEF Cleared, Good
<1> QED
  BY <1>1, CloseGood

-----------------------------------------------------------------------------
(* What a handler does to the table, whatever it calls: only ends that are *)
(* gone lose their connection, and at most the end x gets one, with id.    *)

Effect(w, v, x, id) ==
  /\ v.r.stopped = w.r.stopped /\ v.pick = w.pick
  /\ w.gone \subseteq v.gone /\ v.gone \subseteq w.gone \cup w.r.edges
  /\ v.r.edges \subseteq w.r.edges
  /\ DOMAIN w.r.byEdge \ v.gone \subseteq DOMAIN v.r.byEdge
  /\ \A y \in DOMAIN v.r.byEdge :
       \/ y \in DOMAIN w.r.byEdge /\ v.r.byEdge[y] = w.r.byEdge[y]
       \/ y = x /\ v.r.byEdge[y] = id

LEMMA EffectTrans ==
  ASSUME NEW a, NEW b, NEW c, NEW x, NEW id, Effect(a, b, x, id), Effect(b, c, x, id)
  PROVE  Effect(a, c, x, id)
<1>1. /\ c.r.stopped = a.r.stopped /\ c.pick = a.pick
      /\ a.gone \subseteq c.gone /\ c.gone \subseteq a.gone \cup a.r.edges
      /\ c.r.edges \subseteq a.r.edges
  BY DEF Effect
<1>2. DOMAIN a.r.byEdge \ c.gone \subseteq DOMAIN c.r.byEdge
  BY DEF Effect
<1>3. \A y \in DOMAIN c.r.byEdge :
        \/ y \in DOMAIN a.r.byEdge /\ c.r.byEdge[y] = a.r.byEdge[y]
        \/ y = x /\ c.r.byEdge[y] = id
  BY DEF Effect
<1> QED
  BY <1>1, <1>2, <1>3 DEF Effect

LEMMA EffectOf ==
  ASSUME NEW w, NEW v, NEW x, NEW id
  PROVE  /\ v.r = w.r /\ v.gone = w.gone /\ v.pick = w.pick => Effect(w, v, x, id)
         /\ Same(w, v) => Effect(w, v, x, id)
         /\ \A y \in w.r.edges : Closed(w, v, y) => Effect(w, v, x, id)
         /\ Created(w, v, x, id) => Effect(w, v, x, id)
<1>1. v.r = w.r /\ v.gone = w.gone /\ v.pick = w.pick => Effect(w, v, x, id)
  BY DEF Effect
<1>2. Same(w, v) => Effect(w, v, x, id)
  BY DEF Effect, Same
<1>3. \A y \in w.r.edges : Closed(w, v, y) => Effect(w, v, x, id)
  BY DEF Effect, Closed
<1>4. Created(w, v, x, id) => Effect(w, v, x, id)
  BY DEF Effect, Created
<1> QED
  BY <1>1, <1>2, <1>3, <1>4

-----------------------------------------------------------------------------
(* The exchange over a new edge *)

LEMMA BindGood ==
  ASSUME Typed, NEW n \in Node, NEW D, NEW w, Good(n, D, w), NEW x \in w.r.edges,
         x \in End, x \notin DOMAIN w.r.byEdge, NEW id \in Node,
         NEW v, v = BindEdge(n, w, x, id)
  PROVE  /\ Good(n, D, v) /\ Effect(w, v, x, id)
         /\ \A y \in End : \A k \in Msgs(v.out[y]) :
              \/ k \in Msgs(w.out[y]) \/ k.type = "Close"
              \/ y = Other(x) /\ k = Says("Connect", n) /\ x \in DOMAIN v.r.byEdge
         /\ x \in DOMAIN v.r.byEdge => Says("Connect", n) \in Msgs(v.out[Other(x)])
<1>1. IsWork(w)
  BY DEF Good
<1>2. CASE Connected(w.r, id)
  <2> DEFINE a == Send(w, x, "Close", 0) b == HandleEdgeClose(n, a, x)
  <2>1. v = HandleConnectionAttemptFailure(n, b, GetRemoteAddress(x))
    BY <1>2 DEF BindEdge
  <2>0. a = Send(w, x, "Close", 0) /\ Says("Close", 0) \in Message
    BY DEF Says, Message
  <2> HIDE DEF a
  <2>2. /\ IsWork(a) /\ a.r = w.r /\ a.gone = w.gone /\ a.dial = w.dial /\ a.pick = w.pick
        /\ \A y \in End : y # Other(x) => a.out[y] = w.out[y]
        /\ Msgs(a.out[Other(x)]) = Msgs(w.out[Other(x)]) \cup {Says("Close", 0)}
    BY <1>1, <2>0, SendStep
  <2>3. Good(n, D, a) /\ x \in a.r.edges
    BY <2>2, SendGood
  <2>4. Good(n, D, b) /\ Closed(a, b, x) /\ b.out = a.out
    BY <2>3, StopGood
  <2> HIDE DEF b
  <2>5. Good(n, D, v) /\ Same(b, v)
    BY <2>1, <2>4, FailureGood
  <2>6. Effect(w, v, x, id)
    <3>1. Effect(w, a, x, id) /\ Effect(a, b, x, id) /\ Effect(b, v, x, id)
      BY <2>2, <2>3, <2>4, <2>5, EffectOf
    <3>2. Effect(w, b, x, id)
      BY <3>1, EffectTrans
    <3> QED
      BY <3>1, <3>2, EffectTrans
  <2>7. \A y \in End : \A k \in Msgs(v.out[y]) : k \in Msgs(w.out[y]) \/ k.type = "Close"
    <3>1. v.out = a.out
      BY <2>4, <2>5 DEF Same
    <3>2. ASSUME NEW y \in End, NEW k \in Msgs(v.out[y])
          PROVE  k \in Msgs(w.out[y]) \/ k.type = "Close"
      <4>1. CASE y = Other(x)
        BY <2>2, <3>1, <3>2, <4>1 DEF Says
      <4>2. CASE y # Other(x)
        BY <2>2, <3>1, <3>2, <4>2
      <4> QED
        BY <4>1, <4>2
    <3> QED
      BY <3>2
  <2>8. x \notin DOMAIN v.r.byEdge
    BY <2>4, <2>5 DEF Same, Closed
  <2> QED
    BY <2>5, <2>6, <2>7, <2>8
<1>3. CASE ~Connected(w.r, id)
  <2> DEFINE a == Send(w, x, "Connect", n)
  <2>1. v = CreateConnection(n, a, x, id)
    BY <1>3 DEF BindEdge
  <2>0. a = Send(w, x, "Connect", n) /\ Says("Connect", n) \in Message
    BY DEF Says, Message
  <2> HIDE DEF a
  <2>2. /\ IsWork(a) /\ a.r = w.r /\ a.gone = w.gone /\ a.dial = w.dial /\ a.pick = w.pick
        /\ \A y \in End : y # Other(x) => a.out[y] = w.out[y]
        /\ Msgs(a.out[Other(x)]) = Msgs(w.out[Other(x)]) \cup {Says("Connect", n)}
    BY <1>1, <2>0, SendStep
  <2>3. Good(n, D, a) /\ x \in a.r.edges /\ x \notin DOMAIN a.r.byEdge
    BY <2>2, SendGood
  <2>4. a.r.byId[id] = NoEnd
    BY <1>3, <2>2 DEF Connected
  <2>5. Good(n, D, v) /\ Created(a, v, x, id)
    BY <2>1, <2>3, <2>4, CreateGood
  <2>6. Effect(w, v, x, id)
    <3>1. Effect(w, a, x, id) /\ Effect(a, v, x, id)
      BY <2>2, <2>3, <2>5, EffectOf
    <3> QED
      BY <3>1, EffectTrans
  <2>7. v.out = a.out /\ x \in DOMAIN v.r.byEdge
    BY <2>5 DEF Created
  <2>8. \A y \in End : \A k \in Msgs(v.out[y]) :
          \/ k \in Msgs(w.out[y])
          \/ y = Other(x) /\ k = Says("Connect", n)
    <3>1. ASSUME NEW y \in End, NEW k \in Msgs(v.out[y])
          PROVE  \/ k \in Msgs(w.out[y])
                 \/ y = Other(x) /\ k = Says("Connect", n)
      <4>1. CASE y = Other(x)
        BY <2>2, <2>7, <3>1, <4>1
      <4>2. CASE y # Other(x)
        BY <2>2, <2>7, <3>1, <4>2
      <4> QED
        BY <4>1, <4>2
    <3> QED
      BY <3>1
  <2>9. Says("Connect", n) \in Msgs(v.out[Other(x)])
    BY <2>2, <2>7
  <2> QED
    BY <2>5, <2>6, <2>7, <2>8, <2>9
<1> QED
  BY <1>2, <1>3

\* What n answers at x, and that the answer fits the table: only the end of the
\* smaller id says Connect, when it has the connection; the other has it when
\* it was told.
Reply(n, w, v, x, type, id) ==
  /\ Effect(w, v, x, id)
  /\ \A y \in End : \A k \in Msgs(v.out[y]) :
       \/ k \in Msgs(w.out[y]) \/ k.type \in {"Close", "Disconnect"}
       \/ y = Other(x) /\ k = Says("Inquired", n)
       \/ /\ y = Other(x) /\ k = Says("Connect", n) /\ n < id /\ x \in DOMAIN v.r.byEdge
          /\ type \in Hellos
  /\ x \in DOMAIN v.r.byEdge /\ x \in DOMAIN w.r.byEdge => v.r.byEdge[x] = w.r.byEdge[x]
  /\ x \in DOMAIN v.r.byEdge /\ x \notin DOMAIN w.r.byEdge =>
       /\ id # n /\ type \in Hellos
       /\ type = "Connect" \/ Says("Connect", n) \in Msgs(v.out[Other(x)])
  /\ type = "Connect" => x \in DOMAIN v.r.byEdge

LEMMA InquireGood ==
  ASSUME Typed, NEW n \in Node, NEW D, NEW w, Good(n, D, w), NEW x \in w.r.edges,
         x \in End, x \notin DOMAIN w.r.byEdge, NEW id \in Node,
         NEW v, v = Inquire(n, w, x, id)
  PROVE  Good(n, D, v) /\ Reply(n, w, v, x, "Inquire", id)
<1> DEFINE a == Send(w, x, "Inquired", n)
<1>0. a = Send(w, x, "Inquired", n) /\ Says("Inquired", n) \in Message /\ IsWork(w)
  BY DEF Says, Message, Good
<1>1. \/ n < id /\ v = BindEdge(n, a, x, id)
      \/ n = id /\ v = HandleEdgeClose(n, a, x)
      \/ v = a
  BY DEF Inquire
<1> HIDE DEF a
<1>2. /\ IsWork(a) /\ a.r = w.r /\ a.gone = w.gone /\ a.dial = w.dial /\ a.pick = w.pick
      /\ \A y \in End : y # Other(x) => a.out[y] = w.out[y]
      /\ Msgs(a.out[Other(x)]) = Msgs(w.out[Other(x)]) \cup {Says("Inquired", n)}
  BY <1>0, SendStep
<1>3. Good(n, D, a) /\ x \in a.r.edges /\ x \notin DOMAIN a.r.byEdge
  BY <1>2, SendGood
<1>4. Effect(w, a, x, id)
  BY <1>2, EffectOf
<1>5. \A y \in End : \A k \in Msgs(a.out[y]) :
        k \in Msgs(w.out[y]) \/ (y = Other(x) /\ k = Says("Inquired", n))
  <2>1. ASSUME NEW y \in End, NEW k \in Msgs(a.out[y])
        PROVE  k \in Msgs(w.out[y]) \/ (y = Other(x) /\ k = Says("Inquired", n))
    <3>1. CASE y = Other(x)
      BY <1>2, <2>1, <3>1
    <3>2. CASE y # Other(x)
      BY <1>2, <2>1, <3>2
    <3> QED
      BY <3>1, <3>2
  <2> QED
    BY <2>1
<1>6. CASE n < id /\ v = BindEdge(n, a, x, id)
  <2>1. /\ Good(n, D, v) /\ Effect(a, v, x, id)
        /\ \A y \in End : \A k \in Msgs(v.out[y]) :
             \/ k \in Msgs(a.out[y]) \/ k.type = "Close"
             \/ y = Other(x) /\ k = Says("Connect", n) /\ x \in DOMAIN v.r.byEdge
        /\ x \in DOMAIN v.r.byEdge => Says("Connect", n) \in Msgs(v.out[Other(x)])
    BY <1>3, <1>6, BindGood
  <2>2. Effect(w, v, x, id)
    BY <1>4, <2>1, EffectTrans
  <2>3. \A y \in End : \A k \in Msgs(v.out[y]) :
          \/ k \in Msgs(w.out[y]) \/ k.type \in {"Close", "Disconnect"}
          \/ y = Other(x) /\ k = Says("Inquired", n)
          \/ y = Other(x) /\ k = Says("Connect", n) /\ n < id /\ x \in DOMAIN v.r.byEdge
    BY <1>5, <1>6, <2>1
  <2>4. id # n
    BY <1>6, IdAssumption
  <2> QED
    BY <2>1, <2>2, <2>3, <2>4 DEF Reply, Hellos
<1>7. CASE n = id /\ v = HandleEdgeClose(n, a, x)
  <2>1. Good(n, D, v) /\ Closed(a, v, x) /\ v.out = a.out
    BY <1>3, <1>7, StopGood
  <2>2. Effect(w, v, x, id)
    <3>1. Effect(a, v, x, id)
      BY <1>3, <2>1, EffectOf
    <3> QED
      BY <1>4, <3>1, EffectTrans
  <2>3. x \notin DOMAIN v.r.byEdge
    BY <2>1 DEF Closed
  <2> QED
    BY <1>5, <2>1, <2>2, <2>3 DEF Reply, Hellos
<1>8. CASE v = a
  BY <1>2, <1>3, <1>4, <1>5, <1>8 DEF Reply, Hellos
<1> QED
  BY <1>1, <1>6, <1>7, <1>8

LEMMA InquiredGood ==
  ASSUME Typed, NEW n \in Node, NEW D, NEW w, Good(n, D, w), NEW x \in w.r.edges,
         x \in End, x \notin DOMAIN w.r.byEdge, NEW id \in Node,
         NEW v, v = Inquired(n, w, x, id)
  PROVE  Good(n, D, v) /\ Reply(n, w, v, x, "Inquired", id)
<1> DEFINE a == HandleEdgeClose(n, w, x)
<1>1. \/ n < id /\ v = BindEdge(n, w, x, id)
      \/ n = id /\ v = HandleConnectionAttemptFailure(n, a, GetRemoteAddress(x))
      \/ v = w
  BY DEF Inquired
<1>2. CASE n < id /\ v = BindEdge(n, w, x, id)
  <2>1. /\ Good(n, D, v) /\ Effect(w, v, x, id)
        /\ \A y \in End : \A k \in Msgs(v.out[y]) :
             \/ k \in Msgs(w.out[y]) \/ k.type = "Close"
             \/ y = Other(x) /\ k = Says("Connect", n) /\ x \in DOMAIN v.r.byEdge
        /\ x \in DOMAIN v.r.byEdge => Says("Connect", n) \in Msgs(v.out[Other(x)])
    BY <1>2, BindGood
  <2>2. id # n
    BY <1>2, IdAssumption
  <2> QED
    BY <1>2, <2>1, <2>2 DEF Reply, Hellos
<1>3. CASE n = id /\ v = HandleConnectionAttemptFailure(n, a, GetRemoteAddress(x))
  <2>1. Good(n, D, a) /\ Closed(w, a, x) /\ a.out = w.out
    BY StopGood
  <2> HIDE DEF a
  <2>2. Good(n, D, v) /\ Same(a, v)
    BY <1>3, <2>1, FailureGood
  <2>3. Effect(w, v, x, id)
    <3>1. Effect(w, a, x, id) /\ Effect(a, v, x, id)
      BY <2>1, <2>2, EffectOf
    <3> QED
      BY <3>1, EffectTrans
  <2>4. x \notin DOMAIN v.r.byEdge /\ v.out = w.out
    BY <2>1, <2>2 DEF Same, Closed
  <2> QED
    BY <2>2, <2>3, <2>4 DEF Reply, Hellos
<1>4. CASE v = w
  <2>1. Effect(w, v, x, id)
    BY <1>4, EffectOf
  <2> QED
    BY <1>4, <2>1 DEF Reply, Hellos
<1> QED
  BY <1>1, <1>2, <1>3, <1>4

LEMMA ConnectGood ==
  ASSUME Typed, NEW n \in Node, NEW D, NEW w, Good(n, D, w), NEW x \in w.r.edges,
         x \in End, x \notin DOMAIN w.r.byEdge, NEW id \in Node, id < n,
         NEW v, v = Connect(n, w, x, id)
  PROVE  Good(n, D, v) /\ Reply(n, w, v, x, "Connect", id)
<1> DEFINE a == IF Connected(w.r, id) THEN HandleDisconnect(n, w, w.r.byId[id]) ELSE w
<1>1. v = CreateConnection(n, a, x, id) /\ id # n
  BY IdAssumption DEF Connect
<1>2. /\ Good(n, D, a) /\ Effect(w, a, x, id)
      /\ x \in a.r.edges /\ x \notin DOMAIN a.r.byEdge /\ a.r.byId[id] = NoEnd
      /\ \A y \in End : \A k \in Msgs(a.out[y]) :
           k \in Msgs(w.out[y]) \/ k.type = "Disconnect"
  <2>1. CASE ~Connected(w.r, id)
    <3>1. Effect(w, w, x, id)
      BY EffectOf
    <3> QED
      BY <2>1, <3>1 DEF Connected
  <2>2. CASE Connected(w.r, id)
    <3> DEFINE old == w.r.byId[id]
    <3>1. a = HandleDisconnect(n, w, old)
      BY <2>2
    <3>2. old \in DOMAIN w.r.byEdge /\ old \in w.r.edges /\ old # x
      BY <2>2 DEF Connected, Good, Table
    <3> HIDE DEF a
    <3>3. /\ Good(n, D, a) /\ Closed(w, a, old)
          /\ \A y \in End : \A k \in Msgs(a.out[y]) :
               k \in Msgs(w.out[y]) \/ k.type = "Disconnect"
      BY <3>1, <3>2, DisconnectGood
    <3>4. Effect(w, a, x, id)
      BY <3>2, <3>3, EffectOf
    <3>5. x \in a.r.edges /\ x \notin DOMAIN a.r.byEdge /\ a.r.byId[id] = NoEnd
      BY <3>2, <3>3 DEF Closed
    <3> QED
      BY <3>3, <3>4, <3>5
  <2> QED
    BY <2>1, <2>2
<1> HIDE DEF a
<1>3. Good(n, D, v) /\ Created(a, v, x, id)
  BY <1>1, <1>2, CreateGood
<1>4. Effect(w, v, x, id)
  <2>1. Effect(a, v, x, id)
    BY <1>3, EffectOf
  <2> QED
    BY <1>2, <2>1, EffectTrans
<1>5. v.out = a.out /\ x \in DOMAIN v.r.byEdge
  BY <1>3 DEF Created
<1> QED
  BY <1>1, <1>2, <1>3, <1>4, <1>5 DEF Reply, Hellos

LEMMA HandleGood ==
  ASSUME Typed, NEW n \in Node, NEW D, NEW w, Good(n, D, w), NEW x \in w.r.edges,
         x \in End, NEW m,
         m.type \in Hellos => m.id \in Node,
         m.type = "Connect" => m.id < n,
         NEW v, v = Handle(n, w, x, m)
  PROVE  Good(n, D, v) /\ Reply(n, w, v, x, m.type, m.id)
<1> DEFINE bound == x \in DOMAIN w.r.byEdge
<1>1. \/ m.type = "Inquire" /\ ~bound /\ v = Inquire(n, w, x, m.id)
      \/ m.type = "Inquired" /\ ~bound /\ v = Inquired(n, w, x, m.id)
      \/ m.type = "Connect" /\ ~bound /\ v = Connect(n, w, x, m.id)
      \/ m.type = "Close" /\ ~bound /\ v = HandleEdgeClose(n, w, x)
      \/ m.type = "Disconnect" /\ bound /\ v = Disconnect(n, w, x)
      \/ (m.type = "Connect" => bound) /\ v = w
  BY DEF Handle
<1>2. CASE m.type = "Inquire" /\ ~bound /\ v = Inquire(n, w, x, m.id)
  BY <1>2, InquireGood DEF Hellos
<1>3. CASE m.type = "Inquired" /\ ~bound /\ v = Inquired(n, w, x, m.id)
  BY <1>3, InquiredGood DEF Hellos
<1>4. CASE m.type = "Connect" /\ ~bound /\ v = Connect(n, w, x, m.id)
  BY <1>4, ConnectGood DEF Hellos
<1>5. CASE m.type = "Close" /\ ~bound /\ v = HandleEdgeClose(n, w, x)
  <2>1. Good(n, D, v) /\ Closed(w, v, x) /\ v.out = w.out
    BY <1>5, StopGood
  <2>2. Effect(w, v, x, m.id) /\ x \notin DOMAIN v.r.byEdge
    BY <2>1, EffectOf DEF Closed
  <2> QED
    BY <1>5, <2>1, <2>2 DEF Reply, Hellos
<1>6. CASE m.type = "Disconnect" /\ bound /\ v = Disconnect(n, w, x)
  <2> DEFINE c == TableDisconnect(w, x)
  <2>1. v = HandleEdgeClose(n, c, x) /\ c = TableDisconnect(w, x)
    BY <1>6 DEF Disconnect
  <2> HIDE DEF c
  <2>2. w.r.byEdge[x] \in Node /\ x # NoEnd /\ IsWork(w)
    BY <1>6, EndFacts DEF Good, Table
  <2>3. Cleared(w, c, x) /\ c.out = w.out
    BY <1>6, <2>1, <2>2, ClearStep
  <2>4. Good(n, D, v) /\ Closed(w, v, x) /\ v.out = c.out
    BY <2>1, <2>3, CloseGood
  <2>5. Effect(w, v, x, m.id) /\ x \notin DOMAIN v.r.byEdge
    BY <2>4, EffectOf DEF Closed
  <2> QED
    BY <1>6, <2>3, <2>4, <2>5 DEF Reply, Hellos
<1>7. CASE (m.type = "Connect" => bound) /\ v = w
  <2>1. Effect(w, v, x, m.id)
    BY <1>7, EffectOf
  <2> QED
    BY <1>7, <2>1 DEF Reply, Hellos
<1> QED
  BY <1>1, <1>2, <1>3, <1>4, <1>5, <1>6, <1>7

-----------------------------------------------------------------------------
(* The invariant.  The tables are what a handler finds when it starts, and *)
(* what the ends of an edge tell each other fits what they have done.      *)

Start(n) == Work(n, NoAddress)
Tables == \A n \in Node : Table(n, Start(n)) /\ Watch(n, Dialing(n), Start(n))

Owed(x) == \E k \in Msgs(chan[x]) : k.type = "Connect"

\* A connection is under the id of the node at the other end.
Peers == \A x \in open : Bound(x) =>
           node[Owner(x)].byEdge[x] = Owner(Other(x)) /\ Owner(Other(x)) # Owner(x)
\* The ids are those of the sender; only the smaller one says Connect.
Honest == \A x \in open : \A k \in Msgs(chan[x]) :
            /\ k.type \in Hellos => k.id = Owner(Other(x))
            /\ k.type = "Connect" => k.id < Owner(x)
\* The other end has the connection, or is about to be told.
Awaited == \A x \in open : Other(x) \in open /\ x.e \notin cut /\ Bound(x) =>
             Bound(Other(x)) \/ Owed(Other(x))
\* Who said Connect has the connection.
Decided == \A x \in open : Other(x) \in open /\ Owed(x) => Bound(Other(x))
Talk == Peers /\ Honest /\ Awaited /\ Decided

IInv == Typed /\ Tables /\ Talk

LEMMA StartFields ==
  ASSUME NEW n, NEW p
  PROVE  LET w == Work(n, p)
         IN /\ w.r = node[n] /\ w.gone = {} /\ w.dial = {} /\ w.pick = p
            /\ w.out = [x \in End |-> <<>>] /\ w = [f \in WorkFields |-> w[f]]
            /\ \A x \in End : Msgs(w.out[x]) = {}
<1> DEFINE w == Work(n, p)
<1>1. /\ w.r = node[n] /\ w.gone = {} /\ w.dial = {} /\ w.pick = p
      /\ w.out = [x \in End |-> <<>>] /\ w = [f \in WorkFields |-> w[f]]
  BY DEF Work, WorkFields
<1> HIDE DEF w
<1>2. \A x \in End : w.out[x] = <<>>
  BY <1>1
<1>3. \A x \in End : Msgs(w.out[x]) = {}
  BY <1>2, NoMsgs
<1> QED
  BY <1>1, <1>3 DEF w

LEMMA StartGood ==
  ASSUME Typed, Tables, NEW n \in Node, NEW p \in Pick(n)
  PROVE  Good(n, Dialing(n), Work(n, p))
<1> DEFINE w == Work(n, p) s == Start(n)
<1>1. /\ w.r = node[n] /\ w.gone = {} /\ w.dial = {} /\ w.pick = p
      /\ w.out = [x \in End |-> <<>>] /\ w = [f \in WorkFields |-> w[f]]
      /\ s.r = node[n] /\ s.gone = {} /\ s.dial = {}
  BY StartFields DEF Start
<1>2. Table(n, s) /\ Watch(n, Dialing(n), s)
  BY DEF Tables
<1> HIDE DEF w, s
<1>3. IsWork(w)
  BY <1>1 DEF IsWork, Typed
<1>4. Table(n, w)
  BY <1>1, <1>2 DEF Table
<1>5. Watch(n, Dialing(n), w)
  BY <1>1, <1>2 DEF Watch, Dialed
<1>6. n \in Server \/ w.pick \in Node
  BY <1>1, IdAssumption DEF Pick, Typed
<1> QED
  BY <1>3, <1>4, <1>5, <1>6 DEF Good, w

\* A handler of n, that left v, is over.
LEMMA Settle ==
  ASSUME Typed, Tables, NEW n \in Node, NEW D, NEW v, Good(n, D, v),
         v.gone \subseteq node[n].edges, node' = [node EXCEPT ![n] = v.r],
         open' = open \ v.gone, edge' = edge, chan' \in [End -> Seq(Message)],
         dial' \subseteq Node \X Node, Dialing(n)' = D \cup v.dial,
         \A k \in Node : k # n => Dialing(k)' = Dialing(k)
  PROVE  Typed' /\ Tables'
<1>1. node'[n] = v.r /\ \A k \in Node : k # n => node'[k] = node[k]
  BY DEF Typed
<1>2. \A x : Owner(x)' = Owner(x)
  BY DEF Owner
<1>3. Typed'
  <2>1. node' = [k \in Node |-> node'[k]] /\ \A k \in Node : IsNode(node'[k])
    BY <1>1 DEF Typed, Good, IsWork
  <2> QED
    BY <2>1 DEF Typed
<1>4. \A k : /\ Start(k)'.r = node'[k] /\ Start(k)'.gone = {} /\ Start(k)'.dial = {}
             /\ Start(k).r = node[k] /\ Start(k).gone = {} /\ Start(k).dial = {}
  BY DEF Start, Work
<1>5. \A x \in open : x \in v.gone => Owner(x) = n
  <2>1. node[n].edges \ {Loop} = {x \in open : Owner(x) = n}
    BY <1>4 DEF Tables, Table
  <2>2. Loop \notin open
    BY EndFacts DEF Typed
  <2> QED
    BY <2>1, <2>2
<1>6. ASSUME NEW k \in Node, k # n
      PROVE  (Table(k, Start(k)) /\ Watch(k, Dialing(k), Start(k)))'
  <2>1. Table(k, Start(k)) /\ Watch(k, Dialing(k), Start(k))
    BY DEF Tables
  <2>2. {x \in open' : Owner(x)' = k} = {x \in open : Owner(x) = k}
    BY <1>2, <1>5, <1>6
  <2>0. Start(k)'.r = Start(k).r /\ Start(k)'.gone = {} /\ Start(k).gone = {}
    BY <1>1, <1>4, <1>6
  <2>3. Table(k, Start(k))'
    <3>1. (Start(k)'.r.edges \ {Loop}) = {x \in open' : Owner(x)' = k} \ Start(k)'.gone
      BY <2>0, <2>1, <2>2 DEF Table
    <3> HIDE DEF Start
    <3> QED
      BY <2>0, <2>1, <3>1 DEF Table
  <2>4. Dialed(k, Start(k))' = Dialed(k, Start(k)) /\ Dialing(k)' = Dialing(k)
    BY <1>2, <1>4, <1>5, <1>6 DEF Dialed, Outbound
  <2>5. Watch(k, Dialing(k), Start(k))'
    BY <1>1, <1>4, <1>6, <2>1, <2>4 DEF Watch
  <2> QED
    BY <2>3, <2>5
<1>7. (Table(n, Start(n)) /\ Watch(n, Dialing(n), Start(n)))'
  <2>1. Table(n, v) /\ Watch(n, D, v)
    BY DEF Good
  <2>2. {x \in open' : Owner(x)' = n} = {x \in open : Owner(x) = n} \ v.gone
    BY <1>2
  <2>3. Table(n, Start(n))'
    BY <1>1, <1>4, <2>1, <2>2 DEF Table
  <2>4. Dialed(n, Start(n))' = Dialed(n, v)
    BY <1>2, <1>4 DEF Dialed, Outbound
  <2>5. Watch(n, Dialing(n), Start(n))'
    BY <1>1, <1>4, <2>1, <2>4 DEF Watch
  <2> QED
    BY <2>3, <2>5
<1>8. Tables'
  BY <1>6, <1>7 DEF Tables
<1> QED
  BY <1>3, <1>8

\* What a handler of n left in v fits what the two ends told each other.
Lawful(n, v) ==
  /\ v.gone \subseteq node[n].edges
  /\ DOMAIN node[n].byEdge \ v.gone \subseteq DOMAIN v.r.byEdge
  /\ \A y \in DOMAIN v.r.byEdge :
       \/ y \in DOMAIN node[n].byEdge /\ v.r.byEdge[y] = node[n].byEdge[y]
       \/ /\ v.r.byEdge[y] = Owner(Other(y)) /\ Owner(Other(y)) # n
          /\ \/ Other(y) \in open => Bound(Other(y))
             \/ \E k \in Msgs(v.out[Other(y)]) : k.type = "Connect"
  /\ \A y \in open : \A k \in Msgs(v.out[y]) : k.type \in Hellos =>
       /\ k.id = n /\ Owner(Other(y)) = n
       /\ k.type = "Connect" => n < Owner(y) /\ Other(y) \in DOMAIN v.r.byEdge
\* What is on its way afterwards.
Delivered(n, v) ==
  \A y \in open' :
    /\ Msgs(chan'[y]) \subseteq Msgs(chan[y]) \cup Msgs(v.out[y])
    /\ y.e \notin cut => Msgs(v.out[y]) \subseteq Msgs(chan'[y])
    /\ Owed(y) => Owed(y)' \/ (Owner(y) = n /\ y \in DOMAIN v.r.byEdge)

LEMMA TalkStep ==
  ASSUME Typed, Tables, Talk, NEW n \in Node, NEW v, Lawful(n, v), Delivered(n, v),
         node' = [node EXCEPT ![n] = v.r], open' = open \ v.gone, edge' = edge, cut' = cut
  PROVE  Talk'
<1>1. node'[n] = v.r /\ \A k \in Node : k # n => node'[k] = node[k]
  BY DEF Typed
<1>2. \A x : Owner(x)' = Owner(x)
  BY DEF Owner
<1>3. \A x \in open : Owner(x) \in Node /\ Owner(Other(x)) \in Node /\ Other(Other(x)) = x
  BY OwnerFacts, EndFacts DEF Typed
<1>4. open' \subseteq open
  OBVIOUS
\* An end that stays open keeps its connection.
<1>5. ASSUME NEW x \in open', Bound(x)  PROVE Bound(x)'
  <2>1. CASE Owner(x) = n
    BY <1>1, <1>2, <1>5, <2>1 DEF Bound, Lawful
  <2>2. CASE Owner(x) # n
    BY <1>1, <1>2, <1>3, <1>4, <1>5, <2>2 DEF Bound
  <2> QED
    BY <2>1, <2>2
\* An end that has one now had it or is the one that was bound.
<1>6. ASSUME NEW x \in open', Bound(x)'
      PROVE  \/ Bound(x) /\ node'[Owner(x)].byEdge[x] = node[Owner(x)].byEdge[x]
             \/ /\ Owner(x) = n /\ node'[n].byEdge[x] = Owner(Other(x)) /\ Owner(Other(x)) # n
                /\ \/ Other(x) \in open => Bound(Other(x))
                   \/ \E k \in Msgs(v.out[Other(x)]) : k.type = "Connect"
  <2>1. CASE Owner(x) = n
    <3>1. x \in DOMAIN v.r.byEdge
      BY <1>1, <1>2, <1>6, <2>1 DEF Bound
    <3> QED
      BY <1>1, <2>1, <3>1 DEF Bound, Lawful
  <2>2. CASE Owner(x) # n
    BY <1>1, <1>2, <1>3, <1>4, <1>6, <2>2 DEF Bound
  <2> QED
    BY <2>1, <2>2
<1>7. Peers'
  <2> SUFFICES ASSUME NEW x \in open', Bound(x)'
               PROVE  /\ node'[Owner(x)].byEdge[x] = Owner(Other(x))
                      /\ Owner(Other(x)) # Owner(x)
    BY <1>2 DEF Peers
  <2> QED
    BY <1>4, <1>6 DEF Talk, Peers
<1>8. Honest'
  <2> SUFFICES ASSUME NEW x \in open', NEW k \in Msgs(chan'[x])
               PROVE  /\ k.type \in Hellos => k.id = Owner(Other(x))
                      /\ k.type = "Connect" => k.id < Owner(x)
    BY <1>2 DEF Honest
  <2>1. CASE k \in Msgs(chan[x])
    BY <1>4, <2>1 DEF Talk, Honest
  <2>2. CASE k \in Msgs(v.out[x])
    <3>1. k.type \in Hellos =>
            /\ k.id = n /\ Owner(Other(x)) = n
            /\ k.type = "Connect" => n < Owner(x) /\ Other(x) \in DOMAIN v.r.byEdge
      BY <1>4, <2>2 DEF Lawful
    <3> QED
      BY <3>1 DEF Hellos
  <2> QED
    BY <2>1, <2>2 DEF Delivered
<1>9. Awaited'
  <2> SUFFICES ASSUME NEW x \in open', Other(x) \in open', x.e \notin cut, Bound(x)'
               PROVE  Bound(Other(x))' \/ Owed(Other(x))'
    BY DEF Awaited
  <2>1. Other(x).e = x.e
    BY <1>4, EndFacts DEF Typed
  <2>2. CASE Bound(x)
    <3>1. Bound(Other(x)) \/ Owed(Other(x))
      BY <1>4, <2>2 DEF Talk, Awaited
    <3>2. CASE Bound(Other(x))
      BY <1>5, <3>2
    <3>3. CASE Owed(Other(x))
      <4>1. Owed(Other(x))' \/ (Owner(Other(x)) = n /\ Other(x) \in DOMAIN v.r.byEdge)
        BY <3>3 DEF Delivered
      <4> QED
        BY <1>1, <1>2, <4>1 DEF Bound
    <3> QED
      BY <3>1, <3>2, <3>3
  <2>3. CASE Bound(Other(x))
    BY <1>5, <2>3
  <2>4. ASSUME NEW k \in Msgs(v.out[Other(x)]), k.type = "Connect"
        PROVE  Owed(Other(x))'
    <3>1. k \in Msgs(chan'[Other(x)])
      BY <2>1, <2>4 DEF Delivered
    <3> QED
      BY <2>4, <3>1 DEF Owed
  <2> QED
    BY <1>4, <1>6, <2>2, <2>3, <2>4
<1>10. Decided'
  <2> SUFFICES ASSUME NEW x \in open', Other(x) \in open', Owed(x)'
               PROVE  Bound(Other(x))'
    BY DEF Decided
  <2>1. PICK k \in Msgs(chan'[x]) : k.type = "Connect"
    BY DEF Owed
  <2>2. CASE k \in Msgs(chan[x])
    <3>1. Owed(x)
      BY <2>1, <2>2 DEF Owed
    <3>2. Bound(Other(x))
      BY <1>4, <3>1 DEF Talk, Decided
    <3> QED
      BY <1>5, <3>2
  <2>3. CASE k \in Msgs(v.out[x])
    <3>1. Owner(Other(x)) = n /\ Other(x) \in DOMAIN v.r.byEdge
      BY <1>4, <2>1, <2>3 DEF Lawful, Hellos
    <3> QED
      BY <1>1, <1>2, <3>1 DEF Bound
  <2> QED
    BY <2>2, <2>3 DEF Delivered
<1> QED
  BY <1>7, <1>8, <1>9, <1>10 DEF Talk

LEMMA DeliverMsgs ==
  ASSUME Typed, NEW ch \in [End -> Seq(Message)], NEW v, IsWork(v), chan' = Deliver(ch, v)
  PROVE  /\ chan' \in [End -> Seq(Message)]
         /\ \A y \in open \ v.gone :
              /\ Msgs(ch[y]) \subseteq Msgs(chan'[y])
              /\ Msgs(chan'[y]) \subseteq Msgs(ch[y]) \cup Msgs(v.out[y])
              /\ y.e \notin cut => Msgs(v.out[y]) \subseteq Msgs(chan'[y])
<1>1. \A y \in End : /\ ch[y] \in Seq(Message) /\ v.out[y] \in Seq(Message)
                     /\ ch[y] \o v.out[y] \in Seq(Message) /\ <<>> \in Seq(Message)
  BY DEF IsWork
<1>2. \A y \in End : chan'[y] = IF y \in v.gone THEN <<>>
                                ELSE IF y \in open /\ y.e \notin cut THEN ch[y] \o v.out[y]
                                ELSE ch[y]
  BY DEF Deliver
<1>3. chan' \in [End -> Seq(Message)]
  <2>1. \A y \in End : chan'[y] \in Seq(Message)
    BY <1>1, <1>2
  <2>2. chan' = [y \in End |-> chan'[y]]
    BY DEF Deliver
  <2> QED
    BY <2>1, <2>2
<1>4. ASSUME NEW y \in open \ v.gone
      PROVE  /\ Msgs(ch[y]) \subseteq Msgs(chan'[y])
             /\ Msgs(chan'[y]) \subseteq Msgs(ch[y]) \cup Msgs(v.out[y])
             /\ y.e \notin cut => Msgs(v.out[y]) \subseteq Msgs(chan'[y])
  <2>1. y \in End
    BY DEF Typed
  <2>2. CASE y.e \notin cut
    <3>1. chan'[y] = ch[y] \o v.out[y]
      BY <1>2, <2>1, <2>2
    <3>2. Msgs(ch[y] \o v.out[y]) = Msgs(ch[y]) \cup Msgs(v.out[y])
      BY <1>1, <2>1, MsgsConcat
    <3> QED
      BY <3>1, <3>2
  <2>3. CASE y.e \in cut
    BY <1>2, <2>1, <2>3
  <2> QED
    BY <2>2, <2>3
<1> QED
  BY <1>3, <1>4

LEMMA DialingMore ==
  ASSUME Typed, NEW n \in Node, NEW S \in SUBSET Node, NEW R \in SUBSET dial,
         \A d \in R : d[1] = n,
         dial' = (dial \ R) \cup {<<n, a>> : a \in S}
  PROVE  /\ dial' \subseteq Node \X Node
         /\ Dialing(n)' = (Dialing(n) \ {d[2] : d \in R}) \cup S
         /\ \A k \in Node : k # n => Dialing(k)' = Dialing(k)
<1>1. \A d \in dial : d \in Node \X Node /\ d = <<d[1], d[2]>>
  BY DEF Typed
<1>2. \A a \in S : <<n, a>>[1] = n /\ <<n, a>>[2] = a /\ <<n, a>> \in dial'
  OBVIOUS
<1>3. dial' \subseteq Node \X Node
  BY <1>1
<1>4. Dialing(n)' = (Dialing(n) \ {d[2] : d \in R}) \cup S
  <2>1. ASSUME NEW b \in Dialing(n)'
        PROVE  b \in (Dialing(n) \ {d[2] : d \in R}) \cup S
    <3>1. PICK d \in dial' : d[1] = n /\ d[2] = b
      BY DEF Dialing
    <3>2. CASE d \in dial \ R
      <4>1. \A c \in R : c[2] # b
        BY <1>1, <3>1, <3>2
      <4> QED
        BY <3>1, <3>2, <4>1 DEF Dialing
    <3>3. CASE d \in {<<n, a>> : a \in S}
      BY <3>1, <3>3
    <3> QED
      BY <3>2, <3>3
  <2>2. ASSUME NEW b \in (Dialing(n) \ {d[2] : d \in R})
        PROVE  b \in Dialing(n)'
    <3>1. PICK d \in dial : d[1] = n /\ d[2] = b
      BY DEF Dialing
    <3>2. d \in dial'
      BY <3>1
    <3> QED
      BY <3>1, <3>2 DEF Dialing
  <2>3. ASSUME NEW b \in S  PROVE b \in Dialing(n)'
    BY <1>2 DEF Dialing
  <2> QED
    BY <2>1, <2>2, <2>3
<1>5. ASSUME NEW k \in Node, k # n  PROVE Dialing(k)' = Dialing(k)
  <2>1. {d \in dial' : d[1] = k} = {d \in dial : d[1] = k}
    BY <1>2, <1>5
  <2> QED
    BY <2>1 DEF Dialing
<1> QED
  BY <1>3, <1>4, <1>5

LEMMA HandlerStep ==
  ASSUME IInv, NEW n \in Node, NEW v, Good(n, Dialing(n), v), Lawful(n, v), Done(n, v),
         edge' = edge, cut' = cut, NEW ch \in [End -> Seq(Message)], chan' = Deliver(ch, v),
         \A y \in open \ v.gone :
           /\ Msgs(ch[y]) \subseteq Msgs(chan[y])
           /\ Owed(y) => \/ \E k \in Msgs(ch[y]) : k.type = "Connect"
                         \/ Owner(y) = n /\ y \in DOMAIN v.r.byEdge
  PROVE  IInv'
<1>1. Typed /\ Tables /\ Talk /\ IsWork(v)
  BY DEF IInv, Good
<1>2. /\ node' = [node EXCEPT ![n] = v.r] /\ open' = open \ v.gone
      /\ dial' = dial \cup {<<n, a>> : a \in v.dial}
  BY DEF Done
<1>3. /\ chan' \in [End -> Seq(Message)]
      /\ \A y \in open \ v.gone :
           /\ Msgs(ch[y]) \subseteq Msgs(chan'[y])
           /\ Msgs(chan'[y]) \subseteq Msgs(ch[y]) \cup Msgs(v.out[y])
           /\ y.e \notin cut => Msgs(v.out[y]) \subseteq Msgs(chan'[y])
  BY <1>1, DeliverMsgs
<1>4. /\ dial' \subseteq Node \X Node /\ Dialing(n)' = Dialing(n) \cup v.dial
      /\ \A k \in Node : k # n => Dialing(k)' = Dialing(k)
  <2>1. v.dial \in SUBSET Node
    BY DEF Good, Watch
  <2>2. {} \in SUBSET dial /\ dial' = (dial \ {}) \cup {<<n, a>> : a \in v.dial}
    BY <1>2
  <2>3. /\ dial' \subseteq Node \X Node
        /\ Dialing(n)' = (Dialing(n) \ {d[2] : d \in {}}) \cup v.dial
        /\ \A k \in Node : k # n => Dialing(k)' = Dialing(k)
    BY <1>1, <2>1, <2>2, DialingMore
  <2> QED
    BY <2>3
<1>5. Typed' /\ Tables'
  <2>1. v.gone \subseteq node[n].edges
    BY DEF Lawful
  <2> QED
    BY <1>1, <1>2, <1>3, <1>4, <2>1, Settle
<1>6. Delivered(n, v)
  <2> SUFFICES ASSUME NEW y \in open'
               PROVE  /\ Msgs(chan'[y]) \subseteq Msgs(chan[y]) \cup Msgs(v.out[y])
                      /\ y.e \notin cut => Msgs(v.out[y]) \subseteq Msgs(chan'[y])
                      /\ Owed(y) => Owed(y)' \/ (Owner(y) = n /\ y \in DOMAIN v.r.byEdge)
    BY DEF Delivered
  <2>1. y \in open \ v.gone
    BY <1>2
  <2>2. Owed(y) => Owed(y)' \/ (Owner(y) = n /\ y \in DOMAIN v.r.byEdge)
    BY <1>3, <2>1 DEF Owed
  <2> QED
    BY <1>3, <2>1, <2>2
<1>7. Talk'
  BY <1>1, <1>2, <1>6, TalkStep
<1> QED
  BY <1>5, <1>7 DEF IInv

-----------------------------------------------------------------------------
(* The steps *)

\* A handler that closes an end and says nothing but Disconnect.
LEMMA ClosingStep ==
  ASSUME IInv, NEW x \in open, NEW p \in Pick(Owner(x)), NEW v,
         Good(Owner(x), Dialing(Owner(x)), v), Closed(Work(Owner(x), p), v, x),
         \A y \in End : \A k \in Msgs(v.out[y]) : k.type = "Disconnect",
         Done(Owner(x), v), edge' = edge, cut' = cut, chan' = Deliver(chan, v)
  PROVE  IInv'
<1> DEFINE n == Owner(x) w == Work(n, p)
<1>1. Typed /\ Tables /\ Talk
  BY DEF IInv
<1>2. n \in Node /\ chan \in [End -> Seq(Message)]
  BY <1>1, OwnerFacts DEF Typed
<1>3. w.r = node[n] /\ w.gone = {}
  BY DEF Work
<1>4. x \in node[n].edges
  <2>1. Start(n).r = node[n] /\ Start(n).gone = {}
    BY DEF Start, Work
  <2> QED
    BY <1>1, <1>2, <2>1 DEF Tables, Table
<1> HIDE DEF w, n
<1>5. Closed(w, v, x) /\ Good(n, Dialing(n), v) /\ Done(n, v)
  BY DEF w, n
<1>6. Lawful(n, v)
  <2>1. v.gone \subseteq node[n].edges
    BY <1>3, <1>4, <1>5 DEF Closed
  <2>2. DOMAIN node[n].byEdge \ v.gone \subseteq DOMAIN v.r.byEdge
    BY <1>3, <1>5 DEF Closed
  <2>3. \A y \in DOMAIN v.r.byEdge :
          y \in DOMAIN node[n].byEdge /\ v.r.byEdge[y] = node[n].byEdge[y]
    BY <1>3, <1>5 DEF Closed
  <2>4. \A y \in open : \A k \in Msgs(v.out[y]) : k.type \notin Hellos
    BY <1>1 DEF Typed, Hellos
  <2> QED
    BY <2>1, <2>2, <2>3, <2>4 DEF Lawful
<1>7. \A y \in open \ v.gone :
        /\ Msgs(chan[y]) \subseteq Msgs(chan[y])
        /\ Owed(y) => \E k \in Msgs(chan[y]) : k.type = "Connect"
  BY DEF Owed
<1> QED
  BY <1>2, <1>5, <1>6, <1>7, HandlerStep

LEMMA StopEndStep ==
  ASSUME IInv, NEW x \in open, StopEnd(x)
  PROVE  IInv'
<1> DEFINE n == Owner(x)
<1>1. PICK p \in Pick(n) :
        LET w == HandleEdgeClose(n, Work(n, p), x)
        IN Done(n, w) /\ chan' = Deliver(chan, w)
  BY DEF StopEnd
<1> DEFINE w == Work(n, p) v == HandleEdgeClose(n, w, x)
<1>2. Typed /\ Tables /\ n \in Node
  BY OwnerFacts DEF IInv
<1>3. Good(n, Dialing(n), w)
  BY <1>2, StartGood
<1>4. /\ x \in w.r.edges /\ \A y \in End : Msgs(w.out[y]) = {}
  <2>1. w.r = node[n] /\ w.gone = {}
    BY DEF Work
  <2>2. \A y \in End : Msgs(w.out[y]) = {}
    BY StartFields
  <2> HIDE DEF w
  <2> QED
    BY <1>3, <2>1, <2>2 DEF Good, Table
<1> HIDE DEF w
<1>5. Good(n, Dialing(n), v) /\ Closed(w, v, x) /\ v.out = w.out
  BY <1>2, <1>3, <1>4, StopGood
<1>6. Done(n, v) /\ chan' = Deliver(chan, v) /\ edge' = edge /\ cut' = cut
  BY <1>1 DEF StopEnd, w
<1> HIDE DEF v
<1>7. \A y \in End : \A k \in Msgs(v.out[y]) : k.type = "Disconnect"
  BY <1>4, <1>5
<1> QED
  BY <1>5, <1>6, <1>7, ClosingStep DEF w

LEMMA CallDisconnectStep ==
  ASSUME IInv, NEW x \in End, CallDisconnect(x)
  PROVE  IInv'
<1> DEFINE n == Owner(x)
<1>1. PICK p \in Pick(n) :
        LET w == HandleDisconnect(n, Work(n, p), x)
        IN Done(n, w) /\ chan' = Deliver(chan, w)
  BY DEF CallDisconnect
<1> DEFINE w == Work(n, p) v == HandleDisconnect(n, w, x)
<1>2. Typed /\ Tables /\ x \in open /\ x \in DOMAIN node[n].byEdge
  BY DEF IInv, CallDisconnect, Bound
<1>2a. n \in Node
  BY <1>2, OwnerFacts
<1>3. Good(n, Dialing(n), w)
  BY <1>2, <1>2a, StartGood
<1>4. /\ x \in DOMAIN w.r.byEdge /\ \A y \in End : Msgs(w.out[y]) = {}
  <2>1. w.r = node[n]
    BY DEF Work
  <2>2. \A y \in End : Msgs(w.out[y]) = {}
    BY StartFields
  <2> HIDE DEF w
  <2> QED
    BY <1>2, <2>1, <2>2
<1> HIDE DEF w
<1>5. /\ Good(n, Dialing(n), v) /\ Closed(w, v, x)
      /\ \A y \in End : \A k \in Msgs(v.out[y]) :
           k \in Msgs(w.out[y]) \/ k.type = "Disconnect"
  BY <1>2, <1>2a, <1>3, <1>4, DisconnectGood
<1>6. Done(n, v) /\ chan' = Deliver(chan, v) /\ edge' = edge /\ cut' = cut
  BY <1>1 DEF CallDisconnect, w
<1> HIDE DEF v
<1>7. \A y \in End : \A k \in Msgs(v.out[y]) : k.type = "Disconnect"
  BY <1>4, <1>5
<1> QED
  BY <1>2, <1>5, <1>6, <1>7, ClosingStep DEF w

LEMMA ReceiveStep ==
  ASSUME IInv, NEW x \in End, Receive(x)
  PROVE  IInv'
<1> DEFINE n == Owner(x) m == Head(chan[x]) ch == [chan EXCEPT ![x] = Tail(chan[x])]
<1>1. PICK p \in Pick(n) :
        LET w == Handle(n, Work(n, p), x, m)
        IN Done(n, w) /\ chan' = Deliver(ch, w)
  BY DEF Receive
<1> DEFINE w == Work(n, p) v == Handle(n, w, x, m)
<1>2. Typed /\ Tables /\ Talk /\ x \in open /\ chan[x] # <<>>
  BY DEF IInv, Receive
<1>3. /\ n \in Node /\ Owner(Other(x)) \in Node
      /\ \A y \in End : Other(y) \in End /\ Other(Other(y)) = y
  BY <1>2, OwnerFacts, EndFacts
<1>4. /\ Tail(chan[x]) \in Seq(Message) /\ m \in Msgs(chan[x])
      /\ Msgs(chan[x]) = {m} \cup Msgs(Tail(chan[x]))
  <2>1. chan[x] \in Seq(Message)
    BY <1>2 DEF Typed
  <2> QED
    BY <1>2, <2>1, MsgsTail
<1>5. /\ ch \in [End -> Seq(Message)] /\ ch[x] = Tail(chan[x])
      /\ \A y \in End : y # x => ch[y] = chan[y]
  BY <1>2, <1>4 DEF Typed
<1>6. /\ m.type \in Hellos => m.id = Owner(Other(x))
      /\ m.type = "Connect" => m.id < n
  BY <1>2, <1>4 DEF Talk, Honest
<1>7. Good(n, Dialing(n), w)
  BY <1>2, <1>3, StartGood
<1>8. /\ w.r = node[n] /\ w.gone = {} /\ \A y \in End : Msgs(w.out[y]) = {}
  <2>1. w.r = node[n] /\ w.gone = {}
    BY DEF Work
  <2>2. \A y \in End : Msgs(w.out[y]) = {}
    BY StartFields
  <2> QED
    BY <2>1, <2>2
<1> HIDE DEF w
<1>9. x \in w.r.edges
  BY <1>2, <1>7, <1>8 DEF Good, Table
<1> HIDE DEF m
<1>10. Good(n, Dialing(n), v) /\ Reply(n, w, v, x, m.type, m.id)
  BY <1>2, <1>3, <1>6, <1>7, <1>9, HandleGood
<1>11. Done(n, v) /\ chan' = Deliver(ch, v) /\ edge' = edge /\ cut' = cut
  BY <1>1 DEF Receive, w
<1> HIDE DEF v, ch, n
<1>12. Lawful(n, v)
  <2>1. v.gone \subseteq node[n].edges
    BY <1>8, <1>10 DEF Reply, Effect
  <2>2. DOMAIN node[n].byEdge \ v.gone \subseteq DOMAIN v.r.byEdge
    BY <1>8, <1>10 DEF Reply, Effect
  <2>3. ASSUME NEW y \in DOMAIN v.r.byEdge
        PROVE  \/ y \in DOMAIN node[n].byEdge /\ v.r.byEdge[y] = node[n].byEdge[y]
               \/ /\ v.r.byEdge[y] = Owner(Other(y)) /\ Owner(Other(y)) # n
                  /\ \/ Other(y) \in open => Bound(Other(y))
                     \/ \E k \in Msgs(v.out[Other(y)]) : k.type = "Connect"
    <3>1. CASE y \in DOMAIN w.r.byEdge /\ v.r.byEdge[y] = w.r.byEdge[y]
      BY <1>8, <3>1
    <3>2. CASE y = x /\ v.r.byEdge[y] = m.id /\ x \notin DOMAIN w.r.byEdge
      <4>1. /\ m.id # n /\ m.type \in Hellos
            /\ m.type = "Connect" \/ Says("Connect", n) \in Msgs(v.out[Other(x)])
        BY <1>10, <2>3, <3>2 DEF Reply
      <4>2. m.type = "Connect" => (Other(x) \in open => Bound(Other(x)))
        BY <1>2, <1>4 DEF Talk, Decided, Owed
      <4>3. Says("Connect", n).type = "Connect"
        BY DEF Says
      <4> QED
        BY <1>6, <3>2, <4>1, <4>2, <4>3
    <3>3. \/ y \in DOMAIN w.r.byEdge /\ v.r.byEdge[y] = w.r.byEdge[y]
          \/ y = x /\ v.r.byEdge[y] = m.id
      BY <1>10, <2>3 DEF Reply, Effect
    <3>4. x \in DOMAIN v.r.byEdge /\ x \in DOMAIN w.r.byEdge => v.r.byEdge[x] = w.r.byEdge[x]
      BY <1>10 DEF Reply
    <3> QED
      BY <2>3, <3>1, <3>2, <3>3, <3>4
  <2>4. ASSUME NEW y \in open, NEW k \in Msgs(v.out[y]), k.type \in Hellos
        PROVE  /\ k.id = n /\ Owner(Other(y)) = n
               /\ k.type = "Connect" => n < Owner(y) /\ Other(y) \in DOMAIN v.r.byEdge
    <3>1. y \in End /\ k \notin Msgs(w.out[y]) /\ k.type \notin {"Close", "Disconnect"}
      BY <1>2, <1>8, <2>4 DEF Typed, Hellos
    <3>2. \/ y = Other(x) /\ k = Says("Inquired", n)
          \/ /\ y = Other(x) /\ k = Says("Connect", n) /\ n < m.id /\ x \in DOMAIN v.r.byEdge
             /\ m.type \in Hellos
      BY <1>10, <2>4, <3>1 DEF Reply
    <3>3. Other(y) = x /\ Owner(x) = n
      BY <1>3, <3>2 DEF n
    <3> QED
      BY <1>6, <3>2, <3>3 DEF Says
  <2> QED
    BY <2>1, <2>2, <2>3, <2>4 DEF Lawful
<1>13. ASSUME NEW y \in open \ v.gone
       PROVE  /\ Msgs(ch[y]) \subseteq Msgs(chan[y])
              /\ Owed(y) => \/ \E k \in Msgs(ch[y]) : k.type = "Connect"
                            \/ Owner(y) = n /\ y \in DOMAIN v.r.byEdge
  <2>1. CASE y # x
    BY <1>2, <1>5, <2>1 DEF Owed, Typed
  <2>2. CASE y = x
    <3>1. m.type = "Connect" => x \in DOMAIN v.r.byEdge
      BY <1>10 DEF Reply
    <3> QED
      BY <1>4, <1>5, <2>2, <3>1 DEF Owed, n
  <2> QED
    BY <2>1, <2>2
<1> QED
  BY <1>3, <1>5, <1>10, <1>11, <1>12, <1>13, HandlerStep DEF n

LEMMA FailureStep ==
  ASSUME IInv, NEW n \in Node, NEW a \in Node, HandleEdgeCreationFailure(n, a)
  PROVE  IInv'
<1>1. PICK p \in Pick(n) :
        LET w == HandleConnectionAttemptFailure(n,
                   [Work(n, p) EXCEPT !.r.active = @ \ {a}], a)
        IN /\ node' = [node EXCEPT ![n] = w.r]
           /\ dial' = (dial \ {<<n, a>>}) \cup {<<n, b>> : b \in w.dial}
  BY DEF HandleEdgeCreationFailure
<1> DEFINE s == Work(n, p) r == [s.r EXCEPT !.active = s.r.active \ {a}]
           w == [s EXCEPT !.r = r] D == Dialing(n) \ {a}
           v == HandleConnectionAttemptFailure(n, w, a)
<1>2. /\ node' = [node EXCEPT ![n] = v.r]
      /\ dial' = (dial \ {<<n, a>>}) \cup {<<n, b>> : b \in v.dial}
      /\ <<n, a>> \in dial /\ edge' = edge /\ open' = open /\ cut' = cut /\ chan' = chan
  BY <1>1 DEF HandleEdgeCreationFailure
<1>3. Typed /\ Tables /\ Talk
  BY DEF IInv
<1>4. Good(n, Dialing(n), s)
  BY <1>3, StartGood
<1>5. s.r = node[n] /\ s.gone = {} /\ s.dial = {} /\ \A y \in End : s.out[y] = <<>>
  BY DEF Work
<1> HIDE DEF s
<1>6. /\ IsNode(r) /\ r.active = s.r.active \ {a} /\ r.edges = s.r.edges /\ r.byId = s.r.byId
      /\ r.byEdge = s.r.byEdge /\ r.stopped = s.r.stopped
  BY <1>4 DEF Good, IsWork, IsNode, Fields
<1> HIDE DEF r
<1>7. /\ IsWork(w) /\ w.r = r /\ w.out = s.out /\ w.gone = s.gone /\ w.dial = s.dial
      /\ w.pick = s.pick
  BY <1>4, <1>6 DEF Good, IsWork, WorkFields
<1> HIDE DEF w
<1>8. Good(n, D, w)
  <2>1. Table(n, w)
    BY <1>4, <1>6, <1>7 DEF Good, Table
  <2>2. a \in Dialing(n)
    BY <1>2 DEF Dialing
  <2>3. Dialed(n, w) = Dialed(n, s)
    BY <1>7 DEF Dialed
  <2>4. Watch(n, Dialing(n), s)
    BY <1>4 DEF Good
  <2> HIDE DEF D
  <2>5. D = Dialing(n) \ {a}
    BY DEF D
  <2>6. Watch(n, D, w)
    BY <1>5, <1>6, <1>7, <2>2, <2>3, <2>4, <2>5 DEF Watch
  <2> QED
    BY <1>4, <1>6, <1>7, <2>1, <2>6 DEF Good
<1>9. Good(n, D, v) /\ Same(w, v)
  BY <1>3, <1>8, FailureGood
<1> HIDE DEF v
<1>10. /\ dial' \subseteq Node \X Node /\ Dialing(n)' = D \cup v.dial
       /\ \A k \in Node : k # n => Dialing(k)' = Dialing(k)
  <2>1. v.dial \in SUBSET Node
    BY <1>9 DEF Good, Watch
  <2>2. {<<n, a>>} \in SUBSET dial /\ \A d \in {<<n, a>>} : d[1] = n
    BY <1>2
  <2>3. /\ dial' \subseteq Node \X Node
        /\ Dialing(n)' = (Dialing(n) \ {d[2] : d \in {<<n, a>>}}) \cup v.dial
        /\ \A k \in Node : k # n => Dialing(k)' = Dialing(k)
    <3> DEFINE S == v.dial R == {<<n, a>>}
    <3>1. /\ Typed /\ S \in SUBSET Node /\ R \in SUBSET dial /\ \A d \in R : d[1] = n
          /\ dial' = (dial \ R) \cup {<<n, b>> : b \in S}
      BY <1>2, <1>3, <2>1, <2>2
    <3> HIDE DEF S, R
    <3>2. /\ dial' \subseteq Node \X Node
          /\ Dialing(n)' = (Dialing(n) \ {d[2] : d \in R}) \cup S
          /\ \A k \in Node : k # n => Dialing(k)' = Dialing(k)
      BY <3>1, DialingMore
    <3> QED
      BY <3>2 DEF R, S
  <2> QED
    BY <2>3
<1>11. v.gone = {} /\ v.r.byEdge = node[n].byEdge /\ \A y \in End : Msgs(v.out[y]) = {}
  BY <1>5, <1>6, <1>7, <1>9, NoMsgs DEF Same
<1>12. Typed' /\ Tables'
  <2>1. open' = open \ v.gone /\ chan' \in [End -> Seq(Message)] /\ v.gone \subseteq node[n].edges
    BY <1>2, <1>3, <1>11 DEF Typed
  <2> HIDE DEF D
  <2> QED
    BY <1>2, <1>3, <1>9, <1>10, <2>1, Settle
<1>13. Lawful(n, v)
  BY <1>3, <1>11 DEF Lawful, Typed
<1>14. Delivered(n, v)
  <2>1. \A y \in open' : Msgs(v.out[y]) = {}
    BY <1>2, <1>3, <1>11 DEF Typed
  <2> QED
    BY <1>2, <2>1 DEF Delivered, Owed
<1>15. Talk'
  <2>1. open' = open \ v.gone
    BY <1>2, <1>11
  <2> QED
    BY <1>2, <1>3, <1>13, <1>14, <2>1, TalkStep
<1> QED
  BY <1>12, <1>15 DEF IInv

LEMMA BreakStep ==
  ASSUME IInv, node' = node, edge' = edge, open' = open, chan' = chan, dial' = dial,
         cut \subseteq cut'
  PROVE  IInv'
<1>1. /\ node' = node /\ edge' = edge /\ open' = open /\ chan' = chan /\ dial' = dial
      /\ cut \subseteq cut'
  OBVIOUS
<1>2. Typed' /\ Tables'
  <2>1. Typed'
    BY <1>1 DEF IInv, Typed
  <2>2. ASSUME NEW k \in Node  PROVE (Table(k, Start(k)) /\ Watch(k, Dialing(k), Start(k)))'
    <3> DEFINE s == Start(k) t == Start(k)'
    <3>1. t = s
      BY <1>1 DEF Start, Work
    <3>2. Table(k, s) /\ Watch(k, Dialing(k), s)
      BY DEF IInv, Tables
    <3>3. Dialing(k)' = Dialing(k)
      BY <1>1 DEF Dialing
    <3>4. {x \in open' : Owner(x)' = k} = {x \in open : Owner(x) = k}
      BY <1>1 DEF Owner
    <3>5. Dialed(k, s)' = Dialed(k, s)
      BY <1>1, <3>1 DEF Dialed, Outbound, Owner
    <3> HIDE DEF s, t
    <3>6. Table(k, Start(k))'
      BY <3>1, <3>2, <3>4 DEF Table, s, t
    <3>7. Watch(k, Dialing(k), Start(k))'
      BY <1>1, <3>1, <3>2, <3>3, <3>5 DEF Watch, s, t
    <3> QED
      BY <3>6, <3>7
  <2> QED
    BY <2>1, <2>2 DEF Tables
<1>3. /\ \A x : Owner(x)' = Owner(x) /\ Bound(x)' = Bound(x) /\ Owed(x)' = Owed(x)
  BY <1>1 DEF Owner, Bound, Owed
<1>4. Peers' /\ Honest' /\ Decided'
  BY <1>1, <1>3 DEF IInv, Talk, Peers, Honest, Decided
<1>5. Awaited'
  BY <1>1, <1>3 DEF IInv, Talk, Awaited
<1> QED
  BY <1>2, <1>4, <1>5 DEF IInv, Talk

LEMMA StopStep ==
  ASSUME IInv, NEW n \in Node, Stop(n)
  PROVE  IInv'
<1> DEFINE v == OnStop(n) q == node[n]
           told == {Other(x) : x \in GetConnections(q) \ {Loop}}
           o == [x \in End |-> IF x \in told THEN <<[type |-> "Disconnect", id |-> 0]>>
                               ELSE <<>>]
           i0 == [m \in Node |-> NoEnd] e0 == [x \in {} |-> 0]
           r == [q EXCEPT !.stopped = TRUE, !.active = {}, !.edges = {},
                          !.byId = i0, !.byEdge = e0, !.hooked = {}, !.over = @ + 1]
<1>1. /\ node' = [node EXCEPT ![n] = v.r] /\ open' = open \ v.gone
      /\ chan' = Deliver(chan, v) /\ dial' = {d \in dial : d[1] # n}
      /\ edge' = edge /\ cut' = cut
  BY DEF Stop
<1>2. Typed /\ Tables /\ Talk /\ IsNode(q)
  BY DEF IInv, Typed
<1>3. v = [Work(n, NoAddress) EXCEPT !.gone = q.edges, !.out = o, !.r = r]
  BY DEF OnStop
<1>4. /\ i0 = [m \in Node |-> i0[m]] /\ \A m \in Node : i0[m] = NoEnd
      /\ e0 = [x \in DOMAIN e0 |-> e0[x]] /\ DOMAIN e0 = {}
  OBVIOUS
<1>5. o \in [End -> Seq(Message)] /\ \A y \in End : \A k \in Msgs(o[y]) : k.type = "Disconnect"
  <2> DEFINE d == [type |-> "Disconnect", id |-> 0]
  <2>1. d \in Message /\ d.type = "Disconnect"
    BY DEF Message
  <2> HIDE DEF told, d
  <2>2. <<d>> \in Seq(Message) /\ <<>> \in Seq(Message)
    BY <2>1
  <2>3. Msgs(<<d>>) = {d}
    BY DEF Msgs
  <2>4. \A y \in End : o[y] = <<d>> \/ o[y] = <<>>
    BY DEF d
  <2>5. o = [y \in End |-> o[y]]
    OBVIOUS
  <2> HIDE DEF o
  <2> QED
    BY <2>1, <2>2, <2>3, <2>4, <2>5, NoMsgs
<1> HIDE DEF i0, e0, o, told
<1>6. /\ IsNode(r) /\ r.byId = i0 /\ r.byEdge = e0 /\ r.edges = {} /\ r.stopped = TRUE
  BY <1>2, <1>4 DEF IsNode, Fields
<1> HIDE DEF r
<1>7. /\ IsWork(v) /\ v.r = r /\ v.out = o /\ v.gone = q.edges /\ v.dial = {}
  <2>1. v = [r |-> r, out |-> o, gone |-> q.edges, dial |-> {}, pick |-> NoAddress]
    BY <1>3 DEF Work
  <2>2. v = [f \in WorkFields |-> v[f]]
    BY <2>1 DEF WorkFields
  <2>3. v.r = r /\ v.out = o /\ v.gone = q.edges /\ v.dial = {}
    BY <2>1
  <2> HIDE DEF v
  <2> QED
    BY <1>5, <1>6, <2>2, <2>3 DEF IsWork
<1> HIDE DEF v
<1>8. Good(n, {}, v)
  <2>1. Start(n).r = q /\ Start(n).gone = {}
    BY DEF Start, Work
  <2>2. Table(n, Start(n))
    BY <1>2 DEF Tables
  <2>3. Table(n, v)
    BY <1>4, <1>6, <1>7, <2>1, <2>2 DEF Table
  <2>4. Watch(n, {}, v)
    BY <1>6, <1>7 DEF Watch
  <2> QED
    BY <1>6, <1>7, <2>3, <2>4 DEF Good
<1>9. /\ dial' \subseteq Node \X Node /\ Dialing(n)' = {} \cup v.dial
      /\ \A k \in Node : k # n => Dialing(k)' = Dialing(k)
  BY <1>1, <1>2, <1>7 DEF Dialing, Typed
<1>10. /\ chan' \in [End -> Seq(Message)]
       /\ \A y \in open \ v.gone :
            /\ Msgs(chan[y]) \subseteq Msgs(chan'[y])
            /\ Msgs(chan'[y]) \subseteq Msgs(chan[y]) \cup Msgs(v.out[y])
            /\ y.e \notin cut => Msgs(v.out[y]) \subseteq Msgs(chan'[y])
  <2>1. chan \in [End -> Seq(Message)]
    BY <1>2 DEF Typed
  <2> QED
    BY <1>1, <1>2, <1>7, <2>1, DeliverMsgs
<1>11. Typed' /\ Tables'
  <2>1. v.gone \subseteq node[n].edges
    BY <1>7
  <2> QED
    BY <1>1, <1>2, <1>8, <1>9, <1>10, <2>1, Settle
<1>12. Lawful(n, v)
  <2>1. DOMAIN node[n].byEdge \subseteq node[n].edges
    <3>1. Start(n).r = q
      BY DEF Start, Work
    <3> QED
      BY <1>2, <3>1 DEF Tables, Table
  <2>2. \A y \in open : \A k \in Msgs(v.out[y]) : k.type \notin Hellos
    BY <1>2, <1>5, <1>7 DEF Typed, Hellos
  <2> QED
    BY <1>4, <1>6, <1>7, <2>1, <2>2 DEF Lawful
<1>13. Delivered(n, v)
  BY <1>1, <1>10 DEF Delivered, Owed
<1>14. Talk'
  BY <1>1, <1>2, <1>12, <1>13, TalkStep
<1> QED
  BY <1>11, <1>14 DEF IInv

LEMMA NewEdgeStep ==
  ASSUME IInv, NEW n \in Node, NEW a \in Node, HandleNewEdge(n, a)
  PROVE  IInv'
<1>1. PICK e \in Slot :
        LET x == [e |-> e, out |-> TRUE]
        IN /\ Ends(e) \cap open = {} /\ \A f \in Slot : f < e => Ends(f) \cap open # {}
           /\ edge' = [edge EXCEPT ![e] = [from |-> n, to |-> a]]
           /\ open' = open \cup Ends(e)
           /\ cut' = cut \ {e}
           /\ chan' = [chan EXCEPT ![x] = <<>>,
                                   ![Other(x)] = <<[type |-> "Inquire", id |-> n]>>]
           /\ node' = [m \in Node |->
                [node[m] EXCEPT !.edges = @ \cup {y \in Ends(e) :
                                    m = (IF y.out THEN n ELSE a)}]]
  BY DEF HandleNewEdge
<1> DEFINE x == [e |-> e, out |-> TRUE] z == [e |-> e, out |-> FALSE]
           hello == [type |-> "Inquire", id |-> n]
<1>2. Typed /\ Tables /\ Talk /\ <<n, a>> \in dial /\ dial' = dial \ {<<n, a>>}
  BY DEF IInv, HandleNewEdge
<1>3. /\ x \in End /\ z \in End /\ x # z /\ Other(x) = z /\ Other(z) = x
      /\ Ends(e) = {x, z} /\ x.out = TRUE /\ z.out = FALSE /\ x.e = e /\ z.e = e
      /\ x # Loop /\ z # Loop
  <2>1. x \in End /\ z \in End /\ Ends(e) = {x, z}
    BY DEF End, Ends
  <2>2. x # z /\ x.out = TRUE /\ z.out = FALSE /\ x.e = e /\ z.e = e
    OBVIOUS
  <2>3. Other(x) = z /\ Other(z) = x
    <3>1. \A y \in End : y.e = e => y = x \/ y = z
      BY DEF End
    <3>2. Other(x) \in End /\ Other(x) # x /\ Other(x).e = e /\ Other(Other(x)) = x
      BY <2>1, <2>2, EndFacts
    <3> HIDE DEF x, z
    <3> QED
      BY <3>1, <3>2
  <2>4. x # Loop /\ z # Loop
    BY <2>1, EndFacts
  <2> QED
    BY <2>1, <2>2, <2>3, <2>4
<1>4. /\ x \notin open /\ z \notin open /\ open' = open \cup {x, z}
      /\ \A y \in open : y \in End /\ y.e \in Slot /\ y.e # e
  <2>1. \A y \in End : y.e \in Slot /\ (y.e = e => y = x \/ y = z)
    BY DEF End
  <2> HIDE DEF x, z
  <2>2. Ends(e) \cap open = {} /\ open' = open \cup Ends(e)
    BY <1>1
  <2> QED
    BY <1>2, <1>3, <2>1, <2>2 DEF Typed
<1>5. /\ edge' = [f \in Slot |-> edge'[f]] /\ edge'[e].from = n /\ edge'[e].to = a
      /\ \A f \in Slot : f # e => edge'[f] = edge[f]
  <2>1. edge' = [edge EXCEPT ![e] = [from |-> n, to |-> a]]
    BY <1>1
  <2> QED
    BY <1>2, <2>1 DEF Typed
<1>6. \A m \in Node : IsNode(node'[m]) /\ node'[m].byId = node[m].byId
        /\ node'[m].byEdge = node[m].byEdge /\ node'[m].active = node[m].active
        /\ node'[m].stopped = node[m].stopped
        /\ node'[m].edges = node[m].edges \cup {y \in {x, z} : m = (IF y.out THEN n ELSE a)}
  <2> TAKE m \in Node
  <2> DEFINE es == node[m].edges \cup {y \in {x, z} : m = (IF y.out THEN n ELSE a)}
  <2>1. node'[m] = [node[m] EXCEPT !.edges = es]
    BY <1>1, <1>3
  <2>2. IsNode(node[m])
    BY <1>2 DEF Typed
  <2> HIDE DEF es
  <2>3. /\ IsNode(node'[m]) /\ node'[m].byId = node[m].byId
        /\ node'[m].byEdge = node[m].byEdge /\ node'[m].active = node[m].active
        /\ node'[m].stopped = node[m].stopped /\ node'[m].edges = es
    BY <2>1, <2>2 DEF IsNode, Fields
  <2> QED
    BY <2>3 DEF es
<1>7. /\ chan' \in [End -> Seq(Message)] /\ Msgs(chan'[x]) = {} /\ Msgs(chan'[z]) = {hello}
      /\ \A y \in open : chan'[y] = chan[y]
  <2>1. hello \in Message
    BY DEF Message
  <2> HIDE DEF hello
  <2>2. <<hello>> \in Seq(Message) /\ <<>> \in Seq(Message) /\ Msgs(<<hello>>) = {hello}
    BY <2>1 DEF Msgs
  <2>3. chan' = [chan EXCEPT ![x] = <<>>, ![z] = <<hello>>]
    BY <1>1, <1>3 DEF hello
  <2> HIDE DEF x, z
  <2>4. chan' \in [End -> Seq(Message)] /\ chan'[x] = <<>> /\ chan'[z] = <<hello>>
    BY <1>2, <1>3, <2>2, <2>3 DEF Typed
  <2>5. \A y \in open : chan'[y] = chan[y]
    BY <1>2, <1>4, <2>3 DEF Typed
  <2> QED
    BY <2>2, <2>4, <2>5, NoMsgs
<1>8. /\ node' = [m \in Node |-> node'[m]] /\ cut' = cut \ {e}
  BY <1>1
<1>9. \A y \in open : /\ Owner(y)' = Owner(y) /\ Owner(Other(y))' = Owner(Other(y))
                      /\ edge'[y.e] = edge[y.e] /\ Other(y).e = y.e
                      /\ Other(y) # x /\ Other(y) # z
  <2> TAKE y \in open
  <2>1. y.e \in Slot /\ y.e # e /\ Other(y).e = y.e
    BY <1>4, EndFacts
  <2>2. edge'[y.e] = edge[y.e] /\ edge'[Other(y).e] = edge[Other(y).e]
    BY <1>5, <2>1
  <2> HIDE DEF x, z
  <2>3. Other(y) # x /\ Other(y) # z
    BY <1>3, <2>1
  <2> QED
    BY <2>1, <2>2, <2>3 DEF Owner
<1>10. Owner(x)' = n /\ Owner(z)' = a
  BY <1>3, <1>5 DEF Owner
<1> HIDE DEF x, z
<1>11. Typed'
  <2>1. dial' \subseteq Node \X Node
    BY <1>2 DEF Typed
  <2>2. \A y \in open' : edge'[y.e].from \in Node /\ edge'[y.e].to \in Node
    BY <1>2, <1>3, <1>4, <1>5, <1>9 DEF Typed
  <2>3. open' \subseteq End
    BY <1>3, <1>4
  <2> QED
    BY <1>2, <1>5, <1>6, <1>7, <1>8, <2>1, <2>2, <2>3 DEF Typed
<1>12. Tables'
  <2> SUFFICES ASSUME NEW m \in Node
               PROVE  (Table(m, Start(m)) /\ Watch(m, Dialing(m), Start(m)))'
    BY DEF Tables
  <2> DEFINE s == Start(m) t == Start(m)'
  <2>1. /\ s.r = node[m] /\ s.gone = {} /\ s.dial = {}
        /\ t.r = node'[m] /\ t.gone = {} /\ t.dial = {}
    BY DEF Start, Work
  <2>2. Table(m, s) /\ Watch(m, Dialing(m), s)
    BY <1>2 DEF Tables
  <2> HIDE DEF s, t
  <2>3. {y \in open' : Owner(y)' = m}
          = {y \in open : Owner(y) = m} \cup {y \in {x, z} : m = (IF y.out THEN n ELSE a)}
    BY <1>3, <1>4, <1>9, <1>10
  <2>4. t.r.edges \ {Loop} = {y \in open' : Owner(y)' = m}
    BY <1>3, <1>6, <2>1, <2>2, <2>3 DEF Table
  <2>5. Table(m, Start(m))'
    <3>1. /\ \A i \in Node : t.r.byId[i] # NoEnd =>
               t.r.byId[i] \in DOMAIN t.r.byEdge /\ t.r.byEdge[t.r.byId[i]] = i
          /\ \A y \in DOMAIN t.r.byEdge :
               y \in t.r.edges /\ t.r.byEdge[y] \in Node /\ t.r.byId[t.r.byEdge[y]] = y
      BY <1>6, <2>1, <2>2 DEF Table
    <3> QED
      BY <2>1, <2>4, <3>1 DEF Table, t
  <2>6. Dialing(m)' = IF m = n THEN Dialing(m) \ {a} ELSE Dialing(m)
    <3>1. \A d \in dial : d = <<d[1], d[2]>>
      BY <1>2 DEF Typed
    <3>2. ASSUME NEW b  PROVE b \in Dialing(m)' <=> b \in Dialing(m) /\ (m = n => b # a)
      <4>1. ASSUME b \in Dialing(m)'  PROVE b \in Dialing(m) /\ (m = n => b # a)
        <5>1. PICK d \in dial' : d[1] = m /\ d[2] = b
          BY <4>1 DEF Dialing
        <5> QED
          BY <1>2, <3>1, <5>1 DEF Dialing
      <4>2. ASSUME b \in Dialing(m), m = n => b # a  PROVE b \in Dialing(m)'
        <5>1. PICK d \in dial : d[1] = m /\ d[2] = b
          BY <4>2 DEF Dialing
        <5>2. d \in dial'
          BY <1>2, <4>2, <5>1
        <5> QED
          BY <5>1, <5>2 DEF Dialing
      <4> QED
        BY <4>1, <4>2
    <3> QED
      BY <3>2
  <2>7. Outbound(m)' = IF m = n THEN Outbound(m) \cup {x} ELSE Outbound(m)
    BY <1>3, <1>4, <1>9, <1>10 DEF Outbound
  <2>8. Dialed(m, s) = Outbound(m) /\ Dialed(m, Start(m))' = Outbound(m)'
    BY <2>1 DEF Dialed, t
  <2>9. Watch(m, Dialing(m), Start(m))'
    <3>1. Outbound(m) \subseteq open /\ \A y \in Outbound(m) : edge'[y.e] = edge[y.e]
      BY <1>9 DEF Outbound
    <3>2. m = n => a \in Dialing(m)
      BY <1>2 DEF Dialing
    <3>3. Dialing(m)' \subseteq Node /\ t.r.stopped = s.r.stopped /\ t.r.active = s.r.active
      BY <1>6, <2>1, <2>2, <2>6 DEF Watch
    <3>4. ~s.r.stopped =>
            /\ s.r.active = Dialing(m) \cup {edge[y.e].to : y \in Outbound(m)}
            /\ \A y \in Outbound(m) :
                 /\ edge[y.e].to \notin Dialing(m)
                 /\ \A w \in Outbound(m) : edge[y.e].to = edge[w.e].to => y = w
      BY <2>1, <2>2, <2>8 DEF Watch
    <3>5. CASE m # n
      <4>1. Dialing(m)' = Dialing(m) /\ Outbound(m)' = Outbound(m)
        BY <2>6, <2>7, <3>5
      <4>2. {edge'[y.e].to : y \in Outbound(m)} = {edge[y.e].to : y \in Outbound(m)}
        BY <3>1
      <4> QED
        BY <2>1, <2>8, <3>1, <3>3, <3>4, <4>1, <4>2 DEF Watch, t
    <3>6. CASE m = n
      <4>1. Dialing(m)' = Dialing(m) \ {a} /\ Outbound(m)' = Outbound(m) \cup {x}
        BY <2>6, <2>7, <3>6
      <4>2. edge'[x.e].to = a
        BY <1>3, <1>5
      <4>3. {edge'[y.e].to : y \in Outbound(m) \cup {x}}
              = {edge[y.e].to : y \in Outbound(m)} \cup {a}
        BY <3>1, <4>2
      <4>4. ~s.r.stopped =>
              \A y \in Outbound(m) \cup {x} :
                 /\ edge'[y.e].to \notin Dialing(m) \ {a}
                 /\ \A w \in Outbound(m) \cup {x} : edge'[y.e].to = edge'[w.e].to => y = w
        BY <3>1, <3>2, <3>4, <3>6, <4>2
      <4> QED
        BY <2>1, <2>8, <3>2, <3>3, <3>4, <3>6, <4>1, <4>3, <4>4 DEF Watch, t
    <3> QED
      BY <3>5, <3>6
  <2> QED
    BY <2>5, <2>9
<1>13. /\ \A y \in open : Bound(y)' = Bound(y) /\ Owed(y)' = Owed(y)
       /\ \A y \in {x, z} : ~Bound(y)' /\ ~Owed(y)'
  <2>1. \A y \in open : Owner(y) \in Node
    BY <1>2, OwnerFacts
  <2>2. \A y \in open : Bound(y)' = Bound(y)
    BY <1>6, <1>9, <2>1 DEF Bound
  <2>3. \A y \in open : Owed(y)' = Owed(y)
    BY <1>7 DEF Owed
  <2>4. ASSUME NEW y \in {x, z}  PROVE ~Bound(y)' /\ ~Owed(y)'
    <3>1. \A m \in Node : y \notin DOMAIN node[m].byEdge
      <4> TAKE m \in Node
      <4>1. Start(m).r = node[m]
        BY DEF Start, Work
      <4> QED
        BY <1>2, <1>3, <1>4, <4>1 DEF Tables, Table
    <3>2. ~Bound(y)'
      BY <1>6, <1>10, <3>1 DEF Bound
    <3>3. hello.type # "Connect"
      OBVIOUS
    <3> HIDE DEF hello
    <3>4. ~Owed(y)'
      BY <1>7, <3>3 DEF Owed
    <3> QED
      BY <3>2, <3>4
  <2> QED
    BY <2>2, <2>3, <2>4
<1>14. Peers'
  <2> SUFFICES ASSUME NEW y \in open', Bound(y)'
               PROVE  (node[Owner(y)].byEdge[y] = Owner(Other(y)) /\ Owner(Other(y)) # Owner(y))'
    BY DEF Peers
  <2>1. y \in open /\ Bound(y)
    BY <1>4, <1>13
  <2>2. Owner(y) \in Node
    BY <1>2, <2>1, OwnerFacts
  <2> QED
    BY <1>2, <1>6, <1>9, <2>1, <2>2 DEF Talk, Peers
<1>15. Honest'
  <2> SUFFICES ASSUME NEW y \in open', NEW k \in Msgs(chan'[y])
               PROVE  (/\ k.type \in Hellos => k.id = Owner(Other(y))
                       /\ k.type = "Connect" => k.id < Owner(y))'
    BY DEF Honest
  <2>1. CASE y \in open
    BY <1>2, <1>7, <1>9, <2>1 DEF Talk, Honest
  <2>2. CASE y \in {x, z}
    <3>1. y = z /\ k = hello
      BY <1>7, <2>2
    <3>2. Owner(Other(y))' = n
      BY <1>3, <1>10, <3>1
    <3> QED
      BY <3>1, <3>2
  <2> QED
    BY <1>4, <2>1, <2>2
<1>16. Awaited'
  <2> SUFFICES ASSUME NEW y \in open', Other(y) \in open', y.e \notin cut', Bound(y)'
               PROVE  Bound(Other(y))' \/ Owed(Other(y))'
    BY DEF Awaited
  <2>1. y \in open /\ Bound(y) /\ Other(y) \in open /\ y.e \notin cut
    BY <1>4, <1>8, <1>9, <1>13
  <2> QED
    BY <1>2, <1>13, <2>1 DEF Talk, Awaited
<1>17. Decided'
  <2> SUFFICES ASSUME NEW y \in open', Other(y) \in open', Owed(y)'
               PROVE  Bound(Other(y))'
    BY DEF Decided
  <2>1. y \in open /\ Owed(y) /\ Other(y) \in open
    BY <1>4, <1>9, <1>13
  <2> QED
    BY <1>2, <1>13, <2>1 DEF Talk, Decided
<1> QED
  BY <1>11, <1>12, <1>14, <1>15, <1>16, <1>17 DEF IInv, Talk

-----------------------------------------------------------------------------
(* The invariant holds *)

LEMMA InitInv == Init => IInv
<1> SUFFICES ASSUME Init  PROVE IInv
  OBVIOUS
<1>1. PICK first \in [Node \ Server -> Node] :
        /\ \A c \in Node \ Server : first[c] \in Remote[c]
        /\ dial = {d \in Node \X Node :
                     IF d[1] \in Server THEN d[2] \in Remote[d[1]] ELSE d[2] = first[d[1]]}
        /\ node = [n \in Node |-> IF n \in Server THEN NewNode(n)
                                  ELSE [NewNode(n) EXCEPT !.active = {first[n]}]]
  BY DEF Init
<1>2. /\ open = {} /\ cut = {} /\ chan = [x \in End |-> <<>>]
      /\ edge = [e \in Slot |-> [from |-> NoAddress, to |-> NoAddress]]
  BY DEF Init
<1>3. \A n \in Node : Remote[n] \subseteq Node
  BY IdAssumption
<1>4. ASSUME NEW n \in Node
      PROVE  /\ IsNode(node[n]) /\ node[n].edges = {Loop}
             /\ node[n].byId = [m \in Node |-> IF m = n THEN Loop ELSE NoEnd]
             /\ node[n].byEdge = [x \in {Loop} |-> n]
             /\ node[n].active = IF n \in Server THEN Remote[n] ELSE {first[n]}
  <2> DEFINE i0 == [m \in Node |-> IF m = n THEN Loop ELSE NoEnd]
             e0 == [x \in {Loop} |-> n] s == IF n \in Server THEN Remote[n] ELSE {}
             ids == IF n \in Server THEN Server \ {n} ELSE {}
             t == IF n \in Server THEN Remote[n] ELSE {first[n]}
             r == NewNode(n)
  <2>1. r = [active |-> s, edges |-> {Loop}, byId |-> i0, byEdge |-> e0, hooked |-> {},
             ids |-> ids, addrs |-> s, stopped |-> FALSE, over |-> 0]
    BY DEF NewNode
  <2>2. /\ s \subseteq Node /\ i0 = [m \in Node |-> i0[m]]
        /\ e0 = [x \in DOMAIN e0 |-> e0[x]]
    BY <1>3
  <2>3. (n \in Server /\ node[n] = r /\ s = t) \/ node[n] = [r EXCEPT !.active = t]
    BY <1>1
  <2> HIDE DEF i0, e0, s, ids, t, r
  <2>4. /\ IsNode(r) /\ r.edges = {Loop} /\ r.byId = i0 /\ r.byEdge = e0 /\ r.active = s
    <3>1. /\ r.edges = {Loop} /\ r.byId = i0 /\ r.byEdge = e0 /\ r.active = s /\ r.addrs = s
      BY <2>1
    <3>2. r = [f \in Fields |-> r[f]]
      BY <2>1 DEF Fields
    <3> QED
      BY <2>2, <3>1, <3>2 DEF IsNode
  <2>5. /\ IsNode(node[n]) /\ node[n].edges = {Loop} /\ node[n].byId = i0
        /\ node[n].byEdge = e0 /\ node[n].active = t
    <3>1. CASE node[n] = r /\ s = t
      BY <2>4, <3>1
    <3>2. CASE node[n] = [r EXCEPT !.active = t]
      BY <2>4, <3>2 DEF IsNode, Fields
    <3> QED
      BY <2>3, <3>1, <3>2
  <2> QED
    BY <2>5 DEF i0, e0, t
<1>5. Typed
  <2>1. \A c \in Node \ Server : Remote[c] # {}
    BY <1>1
  <2>2. chan = [x \in End |-> chan[x]] /\ \A x \in End : chan[x] \in Seq(Message)
    <3>1. <<>> \in Seq(Message)
      OBVIOUS
    <3> QED
      BY <1>2, <3>1
  <2>3. node = [n \in Node |-> node[n]]
    BY <1>1
  <2>4. dial \subseteq Node \X Node
    BY <1>1
  <2> QED
    BY <1>2, <1>4, <2>1, <2>2, <2>3, <2>4 DEF Typed
<1>6. Tables
  <2> SUFFICES ASSUME NEW n \in Node
               PROVE  Table(n, Start(n)) /\ Watch(n, Dialing(n), Start(n))
    BY DEF Tables
  <2> DEFINE s == Start(n)
  <2>0. /\ node[n].edges = {Loop} /\ node[n].byEdge = [x \in {Loop} |-> n]
        /\ node[n].byId = [m \in Node |-> IF m = n THEN Loop ELSE NoEnd]
        /\ node[n].active = IF n \in Server THEN Remote[n] ELSE {first[n]}
    BY <1>4
  <2>1. s.r = node[n] /\ s.gone = {} /\ s.dial = {}
    BY DEF Start, Work
  <2> HIDE DEF s
  <2>2. Table(n, s)
    <3>1. /\ DOMAIN s.r.byEdge = {Loop} /\ s.r.byEdge[Loop] = n /\ s.r.edges = {Loop}
          /\ \A m \in Node : s.r.byId[m] = IF m = n THEN Loop ELSE NoEnd
      BY <2>0, <2>1
    <3> QED
      BY <1>2, <2>1, <3>1 DEF Table
  <2>3. Dialing(n) = IF n \in Server THEN Remote[n] ELSE {first[n]}
    <3>1. ASSUME NEW b \in Dialing(n)
          PROVE  b \in IF n \in Server THEN Remote[n] ELSE {first[n]}
      <4>1. PICK d \in dial : d[1] = n /\ d[2] = b
        BY DEF Dialing
      <4> QED
        BY <1>1, <4>1
    <3>2. ASSUME NEW b \in IF n \in Server THEN Remote[n] ELSE {first[n]}
          PROVE  b \in Dialing(n)
      <4>1. b \in Node
        BY <1>1, <1>3
      <4>2. <<n, b>> \in dial /\ <<n, b>>[1] = n /\ <<n, b>>[2] = b
        BY <1>1, <4>1
      <4> QED
        BY <4>2 DEF Dialing
    <3> QED
      BY <3>1, <3>2
  <2>4. Dialed(n, s) = {} /\ Dialing(n) \subseteq Node
    BY <1>1, <1>2, <1>3, <2>3 DEF Dialed, Outbound
  <2>5. Watch(n, Dialing(n), s)
    BY <2>0, <2>1, <2>3, <2>4 DEF Watch
  <2> QED
    BY <2>2, <2>5 DEF s
<1>7. Talk
  BY <1>2 DEF Talk, Peers, Honest, Awaited, Decided
<1> QED
  BY <1>5, <1>6, <1>7 DEF IInv

LEMMA NextInv == IInv /\ [Next]_vars => IInv'
<1> SUFFICES ASSUME IInv, [Next]_vars  PROVE IInv'
  OBVIOUS
<1>1. CASE UNCHANGED vars
  BY <1>1, BreakStep DEF vars
<1>2. ASSUME NEW n \in Node, NEW a \in Node, HandleNewEdge(n, a)  PROVE IInv'
  BY <1>2, NewEdgeStep
<1>3. ASSUME NEW n \in Node, NEW a \in Node, HandleEdgeCreationFailure(n, a)  PROVE IInv'
  BY <1>3, FailureStep
<1>4. ASSUME NEW x \in End, Receive(x)  PROVE IInv'
  BY <1>4, ReceiveStep
<1>5. ASSUME NEW x \in End, HandleReset(x) \/ EdgeCheck(x)  PROVE IInv'
  BY <1>5, StopEndStep DEF HandleReset, EdgeCheck
<1>6. ASSUME NEW x \in End, CallDisconnect(x)  PROVE IInv'
  BY <1>6, CallDisconnectStep
<1>7. ASSUME NEW e \in Slot, Break(e)  PROVE IInv'
  BY <1>7, BreakStep DEF Break
<1>8. ASSUME NEW n \in Node, Stop(n)  PROVE IInv'
  BY <1>8, StopStep
<1> QED
  BY <1>1, <1>2, <1>3, <1>4, <1>5, <1>6, <1>7, <1>8 DEF Next

LEMMA Invariance == Spec => []IInv
BY InitInv, NextInv, PTL DEF Spec

\* A node's table by id and by edge is one set of connections, each on an
\* open edge of the node, and its active addresses are those it is dialing or has dialed
\* (ConnectionTable and ConnectTo of ConnectionManager): whatever handlers call each
\* other before Stop and Disconnect return.
THEOREM TablesAreConsistent == Spec => []TableConsistent
<1>1. IInv => TableConsistent
  <2> SUFFICES ASSUME IInv, NEW n \in Node
               PROVE  LET r == node[n] IN
                 /\ r.edges \ {Loop} = {x \in open : Owner(x) = n}
                 /\ \A m \in Node : r.byId[m] # NoEnd =>
                      r.byId[m] \in DOMAIN r.byEdge /\ r.byEdge[r.byId[m]] = m
                 /\ \A x \in DOMAIN r.byEdge : x \in r.edges /\ r.byId[r.byEdge[x]] = x
                 /\ ~r.stopped => ActiveAccurate(n)
    BY DEF TableConsistent
  <2> DEFINE s == Start(n)
  <2>1. s.r = node[n] /\ s.gone = {} /\ s.dial = {}
    BY DEF Start, Work
  <2> HIDE DEF s
  <2>2. Table(n, s) /\ Watch(n, Dialing(n), s)
    BY DEF IInv, Tables, s
  <2>3. Dialed(n, s) = Outbound(n)
    BY <2>1 DEF Dialed
  <2> QED
    BY <2>1, <2>2, <2>3 DEF Table, Watch, ActiveAccurate
<1> QED
  BY <1>1, Invariance, PTL

\* When nothing is under way any more, the two ends of an edge agree on
\* whether it is the connection (Inquire, Inquired, Connect and Disconnect of ConnectionManager):
\* who says Connect has it, and who is told has it or is about to lose the edge.
THEOREM TheEndsAgree == Spec => []EndsAgree
<1>1. IInv => EndsAgree
  <2> SUFFICES ASSUME IInv, AtRest, NEW n \in Node, NEW x \in DOMAIN node[n].byEdge \ {Loop}
               PROVE  Other(x) \in DOMAIN node[node[n].byEdge[x]].byEdge
    BY DEF EndsAgree
  <2>1. x \in open /\ Owner(x) = n
    <3>1. Start(n).r = node[n] /\ Start(n).gone = {}
      BY DEF Start, Work
    <3> QED
      BY <3>1 DEF IInv, Tables, Table
  <2>2. node[n].byEdge[x] = Owner(Other(x))
    BY <2>1 DEF IInv, Talk, Peers, Bound
  <2>3. Other(x) \in open /\ x.e \notin cut /\ chan[Other(x)] = <<>>
    BY <2>1 DEF AtRest
  <2>4. ~Owed(Other(x))
    BY <2>3, NoMsgs DEF Owed
  <2>5. Bound(Other(x))
    BY <2>1, <2>3, <2>4 DEF IInv, Talk, Awaited, Bound
  <2> QED
    BY <2>2, <2>5 DEF Bound
<1> QED
  BY <1>1, Invariance, PTL
=============================================================================
