-------------------------- MODULE ConnectionManager --------------------------
(***************************************************************************)
(* ConnectionManager, ConnectionTable and the connection acquirers at      *)
(* every node, over TCP edges that may break.                              *)
(*                                                                         *)
(* A node dials addresses.  Over a new edge the two ends tell each other   *)
(* their ids, and the node with the smaller id decides whether the edge    *)
(* becomes the connection.  Closing an edge (Stop, abort) runs every slot  *)
(* of StoppedSignal before it returns, so a handler is one step.  What the *)
(* closing end still had to send may be lost.                              *)
(*                                                                         *)
(* The address of a node is its id.  An edge has an end at the node that   *)
(* dialed (out) and one at the node that accepted.                         *)
(***************************************************************************)
EXTENDS Naturals, Sequences

CONSTANTS
  Node,       \* ids, which are compared
  Server,     \* the ids of the servers
  Remote,     \* Remote[n]: the addresses n is told to dial
  Slot,       \* bound: edges that exist at a time
  MaxBreak,   \* bound: edges that break or are disconnected
  MaxRefuse,  \* bound: dials that fail
  MayBreak,   \* "bound": only an edge both ends have bound breaks; "any"
  MayStop     \* nodes that may be stopped

\* Ids are numbers other than Id::Zero; a node dials nodes.
ASSUME IdAssumption ==
  Node \subseteq Nat \ {0} /\ Server \subseteq Node /\ Remote \in [Node -> SUBSET Node]
ASSUME SlotAssumption == 0 \notin Slot

VARIABLES
  node,      \* node[n]: the manager, its table and the acquirer
  edge,      \* edge[e]: who dialed whom
  open,      \* the ends that are not stopped
  cut,       \* edges that no longer carry anything, silently
  chan,      \* chan[x]: what is on its way to end x
  dial,      \* <<n, a>>: n has a socket that is connecting to a
  broken, refused   \* counters

vars == <<node, edge, open, cut, chan, dial, broken, refused>>

End == [e : Slot, out : BOOLEAN]
Ends(e) == {[e |-> e, out |-> TRUE], [e |-> e, out |-> FALSE]}
Other(x) == [x EXCEPT !.out = ~x.out]
Owner(x) == IF x.out THEN edge[x.e].from ELSE edge[x.e].to
\* The NullConnection of a node to itself, in every table from the start.
Loop == [e |-> 0, out |-> TRUE]
NoEnd == [e |-> 0, out |-> FALSE]
NoAddress == 0
\* An accepted edge comes from a port that nobody listens on.
GetRemoteAddress(x) == IF x.out /\ x # Loop THEN edge[x.e].to ELSE NoAddress

-----------------------------------------------------------------------------
(* A handler takes and returns w: the node's record r, the messages out by *)
(* end, the ends it has stopped, the addresses it dials, and the address   *)
(* that a client's random choice falls on.                                 *)

Work(n, pick) == [r |-> node[n], out |-> [x \in End |-> <<>>], gone |-> {},
                  dial |-> {}, pick |-> pick]
Send(w, x, type, id) ==
  [w EXCEPT !.out[Other(x)] = Append(@, [type |-> type, id |-> id])]

ConnectTo(w, a) ==
  IF w.r.stopped \/ a \in w.r.active THEN w
  ELSE [w EXCEPT !.r.active = @ \cup {a}, !.dial = @ \cup {a}]

-----------------------------------------------------------------------------
(* The acquirers *)

Connected(r, id) == r.byId[id] # NoEnd
AttemptConnection(w) ==
  IF \E s \in Server : Connected(w.r, s) THEN w ELSE ConnectTo(w, w.pick)

HandleConnectionAttemptFailure(n, w, a) ==
  IF w.r.stopped THEN w
  ELSE IF n \in Server
  THEN IF a \notin w.r.addrs THEN w
       ELSE IF w.r.ids = {} THEN [w EXCEPT !.r.addrs = @ \ {a}]
       ELSE ConnectTo(w, a)
  ELSE IF a \in Remote[n] THEN AttemptConnection(w) ELSE w

HandleConnection(n, w, x, id) ==
  IF w.r.stopped THEN w
  ELSE IF n \in Server
  THEN IF id \notin w.r.ids THEN w
       ELSE LET ids == w.r.ids \ {id}
                addrs == IF ids = {} THEN {} ELSE w.r.addrs \ {id}
                hooked == w.r.hooked \cup {x}
            IN [w EXCEPT !.r = [@ EXCEPT !.ids = ids, !.addrs = addrs, !.hooked = hooked]]
  ELSE IF id \in Server THEN [w EXCEPT !.r.hooked = @ \cup {x}]
       ELSE AttemptConnection(w)

\* The server is one to dial again.
Lost(w, id) ==
  LET r == w.r
  IN [w EXCEPT !.r = [r EXCEPT !.ids = @ \cup {id}, !.addrs = @ \cup {id}]]
NoRedial(n, w, id) ==   \* mutant: the lost server is not dialed again
  IF w.r.stopped THEN w
  ELSE IF n \in Server
  THEN Lost(w, id)
  ELSE AttemptConnection(w)
HandleDisconnection(n, w, id) ==
  IF w.r.stopped THEN w
  ELSE IF n \in Server
  THEN ConnectTo(Lost(w, id), id)
  ELSE AttemptConnection(w)

-----------------------------------------------------------------------------
(* Edges that close.  The slots of StoppedSignal run in the order they     *)
(* were connected: HandleEdgeClose of the manager, then the connection's   *)
(* Disconnected with RemoveConnection and the acquirer.                    *)

RemoveEdge(w, x) ==
  LET r == [w.r EXCEPT !.active = @ \ {GetRemoteAddress(x)}, !.edges = @ \ {x}]
  IN [w EXCEPT !.gone = @ \cup {x}, !.r = r]
SignalDisconnected(w) ==
  IF w.r.stopped /\ w.r.edges = {} THEN [w EXCEPT !.r.over = @ + 1] ELSE w

RemoveConnection(w, x) ==
  LET r == w.r
  IN [w EXCEPT !.r = [r EXCEPT
        !.byId = [i \in DOMAIN @ |-> IF @[i] = x THEN NoEnd ELSE @[i]],
        !.byEdge = [y \in DOMAIN @ \ {x} |-> @[y]],
        !.hooked = @ \ {x}]]
HandleDisconnected(n, w, x) ==
  IF x \notin DOMAIN w.r.byEdge THEN w
  ELSE LET id == w.r.byEdge[x]
           v == RemoveConnection(w, x)
       IN IF x \in w.r.hooked THEN HandleDisconnection(n, v, id) ELSE v

\* The edge of a connection that is no longer in the table by id.
StopBound(n, w, x) ==
  HandleDisconnected(n, SignalDisconnected(RemoveEdge(w, x)), x)

\* ConnectionTable::Disconnect
TableDisconnect(w, x) ==
  LET id == w.r.byEdge[x]
  IN IF w.r.byId[id] = x THEN [w EXCEPT !.r.byId[id] = NoEnd] ELSE w

\* Connection::Disconnect
HandleDisconnect(n, w, x) ==
  LET v == TableDisconnect(w, x)
  IN IF x \in w.gone THEN v
     ELSE StopBound(n, IF x = Loop THEN v ELSE Send(v, x, "Disconnect", 0), x)

\* Edge::Stop.  Whatever connection the id has now is disconnected.
HandleEdgeClose(n, w, x) ==
  LET v == RemoveEdge(w, x)
      now == IF x \in DOMAIN v.r.byEdge THEN v.r.byId[v.r.byEdge[x]] ELSE NoEnd
      u == IF now # NoEnd THEN HandleDisconnect(n, v, now) ELSE v
  IN HandleDisconnected(n, SignalDisconnected(u), x)

-----------------------------------------------------------------------------
(* The exchange over a new edge *)

CreateConnection(n, w, x, id) ==
  LET r == w.r
  IN HandleConnection(n,
       [w EXCEPT !.r = [r EXCEPT
          !.byId[id] = x,
          !.byEdge = [y \in DOMAIN @ \cup {x} |-> IF y = x THEN id ELSE @[y]]]], x, id)

SaysNothing(n, w, x, id) ==   \* mutant: the other end is not told
  IF Connected(w.r, id) THEN HandleEdgeClose(n, w, x)
  ELSE CreateConnection(n, w, x, id)
BindEdge(n, w, x, id) ==
  IF Connected(w.r, id)
  THEN HandleConnectionAttemptFailure(n,
         HandleEdgeClose(n, Send(w, x, "Close", 0), x), GetRemoteAddress(x))
  ELSE CreateConnection(n, Send(w, x, "Connect", n), x, id)

Inquire(n, w, x, id) ==
  LET v == Send(w, x, "Inquired", n)
  IN CASE n < id -> BindEdge(n, v, x, id)
       [] n = id -> HandleEdgeClose(n, v, x)
       [] OTHER -> v

Inquired(n, w, x, id) ==
  CASE n < id -> BindEdge(n, w, x, id)
    [] n = id -> HandleConnectionAttemptFailure(n, HandleEdgeClose(n, w, x),
                                                GetRemoteAddress(x))
    [] OTHER -> w

KeepsOld(n, w, x, id) ==   \* mutant: the old connection is not closed
  IF n < id THEN w ELSE CreateConnection(n, w, x, id)
Connect(n, w, x, id) ==
  IF n < id THEN w
  ELSE CreateConnection(n, IF Connected(w.r, id)
                           THEN HandleDisconnect(n, w, w.r.byId[id]) ELSE w, x, id)

Disconnect(n, w, x) == HandleEdgeClose(n, TableDisconnect(w, x), x)

\* A message comes from the edge until the edge has a connection.
Handle(n, w, x, m) ==
  LET bound == x \in DOMAIN w.r.byEdge
  IN CASE m.type = "Inquire" /\ ~bound -> Inquire(n, w, x, m.id)
       [] m.type = "Inquired" /\ ~bound -> Inquired(n, w, x, m.id)
       [] m.type = "Connect" /\ ~bound -> Connect(n, w, x, m.id)
       [] m.type = "Close" /\ ~bound -> HandleEdgeClose(n, w, x)
       [] m.type = "Disconnect" /\ bound -> Disconnect(n, w, x)
       [] OTHER -> w

-----------------------------------------------------------------------------
(* Actions *)

Done(n, w) ==
  /\ node' = [node EXCEPT ![n] = w.r]
  /\ open' = open \ w.gone
  /\ dial' = dial \cup {<<n, a>> : a \in w.dial}
Deliver(ch, w) ==
  [x \in End |-> IF x \in w.gone THEN <<>>
                 ELSE IF x \in open /\ x.e \notin cut THEN ch[x] \o w.out[x]
                 ELSE ch[x]]

\* What the client's random choice may be.
Pick(n) == IF n \in Server \/ Remote[n] = {} THEN {NoAddress} ELSE Remote[n]

\* The socket connects: the node that dialed asks, the other adds an edge.
HandleNewEdge(n, a) ==
  /\ <<n, a>> \in dial /\ ~node[a].stopped
  /\ \E e \in Slot :
       LET x == [e |-> e, out |-> TRUE]
       IN /\ Ends(e) \cap open = {} /\ \A f \in Slot : f < e => Ends(f) \cap open # {}
          /\ edge' = [edge EXCEPT ![e] = [from |-> n, to |-> a]]
          /\ open' = open \cup Ends(e)
          /\ cut' = cut \ {e}
          /\ chan' = [chan EXCEPT ![x] = <<>>,
                                  ![Other(x)] = <<[type |-> "Inquire", id |-> n]>>]
          /\ node' = [m \in Node |->
               [node[m] EXCEPT !.edges = @ \cup {y \in Ends(e) :
                                   m = (IF y.out THEN n ELSE a)}]]
  /\ dial' = dial \ {<<n, a>>}
  /\ UNCHANGED <<broken, refused>>

HandleEdgeCreationFailure(n, a) ==
  /\ <<n, a>> \in dial
  /\ node[a].stopped \/ refused < MaxRefuse
  /\ refused' = IF node[a].stopped THEN refused ELSE refused + 1
  /\ \E p \in Pick(n) :
       LET w == HandleConnectionAttemptFailure(n,
                  [Work(n, p) EXCEPT !.r.active = @ \ {a}], a)
       IN /\ node' = [node EXCEPT ![n] = w.r]
          /\ dial' = (dial \ {<<n, a>>}) \cup {<<n, b>> : b \in w.dial}
  /\ UNCHANGED <<edge, open, cut, chan, broken>>

Receive(x) ==
  /\ x \in open /\ x.e \notin cut /\ chan[x] # <<>>
  /\ \E p \in Pick(Owner(x)) :
       LET w == Handle(Owner(x), Work(Owner(x), p), x, Head(chan[x]))
       IN Done(Owner(x), w) /\ chan' = Deliver([chan EXCEPT ![x] = Tail(@)], w)
  /\ UNCHANGED <<edge, cut, broken, refused>>

StopEnd(x) ==
  /\ \E p \in Pick(Owner(x)) :
       LET w == HandleEdgeClose(Owner(x), Work(Owner(x), p), x)
       IN Done(Owner(x), w) /\ chan' = Deliver(chan, w)
  /\ UNCHANGED <<edge, cut, broken, refused>>

\* TCP tells that the other end is gone; what was under way is lost.
HandleReset(x) == x \in open /\ Other(x) \notin open /\ StopEnd(x)
\* Nothing came for a minute: pings were not answered.
EdgeCheck(x) == x \in open /\ x.e \in cut /\ StopEnd(x)

Bound(x) == x \in DOMAIN node[Owner(x)].byEdge
Breakable(e) == /\ broken < MaxBreak
                /\ MayBreak = "bound" => \A x \in Ends(e) : x \in open /\ Bound(x)
Break(e) ==
  /\ Ends(e) \subseteq open /\ e \notin cut /\ Breakable(e)
  /\ cut' = cut \cup {e} /\ broken' = broken + 1
  /\ UNCHANGED <<node, edge, open, chan, dial, refused>>

\* A caller disconnects a connection.
CallDisconnect(x) ==
  /\ x \in open /\ Bound(x) /\ Breakable(x.e) /\ broken' = broken + 1
  /\ \E p \in Pick(Owner(x)) :
       LET w == HandleDisconnect(Owner(x), Work(Owner(x), p), x)
       IN Done(Owner(x), w) /\ chan' = Deliver(chan, w)
  /\ UNCHANGED <<edge, cut, refused>>

\* Overlay::OnStop stops the acquirers, then the manager its connections,
\* the edges that are left and the listeners with their sockets.  As nobody
\* dials any more, the order in which it closes them makes no difference.
GetConnections(r) == {r.byId[m] : m \in Node} \ {NoEnd}
OnStop(n) ==
  LET r == node[n]
      told == {Other(x) : x \in GetConnections(r) \ {Loop}}
  IN [Work(n, NoAddress) EXCEPT
        !.gone = r.edges,
        !.out = [x \in End |-> IF x \in told THEN <<[type |-> "Disconnect", id |-> 0]>>
                               ELSE <<>>],
        !.r = [r EXCEPT !.stopped = TRUE, !.active = {}, !.edges = {},
                        !.byId = [m \in Node |-> NoEnd], !.byEdge = [x \in {} |-> 0],
                        !.hooked = {}, !.over = @ + 1]]
Stop(n) ==
  /\ n \in MayStop /\ ~node[n].stopped
  /\ LET w == OnStop(n)
     IN /\ node' = [node EXCEPT ![n] = w.r]
        /\ open' = open \ w.gone
        /\ chan' = Deliver(chan, w)
        /\ dial' = {d \in dial : d[1] # n}
  /\ UNCHANGED <<edge, cut, broken, refused>>

\* The acquirers have started.
NewNode(n) ==
  [active |-> IF n \in Server THEN Remote[n] ELSE {}, edges |-> {Loop},
   byId |-> [m \in Node |-> IF m = n THEN Loop ELSE NoEnd],
   byEdge |-> [x \in {Loop} |-> n], hooked |-> {},
   ids |-> IF n \in Server THEN Server \ {n} ELSE {},
   addrs |-> IF n \in Server THEN Remote[n] ELSE {},
   stopped |-> FALSE, over |-> 0]

Init ==
  /\ edge = [e \in Slot |-> [from |-> NoAddress, to |-> NoAddress]]
  /\ open = {} /\ cut = {} /\ chan = [x \in End |-> <<>>]
  /\ broken = 0 /\ refused = 0
  /\ \E first \in [Node \ Server -> Node] :
       /\ \A c \in Node \ Server : first[c] \in Remote[c]
       /\ dial = {d \in Node \X Node :
                    IF d[1] \in Server THEN d[2] \in Remote[d[1]] ELSE d[2] = first[d[1]]}
       /\ node = [n \in Node |-> IF n \in Server THEN NewNode(n)
                                 ELSE [NewNode(n) EXCEPT !.active = {first[n]}]]

Next ==
  \/ \E n, a \in Node : HandleNewEdge(n, a) \/ HandleEdgeCreationFailure(n, a)
  \/ \E x \in End : Receive(x) \/ HandleReset(x) \/ EdgeCheck(x) \/ CallDisconnect(x)
  \/ \E e \in Slot : Break(e)
  \/ \E n \in Node : Stop(n)

Spec == Init /\ [][Next]_vars

\* Sockets connect or fail, edges carry what is sent, closed and silent ends
\* are noticed: something of this happens as long as it can.
Progress ==
  \/ \E n, a \in Node : HandleNewEdge(n, a) \/ HandleEdgeCreationFailure(n, a)
  \/ \E x \in End : Receive(x) \/ HandleReset(x) \/ EdgeCheck(x)

-----------------------------------------------------------------------------
(* Properties *)

\* A node watches every address it is connecting to or connected to by an
\* edge it dialed, each once: otherwise ConnectTo would refuse to dial again, or
\* dial twice.
Dialing(n) == {d[2] : d \in {d \in dial : d[1] = n}}
Outbound(n) == {x \in open : x.out /\ Owner(x) = n}
ActiveAccurate(n) ==
  /\ node[n].active = Dialing(n) \cup {edge[x.e].to : x \in Outbound(n)}
  /\ \A x \in Outbound(n) :
       /\ edge[x.e].to \notin Dialing(n)
       /\ \A y \in Outbound(n) : edge[x.e].to = edge[y.e].to => x = y

\* The table of a node by id and by edge is one set of connections, each on
\* an edge of the node that is open, and as long as it runs its active
\* addresses are accurate (ConnectionTable, through every nested call of Stop and
\* Disconnect): no connection is unreachable by its id, none is left under an id
\* when its edge is closed, and an address that was lost can be dialed again.
TableConsistent ==
  \A n \in Node : LET r == node[n] IN
    /\ r.edges \ {Loop} = {x \in open : Owner(x) = n}
    /\ \A m \in Node : r.byId[m] # NoEnd =>
         r.byId[m] \in DOMAIN r.byEdge /\ r.byEdge[r.byId[m]] = m
    /\ \A x \in DOMAIN r.byEdge : x \in r.edges /\ r.byId[r.byEdge[x]] = x
    /\ ~r.stopped => ActiveAccurate(n)

\* When nothing is under way any more, two nodes that both run have the same
\* edge as their connection, or neither has one (the smaller id decides).
AtRest == /\ \A x \in open : chan[x] = <<>> /\ Other(x) \in open /\ x.e \notin cut
          /\ dial = {}
EndsAgree ==
  AtRest => \A n \in Node : \A x \in DOMAIN node[n].byEdge \ {Loop} :
              Other(x) \in DOMAIN node[node[n].byEdge[x]].byEdge

Linked(n, m) == \E x \in open : /\ node[n].byId[m] = x /\ node[m].byId[n] = Other(x)
                                /\ x.e \notin cut

\* Servers end up connected, whoever dialed, and again after each edge they
\* had bound is lost (ServerConnectionAcquirer).
AllLinked == \A n, m \in Server : n < m => Linked(n, m)
\* A client ends up connected to a server, and again after a loss
\* (ClientConnectionAcquirer).
ClientLinked == \A c \in Node \ Server : \E s \in Server : Linked(c, s)
=============================================================================
