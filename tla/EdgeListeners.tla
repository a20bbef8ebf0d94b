--------------------------- MODULE EdgeListeners ---------------------------
(***************************************************************************)
(* The listeners that make edges: TcpEdgeListener with a socket for every  *)
(* attempt that is under way, BufferEdgeListener with a timer, the         *)
(* addresses they stand for and the EdgeFactory that picks one by the type *)
(* of the address.                                                         *)
(***************************************************************************)
EXTENDS Integers, Sequences

CONSTANTS
  Listener,   \* the listeners of all nodes
  Wanted,     \* the url given to each of them; port or id 0 is any
  Target,     \* the urls that are dialed
  Attempt,    \* bound: the calls of CreateEdgeTo
  FreeId      \* bound: the ports and ids that any may become

VARIABLES
  _local_address,   \* the address of a listener
  life,             \* "new", "started", "stopped"
  _valid,           \* BufferEdgeListener: whether it is in _el_map
  _el_map,          \* BufferEdgeListener: id -> listener
  calls,            \* attempt -> what it waits for
  reports           \* attempt -> what was emitted for it

vars == <<_local_address, life, _valid, _el_map, calls, reports>>

\* AddressFactory: the constructor for the scheme of the url.  A port may be out
\* of range; the address says so and is never equal to one that is not.
TcpAddress(url) == [type |-> "tcp", id |-> url.id, valid |-> url.id \in 0..65535]
BufferAddress(url) == [type |-> "buffer", id |-> url.id, valid |-> TRUE]
CreateAddress(url) == IF url.type = "tcp" THEN TcpAddress(url) ELSE BufferAddress(url)

\* EdgeListenerFactory: the kind of listener goes by the type of the address.
Type(l) == CreateAddress(Wanted[l]).type
Idle == [at |-> "idle"]

\* _outstanding_sockets of a TCP listener, and the timers of the other kind.
Outstanding(l) == {a \in Attempt : calls[a].at = "dialing" /\ calls[a].by = l}

\* _server.listen: a port that is taken is fatal, port 0 becomes a free one.
Bound(l) == {_local_address[k].id : k \in {j \in Listener : life[j] = "started" /\ Type(j) = Type(l)}}

\* ProcessNewEdge and ProcessEdgeCreationFailure.
NewEdge(a) == reports' = [reports EXCEPT ![a] = Append(@, "edge")]
Fails(as) == reports' = [a \in Attempt |-> IF a \in as THEN Append(reports[a], "failed") ELSE reports[a]]

-----------------------------------------------------------------------------
(* StartStop *)

TcpOnStart(l) ==
  /\ Type(l) = "tcp" /\ life[l] = "new"
  /\ \E p \in IF Wanted[l].id = 0 THEN FreeId \ Bound(l) ELSE {Wanted[l].id} \ Bound(l) :
       _local_address' = [_local_address EXCEPT ![l].id = p]
  /\ life' = [life EXCEPT ![l] = "started"]
  /\ UNCHANGED <<_valid, _el_map, calls, reports>>

BufferOnStart(l) ==
  /\ Type(l) = "buffer" /\ life[l] = "new"
  /\ \E id \in IF Wanted[l].id = 0 THEN FreeId \ DOMAIN _el_map ELSE {Wanted[l].id} :
       /\ _local_address' = [_local_address EXCEPT ![l].id = id]
       /\ \/ /\ id \in DOMAIN _el_map
             /\ UNCHANGED <<_valid, _el_map>>
          \/ /\ id \notin DOMAIN _el_map
             /\ _valid' = _valid \cup {l}
             /\ _el_map' = [i \in DOMAIN _el_map \cup {id} |-> IF i = id THEN l ELSE _el_map[i]]
  /\ life' = [life EXCEPT ![l] = "started"]
  /\ UNCHANGED <<calls, reports>>

\* The mutant: the sockets are forgotten.
ForgetsSockets(l) ==
  /\ Type(l) = "tcp" /\ life[l] # "stopped"
  /\ life' = [life EXCEPT ![l] = "stopped"]
  /\ calls' = [a \in Attempt |-> IF a \in Outstanding(l) THEN Idle ELSE calls[a]]
  /\ UNCHANGED <<_local_address, _valid, _el_map, reports>>

\* OnStop of a TCP listener gives up all sockets under way.
TcpOnStop(l) ==
  /\ Type(l) = "tcp" /\ life[l] # "stopped"
  /\ life' = [life EXCEPT ![l] = "stopped"]
  /\ calls' = [a \in Attempt |-> IF a \in Outstanding(l) THEN Idle ELSE calls[a]]
  /\ Fails(Outstanding(l))
  /\ UNCHANGED <<_local_address, _valid, _el_map>>

\* OnStop of a buffer listener: the entry goes, the timers stay.
BufferOnStop(l) ==
  /\ Type(l) = "buffer" /\ life[l] # "stopped"
  /\ life' = [life EXCEPT ![l] = "stopped"]
  /\ _el_map' = IF l \in _valid
                THEN [i \in DOMAIN _el_map \ {_local_address[l].id} |-> _el_map[i]] ELSE _el_map
  /\ UNCHANGED <<_local_address, _valid, calls, reports>>

-----------------------------------------------------------------------------
(* Making edges *)

\* EdgeFactory::CreateEdgeTo gives the address to the listener of its type, a
\* listener that is not started or has stopped does nothing.
CreateEdgeTo(l, a, to) ==
  /\ calls[a] = Idle /\ reports[a] = <<>>
  /\ Type(l) = CreateAddress(to).type /\ life[l] = "started"
  /\ calls' = [calls EXCEPT ![a] = [at |-> "dialing", by |-> l, to |-> CreateAddress(to)]]
  /\ UNCHANGED <<_local_address, life, _valid, _el_map, reports>>

\* A listener that accepts connections at an address.
Answers(to) == \E k \in Listener : life[k] = "started" /\ _local_address[k] = to

\* The socket is connected: its signals now belong to the edge.
HandleConnect(a) ==
  /\ calls[a].at = "dialing" /\ Type(calls[a].by) = "tcp"
  /\ Answers(calls[a].to)
  /\ calls' = [calls EXCEPT ![a] = Idle]
  /\ NewEdge(a)
  /\ UNCHANGED <<_local_address, life, _valid, _el_map>>

\* HandleError and HandleDisconnect: whichever signal comes first takes the
\* socket out; the one that follows finds nothing.
HandleSocketClose(a) ==
  /\ calls[a].at = "dialing" /\ Type(calls[a].by) = "tcp"
  /\ calls' = [calls EXCEPT ![a] = Idle]
  /\ Fails({a})
  /\ UNCHANGED <<_local_address, life, _valid, _el_map>>

\* The timer of a buffer listener, also after it has stopped.
CreateEdgeCallback(a) ==
  /\ calls[a].at = "dialing" /\ Type(calls[a].by) = "buffer"
  /\ calls' = [calls EXCEPT ![a] = Idle]
  /\ IF calls[a].to.id \in DOMAIN _el_map THEN NewEdge(a) ELSE Fails({a})
  /\ UNCHANGED <<_local_address, life, _valid, _el_map>>

Init ==
  /\ _local_address = [l \in Listener |-> CreateAddress(Wanted[l])]
  /\ life = [l \in Listener |-> "new"]
  /\ _valid = {}
  /\ _el_map = [i \in {} |-> 0]
  /\ calls = [a \in Attempt |-> Idle]
  /\ reports = [a \in Attempt |-> <<>>]

Answer == \E a \in Attempt : HandleConnect(a) \/ HandleSocketClose(a) \/ CreateEdgeCallback(a)
Next ==
  \/ \E l \in Listener : TcpOnStart(l) \/ BufferOnStart(l) \/ TcpOnStop(l) \/ BufferOnStop(l)
  \/ \E l \in Listener, a \in Attempt, to \in Target : CreateEdgeTo(l, a, to)
  \/ Answer

Spec == Init /\ [][Next]_vars

-----------------------------------------------------------------------------
(* Properties *)

\* The map of buffer listeners holds started ones under their own ids, so that
\* no edge is made to a listener that has stopped (OnStart, OnStop).
MapIsLive ==
  \A i \in DOMAIN _el_map : life[_el_map[i]] = "started" /\ _local_address[_el_map[i]].id = i

\* An attempt is reported at most once, and not while it is under way; the
\* ConnectionManager counts on it (_active_addrs).
ReportedOnce ==
  \A a \in Attempt : Len(reports[a]) <= 1 /\ (calls[a] # Idle => reports[a] = <<>>)

\* An attempt that is under way is reported in the end.
Reported(a) == calls[a] = Idle /\ reports[a] # <<>>
=============================================================================
