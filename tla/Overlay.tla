------------------------------ MODULE Overlay ------------------------------
(***************************************************************************)
(* Overlay: broadcasts along the tree of servers and clients, and messages *)
(* forwarded to nodes without a connection, on top of RpcHandler.          *)
(* Broadcaster and Forwarder are older copies of the same code.            *)
(*                                                                         *)
(* The connections are fixed here; ConnectionManager models how they come  *)
(* and go.                                                                 *)
(***************************************************************************)
EXTENDS RpcHandler, TLC

CONSTANTS
  Server,     \* the ids of the servers
  Link,       \* {a, b}: a and b have a connection
  Late,       \* nodes that have not registered the user's method "m"
  Speaker,    \* nodes that broadcast once
  Asker,      \* <<a, b>>: a sends a request "ping" to its neighbour b
  Writer      \* <<a, b>>: a sends b a notification, wherever b is

VARIABLES
  todo,     \* broadcasts, requests and notifications not yet sent
  heard     \* heard[n][s]: how often n's method was called with s's broadcast

ovars == <<vars, todo, heard>>

Connected(n) == {m \in Node : {n, m} \in Link}
GetConnections(n) == Connected(n) \cup {n}   \* with the connection to itself
IsServer(n) == n \in Server

-----------------------------------------------------------------------------
(* A handler's work w: its rpc record r, what it sends (out), the methods  *)
(* it calls, and the connection pick that a message without a direct one   *)
(* is forwarded on: the first of a hash table.                             *)

Work(n, pick) == [r |-> rpc[n], out |-> Empty(n), call |-> {}, pick |-> pick]
Notify(n, w, m, body) ==
  [w EXCEPT !.r = IncrementId(@),
            !.out[m] = Append(@, BuildNotification(w.r.current, body.method, n) @@ body)]

ForwardingSend(n, w, m, from, to, data) ==
  Notify(n, w, m, [method |-> "RF::Data", from |-> from, to |-> to, data |-> data])

\* GetSender(to)->Send: the connection, or Forward.
SendTo(n, w, to, msg) ==
  CASE to \in GetConnections(n) -> [w EXCEPT !.out[to] = Append(@, msg)]
    [] Connected(n) = {} -> w
    [] OTHER -> ForwardingSend(n, w, w.pick, n, to, msg)

\* RpcHandler::HandleData with an answer that goes to src.
Dispatch(n, w, q, src) ==
  IF q.kind = "p" THEN [w EXCEPT !.r = HandleResponse(@, q)]
  ELSE LET h == HandleRequest(w.r, q)
           v == [w EXCEPT !.r = h.r, !.call = @ \cup h.call]
       IN IF h.reply = <<>> THEN v ELSE SendTo(n, v, src, h.reply[1])

Relays(n, source, forwarder) ==
  IF IsServer(forwarder) THEN Connected(n) \ Server
  ELSE Connected(n) \ {source, forwarder}

NotOwnClients(n, w, q, forwarder) ==   \* mutant: what servers send is not relayed
  LET v == Dispatch(n, w, BuildNotification(q.id, q.inner, q.source), q.source)
      send(u, m) == Notify(n, u, m, [method |-> "CS::Broadcast",
                                     source |-> q.source, inner |-> q.inner])
  IN IF n = q.source \/ ~IsServer(n) \/ IsServer(forwarder) THEN v
     ELSE FoldLeft(send, v, SetToSeq(Relays(n, q.source, forwarder)))
\* The method is called with the id that the last hop has given, and its
\* answer goes to the source.
BroadcastHelper(n, w, q, forwarder) ==
  LET inner == BuildNotification(q.id, q.inner, q.source)
      v == Dispatch(n, w, inner, q.source)
      send(u, m) == Notify(n, u, m, [method |-> "CS::Broadcast",
                                     source |-> q.source, inner |-> q.inner])
  IN IF n = q.source \/ ~IsServer(n) THEN v
     ELSE FoldLeft(send, v, SetToSeq(Relays(n, q.source, forwarder)))

ForwardedData(n, w, q) ==
  CASE q.to = n -> Dispatch(n, w, q.data, q.from)
    [] q.to \in Connected(n) -> ForwardingSend(n, w, q.to, q.from, q.to, q.data)
    [] OTHER -> w

Handle(n, w, q, from) ==
  CASE q.kind = "n" /\ q.method = "CS::Broadcast" -> BroadcastHelper(n, w, q, from)
    [] q.kind = "n" /\ q.method = "RF::Data" -> ForwardedData(n, w, q)
    [] OTHER -> Dispatch(n, w, q, from)

-----------------------------------------------------------------------------
(* Actions *)

Pick(n) == IF Connected(n) = {} THEN {n} ELSE Connected(n)
Done(n, w, ch) ==
  /\ rpc' = [rpc EXCEPT ![n] = w.r]
  /\ chan' = [ch EXCEPT ![n] = [m \in Node |-> @[m] \o w.out[m]]]
  /\ UNCHANGED <<wanted, lost>>

Broadcast(n) ==
  /\ <<"broadcast", n>> \in todo /\ todo' = todo \ {<<"broadcast", n>>}
  /\ LET send(w, m) == Notify(n, w, m, [method |-> "CS::Broadcast",
                                        source |-> n, inner |-> "m"])
     IN Done(n, FoldLeft(send, Work(n, n), SetToSeq(GetConnections(n))), chan)
  /\ UNCHANGED <<held, heard>>

CallPing(n, m) ==
  /\ <<"ask", n, m>> \in todo /\ todo' = todo \ {<<"ask", n, m>>}
  /\ LET s == SendRequest(n, rpc[n], "ping", TRUE)
     IN Done(n, [Work(n, n) EXCEPT !.r = s.r, !.out[m] = <<s.msg>>], chan)
  /\ UNCHANGED <<held, heard>>

Write(n, m) ==
  /\ <<"write", n, m>> \in todo /\ todo' = todo \ {<<"write", n, m>>}
  /\ LET s == SendNotification(n, rpc[n], "m")
     IN \E p \in Pick(n) : Done(n, SendTo(n, [Work(n, p) EXCEPT !.r = s.r], m, s.msg), chan)
  /\ UNCHANGED <<held, heard>>

\* A call of "m" is counted for the node it came from; "ping" is answered.
Receive(n, m) ==
  /\ chan[m][n] # <<>>
  /\ \E p \in Pick(n) :
       LET w == Handle(n, Work(n, p), Head(chan[m][n]), m)
           pings == {q \in w.call : q.method = "ping"}
           v == IF pings = {} THEN w
                ELSE [w EXCEPT !.out[m] = Append(@, Build(CHOOSE q \in pings : TRUE, "ok"))]
       IN /\ Done(n, v, [chan EXCEPT ![m][n] = Tail(@)])
          /\ heard' = [heard EXCEPT ![n] = [s \in Node |->
               @[s] + Cardinality({q \in w.call : q.method = "m" /\ q.who = s})]]
  /\ UNCHANGED <<held, todo>>

OverlayTimeout(n, id) == Timeout(n, id) /\ UNCHANGED <<todo, heard>>

OverlayInit ==
  /\ rpc = [n \in Node |-> [NewHandler(n) EXCEPT
               !.callbacks["m"] = IF n \in Late THEN Absent ELSE "handler"]]
  /\ held = [n \in Node |-> {}] /\ wanted = [n \in Node |-> Initial]
  /\ chan = [n \in Node |-> Empty(n)] /\ lost = 0
  /\ todo = {<<"broadcast", n>> : n \in Speaker} \cup {<<"ask", a[1], a[2]>> : a \in Asker}
            \cup {<<"write", a[1], a[2]>> : a \in Writer}
  /\ heard = [n \in Node |-> [s \in Node |-> 0]]

OverlayNext ==
  \/ \E n \in Node : Broadcast(n) \/ \E id \in 1..MaxId : OverlayTimeout(n, id)
  \/ \E n, m \in Node : CallPing(n, m) \/ Write(n, m) \/ Receive(n, m)

\* What connections and callers do by themselves.
Progress == \E n, m \in Node : Broadcast(n) \/ CallPing(n, m) \/ Write(n, m) \/ Receive(n, m)

-----------------------------------------------------------------------------
(* Properties *)

\* What n is to hear of s: a broadcast once, the own included, and a message to n.
Expected(n, s) == (IF s \in Speaker /\ n \notin Late THEN 1 ELSE 0)
                  + (IF <<s, n>> \in Writer THEN 1 ELSE 0)
AllHeard == \A n, s \in Node : heard[n][s] = Expected(n, s)

\* Every node hears every broadcast and every message to it, exactly once: the
\* relays (BroadcastHelper, Forward) form a tree.
HeardOnce == <>[]AllHeard
=============================================================================
