--------------------------- MODULE ClientSession ---------------------------
(***************************************************************************)
(* ClientSession: how a client follows the rounds its servers form.        *)
(*                                                                         *)
(*   Offline -> WaitingForServer -> Queuing -> Registering                 *)
(*     -> Communicating -> WaitingForServer                                *)
(*                                                                         *)
(* One client, and of each server the part it shows to clients: it offers  *)
(* a RoundId with ServerQueued, takes ClientRegisters until its timer      *)
(* ends, and sends ServerStart when all servers have signed the same list. *)
(* The servers' own protocol is ServerSession; here attempts are numbered. *)
(***************************************************************************)
EXTENDS Naturals, Sequences, FiniteSets, SequencesExt

CONSTANTS
  Server,      \* the servers; Ids are numbers
  MaxAttempt,  \* bound: attempts of the servers
  MaxBreak,    \* bound: edges of the client that break
  MaxStop,     \* bound: ServerStops the servers broadcast
  Prompt       \* the client answers before a server's registration timer ends

ASSUME ServerAssumption == IsFiniteSet(Server) /\ Server \subseteq Nat \ {0}
ASSUME AttemptAssumption == MaxAttempt \in Nat

VARIABLES
  c,       \* the client: its state, RoundId, ephemeral key, m_server and m_round
  storage, \* StateMachine::m_storage
  todo,    \* what is left of the client's turn
  last,    \* m_last
  conn,    \* the servers in the client's connection table
  srv,     \* srv[s]: state, attempt, the key the client registered here
  table,   \* the servers that have the client in their table
  up,      \* up[s]: ClientRegisters on their way to s
  down,    \* down[s]: what is on its way from s
  edge,    \* the servers joined with the client by a working edge
  attempt, \* the last attempt
  roster,  \* roster[a]: the client's key in the list all servers signed, or None
  breaks,
  halted,  \* the ServerStops that were broadcast
  order,   \* Overlay::m_server_ids: the servers as the configuration lists them
  offered  \* history: the attempts the client was offered

client == <<c, storage, todo, last>>
servers == <<srv, attempt, roster, halted, offered>>
vars == <<client, servers, conn, table, up, down, edge, breaks, order>>

None == 0
Attempt == 1..MaxAttempt
\* The nonce of an attempt's ServerInit, which a stop names before there is a RoundId.
Nonce(a) == MaxAttempt + a

\* A VerifyMap is ordered by Id, whatever the configuration says.
Signatures ==
  [i \in 1..Cardinality(Server) |->
     CHOOSE s \in Server : Cardinality({t \in Server : t < s}) = i - 1]

ServerQueued(a, s) == [type |-> "ServerQueued", rid |-> a, from |-> s]
ServerStart(a, k) == [type |-> "ServerStart", rid |-> a, key |-> k, sigs |-> Signatures]
\* n numbers the stops: no two are equal, since the reason names who is lost.
ServerStop(r, n) == [type |-> "ServerStop", rid |-> r, n |-> n]
SessionData(a) == [type |-> "SessionData", rid |-> a]
ClientRegister(a, k) == [rid |-> a, key |-> k]

-----------------------------------------------------------------------------
(* The state machine of the client *)

\* SetNewState: the stored messages are replayed in the new state.
Goto(d, rest) ==
  /\ c' = d
  /\ todo' = storage \o rest
  /\ storage' = <<>>

\* WaitingForServerState::Init and CheckServer: on to Queuing if there is a server.
Waiting(d, cn, rest) ==
  IF cn = {} THEN Goto([d EXCEPT !.st = "WaitingForServer"], rest)
  ELSE \E s \in cn : Goto([d EXCEPT !.st = "Queuing", !.server = s], rest)

Idle == todo = <<>>
Msg == Head(todo)
Processing(states, type) == todo # <<>> /\ c.st \in states /\ Msg.type = type

StoresNothingInComm(st) ==   \* mutant: Communicating drops ServerQueued
  CASE st = "WaitingForServer" -> {"ServerQueued"}
    [] st = "Registering" -> {"SessionData"}
    [] OTHER -> {}
Stored(st) ==
  CASE st \in {"Offline", "WaitingForServer", "Communicating"} -> {"ServerQueued"}
    [] st = "Registering" -> {"SessionData"}
    [] OTHER -> {}

StoreMessage ==
  /\ todo # <<>> /\ Msg.type \in Stored(c.st)
  /\ storage' = Append(storage, Msg) /\ todo' = Tail(todo)
  /\ UNCHANGED <<c, last, servers, conn, table, up, down, edge, breaks>>

NewRound(d, a) == [d EXCEPT !.rid = a, !.eph = @ + 1]

\* Queuing::ProcessPacket: signed by the server the client queues at (one from a
\* server it has left throws), and all agrees are for one RoundId and signed.  Then
\* Registering::Init: a new key, and a ClientRegister for the server.
ProcessQueued ==
  /\ Processing({"Queuing"}, "ServerQueued") /\ Msg.from = c.server
  /\ LET d == [NewRound(c, Msg.rid) EXCEPT !.st = "Registering"]
     IN /\ Goto(d, Tail(todo))
        /\ up' = [up EXCEPT ![c.server] =
                    IF c.server \in edge THEN Append(@, ClientRegister(d.rid, d.eph)) ELSE @]
  /\ UNCHANGED <<last, servers, conn, table, down, edge, breaks>>

\* Registering::ProcessPacket compares the i-th signature with the i-th server.
SignedBackwards(m) ==   \* mutant: the signatures are taken from the end
  \A i \in DOMAIN order : m.sigs[Len(order) + 1 - i] = order[i]
Signed(m) == Len(m.sigs) = Len(order) /\ \A i \in DOMAIN order : m.sigs[i] = order[i]

\* NextRound makes the round of m.  Mutant: with a new key.
RunNewKey(d, m) ==
  [d EXCEPT !.st = "Communicating", !.eph = @ + 1,
            !.round = [rid |-> d.rid, eph |-> d.eph + 1, of |-> m.rid, key |-> m.key]]
NextRound(d, m) ==
  [d EXCEPT !.st = "Communicating",
            !.round = [rid |-> d.rid, eph |-> d.eph, of |-> m.rid, key |-> m.key]]

\* CommState::Init then starts it.
ProcessStart ==
  /\ Processing({"Registering"}, "ServerStart") /\ Signed(Msg)
  /\ Goto(NextRound(c, Msg), Tail(todo))
  /\ UNCHANGED <<last, servers, conn, table, up, down, edge, breaks>>

\* SessionSharedState::DefaultHandleServerStop, while registering.
CheckServerStop(m) == m.rid = c.rid
ProcessStop ==
  /\ Processing({"Registering"}, "ServerStop")
  /\ last' = Msg
  /\ IF last # Msg /\ CheckServerStop(Msg)
       THEN Waiting(c, conn, Tail(todo))
       ELSE todo' = Tail(todo) /\ UNCHANGED <<c, storage>>
  /\ UNCHANGED <<servers, conn, table, up, down, edge, breaks>>

\* CommState::HandleServerStop: Round::Stop, which ends it: Session::
\* HandleRoundFinishedSlot completes the state.  All stops are immediate.
CommStop ==
  /\ Processing({"Communicating"}, "ServerStop") /\ CheckServerStop(Msg)
  /\ Waiting(c, conn, Tail(todo))
  /\ UNCHANGED <<last, servers, conn, table, up, down, edge, breaks>>

\* A message without a handler or whose handler throws.  CommState hands
\* SessionData to the round.
Drop ==
  /\ todo # <<>> /\ Msg.type \notin Stored(c.st)
  /\ ~(Processing({"Queuing"}, "ServerQueued") /\ Msg.from = c.server)
  /\ ~(Processing({"Registering"}, "ServerStart") /\ Signed(Msg))
  /\ ~Processing({"Registering"}, "ServerStop")
  /\ ~(Processing({"Communicating"}, "ServerStop") /\ CheckServerStop(Msg))
  /\ todo' = Tail(todo)
  /\ UNCHANGED <<c, storage, last, servers, conn, table, up, down, edge,
                 breaks>>

Deliver(s) ==
  /\ Idle /\ down[s] # <<>> /\ c.st # "Offline"
  /\ todo' = <<Head(down[s])>> /\ down' = [down EXCEPT ![s] = Tail(@)]
  /\ UNCHANGED <<c, storage, last, servers, conn, table, up, edge, breaks>>

\* Session::OnStart.
Start ==
  /\ c.st = "Offline" /\ Waiting(c, conn, <<>>)
  /\ UNCHANGED <<last, servers, conn, table, up, down, edge, breaks>>

\* The round ends: HandleRoundFinishedSlot.
RoundFinished ==
  /\ Idle /\ c.st = "Communicating" /\ Waiting(c, conn, <<>>)
  /\ UNCHANGED <<last, servers, conn, table, up, down, edge, breaks>>

-----------------------------------------------------------------------------
(* Connections of the client: the acquirer keeps one *)

HandleConnection(s) ==
  /\ Idle /\ conn = {} /\ s \notin table
  /\ conn' = {s} /\ edge' = {s}
  /\ IF c.st = "WaitingForServer" THEN Waiting(c, {s}, <<>>) ELSE UNCHANGED <<c, storage, todo>>
  /\ UNCHANGED <<last, servers, table, up, down, breaks>>

\* The server has the client in its table; RegisteringState::HandleConnection
\* offers the round.
AtServer(s) ==
  /\ s \in edge \ table /\ table' = table \cup {s}
  /\ IF srv[s].st = "Registering"
       THEN /\ down' = [down EXCEPT ![s] = Append(@, ServerQueued(srv[s].rid, s))]
            /\ offered' = offered \cup {srv[s].rid}
       ELSE UNCHANGED <<down, offered>>
  /\ UNCHANGED <<client, conn, srv, attempt, roster, halted, up, edge, breaks>>

Break(s) ==
  /\ s \in edge /\ breaks < MaxBreak /\ breaks' = breaks + 1
  /\ edge' = edge \ {s}
  /\ \E i \in 0..Len(up[s]), j \in 0..Len(down[s]) :
       /\ up' = [up EXCEPT ![s] = SubSeq(@, 1, i)]
       /\ down' = [down EXCEPT ![s] = SubSeq(@, 1, j)]
  /\ UNCHANGED <<client, servers, conn, table>>

\* HandleDisconnection of Queuing, Registering and Communicating restarts.
HandleDisconnection(s) ==
  /\ Idle /\ s \in conn \ edge /\ down[s] = <<>>
  /\ conn' = conn \ {s}
  /\ IF c.st \in {"Queuing", "Registering", "Communicating"} /\ c.server = s
       THEN Waiting(c, conn', <<>>)
       ELSE UNCHANGED <<c, storage, todo>>
  /\ UNCHANGED <<last, servers, table, up, down, edge, breaks>>

ServerLoses(s) ==
  /\ s \in table \ edge /\ up[s] = <<>> /\ table' = table \ {s}
  /\ UNCHANGED <<client, servers, conn, up, down, edge, breaks>>

-----------------------------------------------------------------------------
(* The servers, as far as clients see them *)

Send(s, m) == down' = [down EXCEPT ![s] = IF s \in table \cap edge THEN Append(@, m) ELSE @]

\* The proposer opens an attempt that all servers join.
Open ==
  /\ attempt < MaxAttempt /\ \A s \in Server : srv[s].st = "Forming"
  /\ attempt' = attempt + 1
  /\ srv' = [s \in Server |-> [srv[s] EXCEPT !.st = "Agree", !.rid = attempt']]
  /\ UNCHANGED <<client, roster, halted, offered, conn, table, up, down, edge, breaks>>

\* RegisteringState::Init.
Registering(s) ==
  /\ srv[s].st = "Agree"
  /\ srv' = [srv EXCEPT ![s].st = "Registering", ![s].key = None]
  /\ Send(s, ServerQueued(srv[s].rid, s))
  /\ offered' = IF s \in table THEN offered \cup {srv[s].rid} ELSE offered
  /\ UNCHANGED <<client, attempt, roster, halted, conn, table, up, edge, breaks>>

\* RegisteringState::ProcessPacket; AgreeState keeps a ClientRegister, the other
\* states drop it.
TakesAny(s, m) == srv[s].key = None   \* mutant: a registration for any RoundId
Takes(s, m) == m.rid = srv[s].rid /\ srv[s].key = None
TakeRegister(s) ==
  /\ up[s] # <<>> /\ srv[s].st # "Agree"
  /\ up' = [up EXCEPT ![s] = Tail(@)]
  /\ srv' = [srv EXCEPT ![s].key = IF srv[s].st = "Registering" /\ Takes(s, Head(up[s]))
                                     THEN Head(up[s]).key ELSE @]
  /\ UNCHANGED <<client, attempt, roster, halted, offered, conn, table, down, edge, breaks>>

\* RegisteringState::FinishClientRegister, by a timer, then ListExchangeState::Init.
FinishClientRegister(s) ==
  /\ srv[s].st = "Registering" /\ (Prompt => \E t \in Server : srv[t].key # None)
  /\ srv' = [srv EXCEPT ![s].st = "Listing", ![s].listed = srv[s].rid]
  /\ UNCHANGED <<client, attempt, roster, halted, offered, conn, table, up, down, edge, breaks>>

\* All lists are here; VerifyListState::Init.  roster[a] is the entry of one
\* server: the union depends on the order of arrival.
Listed == {srv[t].key : t \in Server}
VerifyList(s) ==
  LET a == srv[s].rid
  IN /\ srv[s].st = "Listing" /\ \A t \in Server : srv[t].listed = a
     /\ \E k \in (IF Listed = {None} THEN {None} ELSE Listed \ {None}) :
          /\ \A t \in Server : srv[t].signed = a => roster[a] = k
          /\ roster' = [roster EXCEPT ![a] = k]
     /\ srv' = [srv EXCEPT ![s].st = "VerifyList", ![s].signed = a]
     /\ UNCHANGED <<client, attempt, halted, offered, conn, table, up, down, edge, breaks>>

\* All servers have signed the same list; CommState::Init.  The start goes to the
\* clients of that list (GetClientRegisterMsgs, merged by VerifyListState) that are
\* connected here, wherever they registered.
EnterComm(s) ==
  LET a == srv[s].rid
  IN /\ srv[s].st = "VerifyList" /\ \A t \in Server : srv[t].signed = a
     /\ IF roster[a] # None THEN Send(s, ServerStart(a, roster[a])) ELSE UNCHANGED down
     /\ srv' = [srv EXCEPT ![s].st = "Communicating"]
     /\ UNCHANGED <<client, attempt, roster, halted, offered, conn, table, up, edge, breaks>>

\* Messages of the round reach the client through its server, one at a time.
SendData(s) ==
  /\ SessionData(attempt) \notin Range(down[s] \o storage \o todo) /\ s \in table
  /\ \E t \in Server : srv[t].st = "Communicating"
  /\ Send(s, SessionData(attempt))
  /\ UNCHANGED <<client, servers, conn, table, up, edge, breaks>>

\* A server that loses another one while it forms a round broadcasts a ServerStop,
\* for the RoundId or, before it has one, for the nonce
\* (ServerSessionSharedState::DefaultHandleDisconnection).  It goes at once to all
\* it is connected to, its clients among them.
BroadcastStop(s) ==
  /\ srv[s].st \in {"Agree", "Registering", "Listing", "VerifyList"}
  /\ Cardinality(halted) < MaxStop
  /\ \E r \in {srv[s].rid} \cup (IF srv[s].st = "Agree" THEN {Nonce(srv[s].rid)} ELSE {}) :
       LET m == ServerStop(r, Cardinality(halted) + 1)
       IN halted' = halted \cup {m} /\ Send(s, m)
  /\ UNCHANGED <<client, srv, attempt, roster, offered, conn, table, up, edge, breaks>>

\* A stop of the attempt reaches a server, which leaves it.
Stops(a) == {m \in halted : m.rid \in {a, Nonce(a)}}
LeaveAttempt(s) ==
  /\ srv[s].st # "Forming" /\ Stops(srv[s].rid) # {}
  /\ srv' = [srv EXCEPT ![s].st = "Forming"]
  /\ UNCHANGED <<client, attempt, roster, halted, offered, conn, table, up, down, edge, breaks>>

\* A server passes a broadcast on to its clients (Overlay::BroadcastHelper), whether
\* it heeds it or not, and the proposer broadcasts it again: a copy may come to the
\* client before or after the servers have left the attempt, again, or not at all.
\* Edges between servers are FIFO: before it takes registrations for the next
\* attempt a server has every copy there is.
RelayStop(s) ==
  /\ \E m \in (IF srv[s].st = "Agree" THEN halted ELSE Stops(srv[s].rid)) :
       m \notin Range(down[s]) /\ Send(s, m)
  /\ UNCHANGED <<client, servers, conn, table, up, edge, breaks>>

ServerRoundOver(s) ==
  /\ srv[s].st = "Communicating"
  /\ \A t \in Server : srv[t].st \in {"Communicating", "Forming"}
  /\ srv' = [srv EXCEPT ![s].st = "Forming"]
  /\ UNCHANGED <<client, attempt, roster, halted, offered, conn, table, up, down, edge, breaks>>

-----------------------------------------------------------------------------
Init ==
  /\ c = [st |-> "Offline", rid |-> None, eph |-> None, server |-> None,
          round |-> [rid |-> None, eph |-> None, of |-> None, key |-> None]]
  /\ storage = <<>> /\ todo = <<>> /\ last = <<>> /\ conn = {} /\ table = {} /\ edge = {}
  /\ srv = [s \in Server |-> [st |-> "Forming", rid |-> None, key |-> None,
                          listed |-> None, signed |-> None]]
  /\ up = [s \in Server |-> <<>>] /\ down = [s \in Server |-> <<>>]
  /\ attempt = 0 /\ roster = [a \in Attempt |-> None] /\ breaks = 0 /\ halted = {}
  /\ offered = {}
  /\ order \in {q \in [1..Cardinality(Server) -> Server] : Range(q) = Server}

ClientStep == StoreMessage \/ ProcessQueued \/ ProcessStart \/ ProcessStop \/ CommStop \/ Drop
              \/ Start \/ RoundFinished

\* While the client's turn lasts nothing else happens: it meets the servers only
\* through its edges.
Step ==
  \/ ClientStep
  \/ Idle /\ Open
  \/ \E s \in Server :
       /\ Idle
       /\ \/ Deliver(s) \/ HandleConnection(s) \/ AtServer(s) \/ Break(s)
          \/ HandleDisconnection(s) \/ ServerLoses(s) \/ Registering(s) \/ TakeRegister(s)
          \/ FinishClientRegister(s) \/ VerifyList(s) \/ EnterComm(s) \/ SendData(s)
          \/ BroadcastStop(s) \/ LeaveAttempt(s) \/ RelayStop(s) \/ ServerRoundOver(s)
Next == Step /\ UNCHANGED order

Spec == Init /\ [][Next]_vars

-----------------------------------------------------------------------------
(* Properties *)

TypeOK ==
  /\ c.st \in {"Offline", "WaitingForServer", "Queuing", "Registering", "Communicating"}
  /\ c.rid \in 0..attempt /\ c.eph \in Nat /\ c.server \in Server \cup {None}
  /\ Cardinality(conn) <= 1 /\ edge \subseteq conn /\ DOMAIN roster = Attempt

\* A client that communicates runs the round of its RoundId with the list that
\* all servers signed for that RoundId, although ServerStart does not name one
\* (Registering::ProcessPacket).
RosterOfRound ==
  c.st = "Communicating" => c.round.rid = c.round.of /\ c.round.key = roster[c.round.of]

\* The list a client communicates with holds the key the client made for it, as
\* long as its edges have held (NextRound).
KeyInRoster ==
  breaks = 0 /\ c.st = "Communicating" => c.round.key = c.round.eph

\* The ServerStart of the round a client registers for starts its round exactly if
\* the configuration lists the servers in the order of their Ids: the client checks
\* the i-th signature with the key of the i-th server of the configuration
\* (Registering::ProcessPacket), the servers send them ordered by Id (CommState::Init).
StartHeeded ==
  (Processing({"Registering"}, "ServerStart") /\ Msg.rid = c.rid /\ todo' # todo)
    => (c'.st = "Communicating" <=> order = Signatures)
StartIsHeeded == [][StartHeeded]_vars

=============================================================================
