---------------------------- MODULE ServerSession ----------------------------
(***************************************************************************)
(* How the servers of a Dissent group form a round (Session/ServerSession, *)
(* run by Messaging/StateMachine over ClientServer/Overlay).               *)
(*                                                                         *)
(* Every server runs the same machine                                      *)
(*                                                                         *)
(*   Offline -> WaitingForServers -> Init -> Enlist -> Agree               *)
(*     -> Registering -> ListExchange -> VerifyList -> Communicating       *)
(*     -> WaitingForServers                                                *)
(*                                                                         *)
(* and the first server of the configuration, the Proposer, opens each     *)
(* attempt with a ServerInit.  A server that loses a connection stops the  *)
(* attempt with a ServerStop, which restarts every server that accepts it. *)
(*                                                                         *)
(* Servers talk over FIFO edges, one per connected pair, and over a        *)
(* loopback edge to themselves.  An edge may break: what is in flight is   *)
(* cut at an arbitrary point and either end learns of it on its own.       *)
(*                                                                         *)
(* Signatures are perfect: a message names its signer and only the signer  *)
(* creates it.  Hashes are injective, so a RoundId, which is the hash of   *)
(* the enlist messages, is represented by what is hashed.                  *)
(***************************************************************************)
EXTENDS Naturals, Sequences, FiniteSets

CONSTANTS
  Server,     \* the servers of the configuration
  Proposer,   \* the first of them
  Client,     \* the clients that may register
  MaxBreak,   \* bound: edges that break
  MaxOver,    \* bound: rounds that end by themselves
  MaxReg      \* bound: ClientRegisters each client sends

ASSUME ServerAssumption == Proposer \in Server /\ IsFiniteSet(Server)
ASSUME ClientAssumption == Client \cap Server = {}
ASSUME BoundAssumption == MaxBreak \in Nat /\ MaxOver \in Nat /\ MaxReg \in Nat

VARIABLES
  st,         \* st[s]: the current state of s's state machine
  data,       \* data[s]: the shared state and the current state's own maps
  storage,    \* storage[s]: StateMachine::m_storage
  last,       \* last[s]: SessionSharedState::m_last, the last ServerStop seen
  todo,       \* what the server whose turn it is has still to process
  conn,       \* conn[s]: the servers in s's connection table
  link,       \* the pairs of servers joined by a working edge
  chan,       \* chan[a][b]: what is in flight from a to b
  initCount,  \* ServerInits made so far, which numbers their nonces
  breaks,     \* edges broken so far
  regCount,   \* regCount[c]: ClientRegisters of c so far, numbers their keys
  over,       \* the rounds that have ended at some server
  signed,     \* history: the ServerAgree and ServerVerifyList ever signed
  reached     \* history: who entered which state, for which round and roster

machine == <<st, data, storage, last, signed, reached>>
outside == <<breaks, regCount, over>>
vars == <<machine, todo, conn, link, chan, initCount, outside>>

-----------------------------------------------------------------------------
(* Data *)

States == {"Offline", "WaitingForServers", "Init", "Enlist", "Agree",
           "Registering", "ListExchange", "VerifyList", "Communicating"}

\* The states of an attempt at a round, and those that have a server roster.
Forming == {"Enlist", "Agree", "Registering", "ListExchange", "VerifyList"}
Queued == {"Registering", "ListExchange", "VerifyList", "Communicating"}

NoKeys == [t \in Server |-> 0]
NoRegs == [c \in Client |-> 0]

\* A RoundId hashes the ServerInit's nonce and every server's ephemeral key.
\* NonceId(n) stands for the bare nonce, which a ServerStop carries when its
\* sender has no RoundId yet.
RoundId == [n : Nat, keys : [Server -> Nat]]
NonceId(n) == [n |-> n, keys |-> NoKeys]
NoRound == NonceId(0)

\* A list of ClientRegisters.  Each entry carries the RoundId; an empty list
\* carries nothing that ties it to a round.
RegisterList(r, regs) ==
  [rid |-> IF regs = NoRegs THEN NoRound ELSE r, regs |-> regs]
RegisterLists == [rid : RoundId, regs : [Client -> Nat]]

ServerInit(n) == [type |-> "ServerInit", n |-> n]
ServerEnlist(s, n, k) == [type |-> "ServerEnlist", from |-> s, n |-> n, key |-> k]
ServerEnlisted(s, n, ks) ==
  [type |-> "ServerEnlisted", from |-> s, n |-> n, keys |-> ks]
ServerAgree(s, r, k) == [type |-> "ServerAgree", from |-> s, rid |-> r, key |-> k]
ServerList(l) == [type |-> "ServerList", list |-> l]
ServerVerifyList(s, l) == [type |-> "ServerVerifyList", from |-> s, list |-> l]
ServerStop(s, r, x) == [type |-> "ServerStop", from |-> s, rid |-> r, lost |-> x]
ClientRegister(c, r, k) ==
  [type |-> "ClientRegister", from |-> c, rid |-> r, key |-> k]
Connect == [type |-> "Connect"]   \* CM::Connect, first on a new edge
Closed == [type |-> "Closed"]     \* the end of a broken edge

Body ==
       {Connect, Closed}
  \cup [type : {"ServerInit"}, n : Nat]
  \cup [type : {"ServerEnlist"}, from : Server, n : Nat, key : Nat]
  \cup [type : {"ServerEnlisted"}, from : Server, n : Nat, keys : [Server -> Nat]]
  \cup [type : {"ServerAgree"}, from : Server, rid : RoundId, key : Nat]
  \cup [type : {"ServerList"}, list : RegisterLists]
  \cup [type : {"ServerVerifyList"}, from : Server, list : RegisterLists]
  \cup [type : {"ServerStop"}, from : Server, rid : RoundId, lost : Server]
  \cup [type : {"ClientRegister"}, from : Client, rid : RoundId, key : Nat]

\* What travels on an edge: who sent it, for whom it is meant (a relay forwards
\* what is meant for another server), and the message.
Packet == [src : Server \cup Client, dst : Server, body : Body]
NoStop == [type |-> "none"]

\* init: the nonce of the ServerInit, 0 for none; rid: the RoundId; eph: the
\* server's ephemeral key; keys: the ServerEnlists collected; got: whose
\* ServerAgree, ServerList or ServerVerifyList the current state has; regs:
\* the ClientRegisters collected (0 for none).
Data == [init : Nat, rid : RoundId, eph : Nat, keys : [Server -> Nat],
         got : SUBSET Server, regs : [Client -> Nat]]

-----------------------------------------------------------------------------
(* The overlay *)

Up(a, b) == a = b \/ {a, b} \in link

\* Whether s, connected to the servers cn, puts what is meant for d on its edge
\* to b: its edge to d if it has one, else any connection but the loopback.
Via(s, cn, d, b) ==
  IF d \in cn THEN b = d ELSE cn # {s} /\ b = CHOOSE v \in cn \ {s} : TRUE

\* The members of a finite set, in some order.
InOrder(S) ==
  CHOOSE q \in [1..Cardinality(S) -> S] : \A i, j \in DOMAIN q : q[i] = q[j] => i = j

\* What s, connected to cn, puts on its edge to b to send out[d] to every d in
\* DOMAIN out.  On an edge that is broken it is lost.
OnEdge(s, cn, b, out) ==
  LET q == InOrder({d \in DOMAIN out : Via(s, cn, d, b)})
  IN IF b \in cn /\ Up(s, b)
       THEN [i \in DOMAIN q |-> [src |-> s, dst |-> q[i], body |-> out[q[i]]]]
       ELSE <<>>

\* The channels c after s has sent out[d] to every d in DOMAIN out.
Sent(c, s, cn, out) ==
  [c EXCEPT ![s] = [b \in Server |-> c[s][b] \o OnEdge(s, cn, b, out)]]

ToServers(m) == [t \in Server |-> m]
ToOthers(m) == [t \in Server \ {Proposer} |-> m]
ToProposer(m) == [t \in {Proposer} |-> m]
-----------------------------------------------------------------------------
(* The state machine.  A turn of a server's event loop handles one event (a *)
(* message, a timer, a connection made or lost) and, if that changes the    *)
(* state, replays the stored messages in the new state.  todo holds what is *)
(* left of the turn, and while it is not empty nothing else happens: turns  *)
(* of different servers only meet through the channels.  SetNewState nests  *)
(* when a replayed message changes the state again: the messages stored so  *)
(* far are replayed before the rest of the outer list.                      *)

Idle == todo = <<>>
Was(s, T, r) == \E x \in reached : x[1] = s /\ x[2] = T /\ x[3] = r
Msg == Head(todo).body
Processing(s, states, type) ==
  todo # <<>> /\ Head(todo).dst = s /\ st[s] \in states /\ Msg.type = type

\* ProcessResult::NextState and Restart: s enters state T with data d.  rest
\* is what the turn had left.
Goto(s, T, d, rest) ==
  /\ st' = [st EXCEPT ![s] = T]
  /\ data' = [data EXCEPT ![s] = d]
  /\ todo' = storage[s] \o rest
  /\ storage' = [storage EXCEPT ![s] = <<>>]
  /\ reached' = reached \cup {<<s, T, d.rid, d.regs>>}

\* ProcessResult::NoChange: s has handled the message and now has data d.
Stay(s, d) ==
  /\ data' = [data EXCEPT ![s] = d]
  /\ todo' = Tail(todo)
  /\ UNCHANGED <<st, storage, last, signed, reached, conn, link, chan, initCount,
                 outside>>

\* ServerSessionSharedState::Reset.  The ephemeral key is not reset.
Reset(d) == [init |-> 0, rid |-> NoRound, eph |-> d.eph, keys |-> NoKeys,
             got |-> {}, regs |-> NoRegs]

\* The nonce of a new ServerInit.  Mutant: the nonce is not drawn anew.
OldNonce == IF initCount = 0 THEN 1 ELSE initCount
NewNonce == initCount + 1

\* EnlistState: adopt ServerInit n and make a new ephemeral key.
Enlisting(d, n) == [d EXCEPT !.init = n, !.eph = @ + 1, !.keys = NoKeys]

\* s, connected to the servers cn, goes through WaitingForServersState::Init.
\* It stays there until it is connected to every server.  Then it enters Init,
\* where the proposer sends a new ServerInit and at once enters Enlist.
\* c: the channels after what s has already sent in this step.
Restart(s, cn, c, rest) ==
  LET d == Reset(data[s])
      n == NewNonce
      e == Enlisting(d, n)
      opened == Sent(c, s, cn, ToOthers(ServerInit(n)))
  IN IF cn = Server /\ s = Proposer
       THEN /\ Goto(s, "Enlist", e, rest)
            /\ initCount' = n
            /\ chan' = Sent(opened, s, cn, ToProposer(ServerEnlist(s, n, e.eph)))
       ELSE /\ Goto(s, IF cn = Server THEN "Init" ELSE "WaitingForServers", d, rest)
            /\ chan' = c
            /\ UNCHANGED initCount

-----------------------------------------------------------------------------
(* Message handlers *)

\* The messages each state keeps for the next one (ProcessResult::StoreMessage).
\* Mutants: Enlist drops the ServerAgree of a faster server; Communicating drops
\* the ServerInit that comes before it has restarted; Registering drops the
\* ServerList of a server whose timer fired earlier.
StoredIn(state) ==
  CASE state \in {"Offline", "WaitingForServers"} -> {"ServerInit", "ServerStop"}
    [] state = "Init" -> {"ServerStop"}
    [] state = "Enlist" -> {"ServerAgree"}
    [] state = "Agree" -> {"ClientRegister", "ServerList"}
    [] state = "Registering" -> {"ServerList"}
    [] state = "ListExchange" -> {"ServerVerifyList"}
    [] state = "VerifyList" -> {}
    [] state = "Communicating" -> {"ServerInit"}
StoresNoAgree(state) == StoredIn(state) \ {"ServerAgree"}
Stored(state) == StoredIn(state)

StoreMessage(s) ==
  /\ todo # <<>> /\ Head(todo).dst = s
  /\ Msg.type \in Stored(st[s])
  /\ storage' = [storage EXCEPT ![s] = Append(@, Head(todo))]
  /\ todo' = Tail(todo)
  /\ UNCHANGED <<st, data, last, signed, reached, conn, link, chan, initCount,
                 outside>>

\* InitState::ProcessPacket, then EnlistState::Init.  Mutant: the ServerEnlist
\* is made before the new key.
ProcessInitOldKey(s) ==
  LET d == Enlisting(data[s], Msg.n)
  IN /\ Processing(s, {"Init"}, "ServerInit")
     /\ Goto(s, "Enlist", d, Tail(todo))
     /\ chan' = Sent(chan, s, conn[s], ToProposer(ServerEnlist(s, d.init, data[s].eph)))
     /\ UNCHANGED <<last, signed, conn, link, initCount, outside>>
ProcessInit(s) ==
  LET d == Enlisting(data[s], Msg.n)
  IN /\ Processing(s, {"Init"}, "ServerInit")
     /\ Goto(s, "Enlist", d, Tail(todo))
     /\ chan' = Sent(chan, s, conn[s], ToProposer(ServerEnlist(s, d.init, d.eph)))
     /\ UNCHANGED <<last, signed, conn, link, initCount, outside>>

\* AgreeState::Init: the RoundId is the hash of the ServerEnlists.  Mutants: the
\* proposer's is left out; the ephemeral key is made again.
HashOthers(n, keys) == [n |-> n, keys |-> [t \in Server \ {Proposer} |-> keys[t]]]
HashEnlists(n, keys) == [n |-> n, keys |-> keys]

Agreeing(d, keys) ==
  [d EXCEPT !.keys = keys, !.rid = HashEnlists(d.init, keys), !.got = {}]

\* The last ServerEnlist is verified: a ServerEnlisted goes to every server but
\* the proposer.  A server that is not the proposer sends one too, which nobody
\* accepts.  Then AgreeState::Init.
EnterAgree(s, keys) ==
  LET d == Agreeing(data[s], keys)
      agree == ServerAgree(s, d.rid, d.eph)
      enlisted == Sent(chan, s, conn[s], ToOthers(ServerEnlisted(s, d.init, keys)))
  IN /\ Goto(s, "Agree", d, Tail(todo))
     /\ chan' = Sent(enlisted, s, conn[s], ToServers(agree))
     /\ signed' = signed \cup {agree}
     /\ UNCHANGED <<last, conn, link, initCount, outside>>

\* EnlistState::HandleServerEnlist and VerifyEnlist, at the proposer.
EnlistOK(s) == /\ Processing(s, {"Enlist"}, "ServerEnlist")
               /\ s = Proposer
               /\ Msg.n = data[s].init
               /\ data[s].keys[Msg.from] = 0

ProcessEnlist(s) ==
  LET keys == [data[s].keys EXCEPT ![Msg.from] = Msg.key]
  IN /\ EnlistOK(s)
     /\ \/ /\ \E t \in Server : keys[t] = 0
           /\ Stay(s, [data[s] EXCEPT !.keys = keys])
        \/ /\ \A t \in Server : keys[t] # 0
           /\ EnterAgree(s, keys)

\* EnlistState::ProcessPacket: signed by the proposer, for the same ServerInit.
EnlistedOK(s) == /\ Processing(s, {"Enlist"}, "ServerEnlisted")
                 /\ Msg.from = Proposer
                 /\ Msg.n = data[s].init

ProcessEnlisted(s) == EnlistedOK(s) /\ EnterAgree(s, Msg.keys)

\* The current state has heard from every server.  Mutant: from all but one.
AllButOne(got) == Cardinality(got) + 1 >= Cardinality(Server)
Complete(got) == got = Server

\* AgreeState::ProcessPacket, then RegisteringState::Init.
AgreeOK(s) == /\ Processing(s, {"Agree"}, "ServerAgree")
              /\ Msg.from \notin data[s].got
              /\ Msg.rid = data[s].rid
              /\ Msg.key = data[s].keys[Msg.from]

ProcessAgree(s) ==
  LET got == data[s].got \cup {Msg.from}
  IN /\ AgreeOK(s)
     /\ \/ /\ ~Complete(got)
           /\ Stay(s, [data[s] EXCEPT !.got = got])
        \/ /\ Complete(got)
           /\ Goto(s, "Registering", [data[s] EXCEPT !.got = {}, !.regs = NoRegs],
                   Tail(todo))
           /\ UNCHANGED <<last, signed, conn, link, chan, initCount, outside>>

\* RegisteringState::ProcessPacket.
RegisterOK(s) == /\ Processing(s, {"Registering"}, "ClientRegister")
                 /\ data[s].regs[Msg.from] = 0
                 /\ Msg.rid = data[s].rid

ProcessRegister(s) ==
  RegisterOK(s) /\ Stay(s, [data[s] EXCEPT !.regs[Msg.from] = Msg.key])

\* RegisteringState::FinishClientRegister, 30 s after Init, then
\* ListExchangeState::Init.
FinishClientRegister(s) ==
  LET list == RegisterList(data[s].rid, data[s].regs)
  IN /\ Idle /\ st[s] = "Registering"
     /\ Goto(s, "ListExchange", [data[s] EXCEPT !.got = {}], <<>>)
     /\ chan' = Sent(chan, s, conn[s], ToServers(ServerList(list)))
     /\ UNCHANGED <<last, signed, conn, link, initCount, outside>>

\* ListExchangeState::ProcessPacket.  Every entry is for this round; an entry
\* for a client already listed replaces the one there.  Then
\* VerifyListState::Init, which signs the hash of the merged list.
ListOK(s) == /\ Processing(s, {"ListExchange"}, "ServerList")
             /\ Head(todo).src \in Server \ data[s].got
             /\ Msg.list.regs = NoRegs \/ Msg.list.rid = data[s].rid

Merge(regs, new) == [c \in Client |-> IF new[c] # 0 THEN new[c] ELSE regs[c]]

ProcessList(s) ==
  LET got == data[s].got \cup {Head(todo).src}
      regs == Merge(data[s].regs, Msg.list.regs)
      verify == ServerVerifyList(s, RegisterList(data[s].rid, regs))
  IN /\ ListOK(s)
     /\ \/ /\ ~Complete(got)
           /\ Stay(s, [data[s] EXCEPT !.got = got, !.regs = regs])
        \/ /\ Complete(got)
           /\ Goto(s, "VerifyList", [data[s] EXCEPT !.got = {}, !.regs = regs],
                   Tail(todo))
           /\ chan' = Sent(chan, s, conn[s], ToServers(verify))
           /\ signed' = signed \cup {verify}
           /\ UNCHANGED <<last, conn, link, initCount, outside>>

\* VerifyListState::ProcessPacket: the sender's signature on this server's own
\* list.  Then CommState::Init, which creates and starts the round.  Mutant: any
\* list will do.
VerifyAnyList(s) ==
  /\ Processing(s, {"VerifyList"}, "ServerVerifyList")
  /\ Head(todo).src \in Server \ data[s].got
  /\ Msg.from = Head(todo).src
VerifyListOK(s) ==
  /\ Processing(s, {"VerifyList"}, "ServerVerifyList")
  /\ Head(todo).src \in Server \ data[s].got
  /\ Msg = ServerVerifyList(Head(todo).src, RegisterList(data[s].rid, data[s].regs))

ProcessVerifyList(s) ==
  LET got == data[s].got \cup {Head(todo).src}
  IN /\ VerifyListOK(s)
     /\ \/ /\ ~Complete(got)
           /\ Stay(s, [data[s] EXCEPT !.got = got])
        \/ /\ Complete(got)
           /\ Goto(s, "Communicating", [data[s] EXCEPT !.got = got], Tail(todo))
           /\ UNCHANGED <<last, signed, conn, link, chan, initCount, outside>>

\* ServerSessionSharedState::CheckServerStop: the stop is for the server's
\* round or for its ServerInit.
StopOK(s) == Msg.rid \in {data[s].rid, NonceId(data[s].init)}

\* SessionSharedState::DefaultHandleServerStop.  The stop is remembered before
\* it is checked; one equal to the last is ignored.  The proposer passes an
\* accepted stop on: to all it is connected to, or to every server if the stop
\* is not for a RoundId.
ProcessStop(s) ==
  LET again == IF Msg.rid = data[s].rid THEN [t \in conn[s] |-> Msg] ELSE ToServers(Msg)
      c == IF s = Proposer THEN Sent(chan, s, conn[s], again) ELSE chan
  IN /\ Processing(s, Forming \cup {"Communicating"}, "ServerStop")
     /\ last' = [last EXCEPT ![s] = Msg]
     /\ \/ /\ last[s] = Msg \/ ~StopOK(s)
           /\ todo' = Tail(todo)
           /\ UNCHANGED <<st, data, storage, signed, reached, conn, link, chan,
                          initCount, outside>>
        \/ /\ last[s] # Msg /\ StopOK(s)
           /\ Restart(s, conn[s], c, Tail(todo))
           /\ UNCHANGED <<signed, conn, link, outside>>

\* A message the current state has no handler for, or whose handler throws, is
\* dropped (State::Process, StateMachine::ProcessData).
Drop(s) ==
  /\ todo # <<>> /\ Head(todo).dst = s
  /\ Msg.type \notin Stored(st[s])
  /\ ~Processing(s, {"Init"}, "ServerInit")
  /\ ~EnlistOK(s) /\ ~EnlistedOK(s) /\ ~AgreeOK(s) /\ ~RegisterOK(s)
  /\ ~ListOK(s) /\ ~VerifyListOK(s)
  /\ ~Processing(s, Forming \cup {"Communicating"}, "ServerStop")
  /\ Stay(s, data[s])

-----------------------------------------------------------------------------
(* Connections *)

\* A connection to a server is in the table, which now holds cn.  Only
\* WaitingForServersState::HandleConnection reacts.
HandleConnection(s, cn, c) ==
  IF st[s] = "WaitingForServers" /\ cn = Server
    THEN Restart(s, cn, c, <<>>)
    ELSE chan' = c /\ UNCHANGED <<st, data, storage, reached, todo, initCount>>

\* A connection to server p is lost, the table now holds cn.  An attempt is
\* stopped by broadcasting a ServerStop for the RoundId or, before there is one,
\* for the nonce.
DefaultHandleDisconnection(s, p, cn, c) ==
  LET d == data[s]
      r == IF d.rid = NoRound THEN NonceId(d.init) ELSE d.rid
  IN /\ st[s] \in Forming
     /\ chan' = Sent(c, s, cn, [t \in cn |-> ServerStop(s, r, p)])
     /\ UNCHANGED <<st, data, storage, reached, todo, initCount>>

\* InitState waits for the server again.
InitHandleDisconnection(s, cn, c) == st[s] = "Init" /\ Restart(s, cn, c, <<>>)

\* CommState stops the round (Round::HandleDisconnect), whose end completes the
\* state (HandleRoundFinishedSlot).
CommHandleDisconnection(s, cn, c) ==
  st[s] = "Communicating" /\ Restart(s, cn, c, <<>>)

HandleDisconnection(s, p, cn, c) ==
  \/ DefaultHandleDisconnection(s, p, cn, c)
  \/ InitHandleDisconnection(s, cn, c)
  \/ CommHandleDisconnection(s, cn, c)
  \/ /\ st[s] \in {"Offline", "WaitingForServers"}
     /\ chan' = c
     /\ UNCHANGED <<st, data, storage, reached, todo, initCount>>

\* An edge is made between two servers that have no connection.
NewEdge(a, b) ==
  /\ Idle /\ a # b
  /\ st[a] # "Offline" /\ st[b] # "Offline"
  /\ b \notin conn[a] /\ a \notin conn[b]
  /\ ~Up(a, b) /\ chan[a][b] = <<>> /\ chan[b][a] = <<>>
  /\ link' = link \cup {{a, b}}
  /\ UNCHANGED <<machine, todo, conn, chan, initCount, outside>>

\* One of its ends, a, decides to use it as the connection to b: it sends
\* CM::Connect and has the connection at once; b has it when the message comes.
\* Which end decides depends on the order of their ids, which is left open.
BindEdge(a, b) ==
  /\ Idle /\ a # b
  /\ b \notin conn[a] /\ a \notin conn[b]
  /\ Up(a, b) /\ chan[a][b] = <<>> /\ chan[b][a] = <<>>
  /\ conn' = [conn EXCEPT ![a] = @ \cup {b}]
  /\ HandleConnection(a, conn'[a],
       [chan EXCEPT ![a][b] = <<[src |-> a, dst |-> b, body |-> Connect]>>])
  /\ UNCHANGED <<last, signed, link, outside>>

\* The edge between a and b breaks: of what is in flight either way some prefix
\* still arrives.
BreakEdge(a, b) ==
  LET Cut(x, y, k) == Append(SubSeq(chan[x][y], 1, k),
                             [src |-> x, dst |-> y, body |-> Closed])
  IN /\ Idle /\ a # b /\ Up(a, b)
     /\ breaks < MaxBreak
     /\ breaks' = breaks + 1
     /\ link' = link \ {{a, b}}
     /\ \E i \in 0..Len(chan[a][b]), j \in 0..Len(chan[b][a]) :
          chan' = [chan EXCEPT ![a][b] = Cut(a, b, i), ![b][a] = Cut(b, a, j)]
     /\ UNCHANGED <<machine, todo, conn, initCount, regCount, over>>

\* s takes the next item from its edge to p.
Arriving(p, s) == Idle /\ chan[p][s] # <<>>
Taken(p, s) == [chan EXCEPT ![p][s] = Tail(@)]

ReceiveConnect(p, s) ==
  /\ Arriving(p, s) /\ Head(chan[p][s]).body = Connect
  /\ conn' = [conn EXCEPT ![s] = @ \cup {p}]
  /\ HandleConnection(s, conn'[s], Taken(p, s))
  /\ UNCHANGED <<last, signed, link, outside>>

\* The edge is found closed.  If CM::Connect never came there is no connection
\* to lose.
ReceiveClosed(p, s) ==
  /\ Arriving(p, s) /\ Head(chan[p][s]).body = Closed
  /\ conn' = [conn EXCEPT ![s] = @ \ {p}]
  /\ \/ /\ p \in conn[s]
        /\ HandleDisconnection(s, p, conn'[s], Taken(p, s))
     \/ /\ p \notin conn[s]
        /\ chan' = Taken(p, s)
        /\ UNCHANGED <<st, data, storage, reached, todo, initCount>>
  /\ UNCHANGED <<last, signed, link, outside>>

\* A session message for s: its turn begins.
Receive(p, s) ==
  /\ Arriving(p, s)
  /\ Head(chan[p][s]).body \notin {Connect, Closed} /\ Head(chan[p][s]).dst = s
  /\ todo' = <<Head(chan[p][s])>>
  /\ chan' = Taken(p, s)
  /\ UNCHANGED <<machine, conn, link, initCount, outside>>

\* Overlay::ForwardedData: a message for another server goes on if s is
\* connected to it.
ForwardedData(p, s) ==
  LET m == Head(chan[p][s])
  IN /\ Arriving(p, s)
     /\ m.body \notin {Connect, Closed} /\ m.dst # s
     /\ chan' = IF m.dst \in conn[s] /\ Up(s, m.dst)
                  THEN [Taken(p, s) EXCEPT ![s][m.dst] = Append(@, m)]
                  ELSE Taken(p, s)
     /\ UNCHANGED <<machine, todo, conn, link, initCount, outside>>

-----------------------------------------------------------------------------
(* The session's surroundings *)

\* Session::OnStart: Offline is complete.
Start(s) ==
  /\ Idle /\ st[s] = "Offline"
  /\ Restart(s, conn[s], chan, <<>>)
  /\ UNCHANGED <<last, signed, conn, link, outside>>

\* A client that was told of round r by s (ServerQueued) registers with a new
\* key.  Its ClientRegister may be long under way.
Register(s, c, r) ==
  /\ Idle /\ regCount[c] < MaxReg
  /\ Was(s, "Registering", r)
  /\ regCount' = [regCount EXCEPT ![c] = @ + 1]
  /\ todo' = <<[src |-> c, dst |-> s, body |-> ClientRegister(c, r, regCount[c] + 1)]>>
  /\ UNCHANGED <<machine, conn, link, chan, initCount, breaks, over>>

\* The round of s ends by itself, which takes every server's part in it
\* (Session::HandleRoundFinishedSlot).
RoundFinished(s) ==
  LET r == data[s].rid
  IN /\ Idle /\ st[s] = "Communicating"
     /\ \A t \in Server : Was(t, "Communicating", r)
     /\ over' = over \cup {r}
     /\ Restart(s, conn[s], chan, <<>>)
     /\ UNCHANGED <<last, signed, conn, link, breaks, regCount>>

-----------------------------------------------------------------------------

Init ==
  /\ st = [s \in Server |-> "Offline"]
  /\ data = [s \in Server |-> [init |-> 0, rid |-> NoRound, eph |-> 0,
                               keys |-> NoKeys, got |-> {}, regs |-> NoRegs]]
  /\ storage = [s \in Server |-> <<>>]
  /\ last = [s \in Server |-> NoStop]
  /\ todo = <<>>
  /\ conn = [s \in Server |-> {s}]
  /\ link = {}
  /\ chan = [a \in Server |-> [b \in Server |-> <<>>]]
  /\ initCount = 0 /\ breaks = 0
  /\ regCount = [c \in Client |-> 0]
  /\ over = {} /\ signed = {} /\ reached = {}

Handle(s) ==
  \/ StoreMessage(s) \/ ProcessInit(s) \/ ProcessEnlist(s) \/ ProcessEnlisted(s)
  \/ ProcessAgree(s) \/ ProcessRegister(s) \/ ProcessList(s)
  \/ ProcessVerifyList(s) \/ ProcessStop(s) \/ Drop(s)

\* What happens without anybody's doing once it can.
System ==
  \/ \E s \in Server : \/ Start(s) \/ Handle(s) \/ FinishClientRegister(s)
                       \/ RoundFinished(s) /\ data[s].rid \in over
  \/ \E p, s \in Server : \/ NewEdge(p, s) \/ BindEdge(p, s)
                          \/ ReceiveConnect(p, s)
                          \/ ReceiveClosed(p, s) \/ Receive(p, s)
                          \/ ForwardedData(p, s)

\* What may or may not happen.
Environment ==
  \/ \E a, b \in Server : BreakEdge(a, b)
  \/ \E s \in Server, c \in Client, r \in {x[3] : x \in reached} : Register(s, c, r)
  \/ \E s \in Server : /\ Cardinality(over) < MaxOver
                       /\ RoundFinished(s)

Next == System \/ Environment

Spec == Init /\ [][Next]_vars

-----------------------------------------------------------------------------
(* Properties *)

\* Every variable has its type.
TypeOK ==
  /\ st \in [Server -> States]
  /\ data \in [Server -> Data]
  /\ storage \in [Server -> Seq(Packet)]
  /\ last \in [Server -> Body \cup {NoStop}]
  /\ todo \in Seq(Packet)
  /\ conn \in [Server -> SUBSET Server]
  /\ link \subseteq SUBSET Server
  /\ chan \in [Server -> [Server -> Seq(Packet)]]
  /\ initCount \in Nat /\ breaks \in Nat
  /\ regCount \in [Client -> Nat]
  /\ over \subseteq RoundId
  /\ signed \subseteq Body
  /\ reached \subseteq Server \X States \X RoundId \X [Client -> Nat]

\* A server that takes registrations for a round, or runs it, does so with the
\* signed agreement of every server on that RoundId and on the ephemeral key the
\* RoundId holds for that server (AgreeState collects them).
CertifiedRound ==
  \A s, t \in Server :
    st[s] \in Queued => ServerAgree(t, data[s].rid, data[s].rid.keys[t]) \in signed

\* A server that runs a round has every server's signature on its client list
\* (VerifyListState collects them).
CertifiedRoster ==
  \A s, t \in Server :
    st[s] = "Communicating" =>
      ServerVerifyList(t, RegisterList(data[s].rid, data[s].regs)) \in signed

\* Servers that ever run the same round run it with the same clients and the
\* same client keys, whatever connections broke in between.
RosterAgreement ==
  \A x, y \in reached :
    /\ x[2] = "Communicating" /\ y[2] = "Communicating" /\ x[3] = y[3]
    => x[4] = y[4]

\* In a round each server holds the private half of the ephemeral key the others
\* have for it: a restart makes a new key, and no message of an earlier attempt
\* brings the old one back.
KeyCustody ==
  \A s \in Server :
    st[s] \in Queued \cup {"Agree"} => data[s].rid.keys[s] = data[s].eph

\* One ServerInit leads to at most one RoundId.
OneRoundPerInit ==
  \A x, y \in reached :
    /\ x[2] \in Queued /\ y[2] \in Queued /\ x[3].n = y[3].n
    => x[3] = y[3]

\* A server never goes back: when it takes registrations for a round, every
\* round it took them for before came from an earlier ServerInit.
RoundOrder ==
  [][\A s \in Server :
       st[s] # "Registering" /\ st'[s] = "Registering" =>
         \A x \in reached : x[1] = s /\ x[2] \in Queued => x[3].n < data'[s].rid.n]_vars

\* Left alone, the servers end up running one round together, with whichever
\* clients have registered and after whichever rounds have ended.
AllRunning ==
  \A s, t \in Server : st[s] = "Communicating" /\ data[s].rid = data[t].rid
FormsRound == <>[]AllRunning

-----------------------------------------------------------------------------
(* What the servers together promise *)

Number(r) == r.n
Service == INSTANCE RoundService WITH
  Idle <- NoRound,
  running <- [s \in Server |-> IF st[s] = "Communicating" THEN data[s].rid ELSE NoRound],
  rosters <- {<<x[1], x[3], x[4]>> : x \in {y \in reached : y[2] = "Communicating"}}

\* The servers' session layer implements the round service: its rounds have one
\* roster each and every server runs them one at a time, in order.
ServiceSpec == Service!Spec
-----------------------------------------------------------------------------
(* What the documentation says and the code does not do *)

\* A server that loses another one broadcasts a ServerStop, so that no server is
\* left behind: once every connection is there and nothing is under way, the
\* servers that are not waiting for a timer run one round (DESIGN, section IV).
Quiet == /\ Idle
         /\ \A s, t \in Server : conn[s] = Server /\ chan[s][t] = <<>>
\* The ServerStop the proposer redistributes ends the attempt it is for at a
\* server that did not act on the first copy (DESIGN, section IV).
StopIsHeeded ==
  [][\A s \in Server :
       Processing(s, Forming, "ServerStop") /\ StopOK(s) /\ todo' # todo
         => data'[s] # data[s]]_vars

=============================================================================
