------------------------------ MODULE SFTRound ------------------------------
(***************************************************************************)
(* The fault-tolerant round (SFT): SFTNullRound with its SFTMessageManager *)
(* and SFTViewManager at every node.                                       *)
(*                                                                         *)
(* A view is a set of servers whose pads the clients use.  In each         *)
(* exchange a server collects the messages of all its clients, tells the   *)
(* other servers whom it heard, sends its cipher, and pushes what the      *)
(* ciphers of all live servers XOR to.  A message that comes in the wrong  *)
(* phase is dropped, so a server that enters a phase also asks the others  *)
(* for what it may have missed.  When a server of the view is lost the     *)
(* others vote for the next view without it.                               *)
(*                                                                         *)
(* A byte array is the set of what was XORed into it.  Every client sends  *)
(* the same message in every exchange, as startMessageExchange does, and   *)
(* the pad of a client and a server is always the same.  Edges deliver in  *)
(* order.  What a node sends to itself is left out: it is ignored.         *)
(***************************************************************************)
EXTENDS Naturals, Sequences, FiniteSets, FiniteSetsExt, Functions, TLC

CONSTANTS
  Server, Client,
  Home,        \* Home[c]: the server that c is connected to
  Talk,        \* the clients that take part
  View,        \* View[v]: the servers of view v, from a random generator
  MaxExchange, \* bound: outputs a client takes and answers with its next message
  MaxFail      \* bound: servers that fail

\* A server without clients never starts an exchange: Range(Home) = Server.

VARIABLES
  srv,      \* srv[s]: the managers of server s
  cli,      \* cli[c]: those of client c
  chan,     \* chan[a][b]: what is in flight from a to b
  down      \* servers that have failed

vars == <<srv, cli, chan, down>>

Node == Server \cup Client
Downstream(s) == {c \in Client : Home[c] = s}

-----------------------------------------------------------------------------
(* SFTViewManager *)

NumServers == Cardinality(Server)
inCurrentView(r, s) == s \in View[r.view]
getNumLiveServers(r) == NumServers - Cardinality(r.down)
tooFewServers(r) == 3 * getNumLiveServers(r) < 2 * NumServers
nextGoodView(r) == Min({v \in DOMAIN View : v > r.view /\ View[v] \cap r.down = {}})

setNewView(r, v) == [r EXCEPT !.view = v, !.votes = [w \in DOMAIN View |-> {}]]

NeedsMore(r, v, voter) ==   \* mutant: exactly two thirds are not enough
  LET votes == r.votes[v] \cup {voter}
      changed == /\ voter \notin r.votes[v]
                 /\ 3 * Cardinality(votes) > 2 * NumServers
                 /\ v > r.view
  IN [changed |-> changed,
      r |-> IF changed THEN setNewView(r, v) ELSE [r EXCEPT !.votes[v] = votes]]
\* addViewChangeVote, for a yes: changed tells whether the view changed.
addViewChangeVote(r, v, voter) ==
  LET votes == r.votes[v] \cup {voter}
      changed == /\ voter \notin r.votes[v]
                 /\ 3 * Cardinality(votes) >= 2 * NumServers
                 /\ v > r.view
  IN [changed |-> changed,
      r |-> IF changed THEN setNewView(r, v) ELSE [r EXCEPT !.votes[v] = votes]]

-----------------------------------------------------------------------------
(* Messages and steps: a step of n is its new record and what it sends.    *)

Msg(type, body) == [type |-> type, body |-> body]
Silent == [m \in Node |-> <<>>]
Step(r, out) == [r |-> r, out |-> out]
Also(out, more) == [m \in Node |-> out[m] \o more[m]]
sendToSingleNode(n, msg) == [Silent EXCEPT ![n] = <<msg>>]
broadcastToServers(s, msgs) ==
  [m \in Node |-> IF m \in Server \ {s} THEN msgs ELSE <<>>]
broadcastToDownstreamClients(s, msg) ==
  [m \in Node |-> IF m \in Downstream(s) THEN <<msg>> ELSE <<>>]

-----------------------------------------------------------------------------
(* What is sent *)

Key(s, c) == [is |-> "key", s |-> s, c |-> c]
Text(c) == [is |-> "text", c |-> c]

encryptClientMessage(c, v) == SymDiff({Text(c)}, {Key(s, c) : s \in View[v]})

OwnClients(s, r) ==   \* mutant: keys only for the clients heard here
  SymDiff(FoldFunction(SymDiff, {}, r.got),
          IF inCurrentView(r, s) THEN {Key(s, c) : c \in DOMAIN r.got} ELSE {})
createCipher(s, r) ==
  SymDiff(FoldFunction(SymDiff, {}, r.got),
          IF inCurrentView(r, s) THEN {Key(s, c) : c \in r.clients} ELSE {})

-----------------------------------------------------------------------------
(* The phases of a server *)

Nothing == [x \in {} |-> {}]

NewServer(s) ==
  [phase |-> "Collection", view |-> 0, proposed |-> 0,
   votes |-> [v \in DOMAIN View |-> {}], down |-> {}, got |-> Nothing, att |-> {}, clients |-> {}, ciphers |-> Nothing,
   last |-> {}, out |-> <<>>, stopped |-> FALSE]

startServerRound(r) ==
  [r EXCEPT !.phase = "Collection", !.got = Nothing, !.ciphers = Nothing,
            !.att = {}, !.clients = {}]

AnnounceOnly(s, r) ==   \* mutant: does not ask for what it may have missed
  Step([r EXCEPT !.phase = "Attendance", !.att = {s}, !.clients = DOMAIN r.got],
       broadcastToServers(s, <<Msg("ClientAttendance", DOMAIN r.got)>>))
startClientAttendance(s, r) ==
  Step([r EXCEPT !.phase = "Attendance", !.att = {s}, !.clients = DOMAIN r.got],
       broadcastToServers(s, <<Msg("ClientAttendance", DOMAIN r.got),
                               Msg("RequestInfo", "Attendance")>>))

startCipherExchange(s, r) ==
  LET c == createCipher(s, r)
  IN Step([r EXCEPT !.phase = "Exchange", !.ciphers = s :> c, !.last = c],
          broadcastToServers(s, <<Msg("ServerCipher", c),
                                  Msg("RequestInfo", "Exchange")>>))

\* The result of the vote for itself is not looked at.
startViewVoting(s, r) ==
  LET v == nextGoodView(r)
      q == [r EXCEPT !.phase = "Voting", !.proposed = v]
  IN Step(addViewChangeVote(q, v, s).r,
          broadcastToServers(s, <<Msg("ViewChangeVote", v),
                                  Msg("RequestInfo", "Voting")>>))

-----------------------------------------------------------------------------
(* What a server does with a message of m.                                 *)

processClientMessage(s, r, m, body) ==
  LET q == [r EXCEPT !.got = (m :> body.bits) @@ @]
  IN IF r.phase # "Collection" \/ m \in DOMAIN r.got \/ body.view # r.view
       THEN Step(r, Silent)
     ELSE IF DOMAIN q.got = Downstream(s) THEN startClientAttendance(s, q)
       ELSE Step(q, Silent)

processClientList(s, r, m, list) ==
  LET q == [r EXCEPT !.clients = @ \cup list, !.att = @ \cup {m}]
  IN IF r.phase # "Attendance" \/ m \in r.att THEN Step(r, Silent)
     ELSE IF Cardinality(q.att) = getNumLiveServers(q) THEN startCipherExchange(s, q)
       ELSE Step(q, Silent)

getDecrypted(r) == FoldFunction(SymDiff, {}, r.ciphers)

processCipher(s, r, m, cipher) ==
  LET q == [r EXCEPT !.ciphers = (m :> cipher) @@ @]
  IN IF r.phase # "Exchange" \/ m \in DOMAIN r.ciphers THEN Step(r, Silent)
     ELSE IF Cardinality(DOMAIN q.ciphers) = getNumLiveServers(q)
       THEN Step([startServerRound(q) EXCEPT !.out = Append(@, getDecrypted(q))],
                 broadcastToDownstreamClients(s, Msg("Decrypted", getDecrypted(q))))
       ELSE Step(q, Silent)

\* A request for the cipher is answered with the last one, a request for the
\* clients with those heard in this exchange; a request for votes is not answered.
processInfoRequest(s, r, m, what) ==
  CASE what = "Exchange" /\ r.phase # "Attendance" ->
         Step(r, sendToSingleNode(m, Msg("ServerCipher", r.last)))
    [] what = "Attendance" /\ r.phase \in {"Attendance", "Exchange"} ->
         Step(r, sendToSingleNode(m, Msg("ClientAttendance", DOMAIN r.got)))
    [] OTHER -> Step(r, Silent)

processViewChangeProposal(s, r, m, v) ==
  LET a == addViewChangeVote(r, v, m)
  IN IF a.changed
       THEN Step(startServerRound(a.r),
                 broadcastToDownstreamClients(s, Msg("ViewChangeNotification", v)))
       ELSE Step(a.r, Silent)

\* HandleDisconnect: only the loss of a server of the view has consequences.
HandleDisconnect(s, r, m) ==
  LET q == [r EXCEPT !.down = @ \cup {m}]
  IN IF ~inCurrentView(q, m) THEN Step(q, Silent)
     ELSE IF tooFewServers(q) THEN Step([q EXCEPT !.stopped = TRUE], Silent)
     ELSE startViewVoting(s, q)

ServerStep(s, r, m, msg) ==
  CASE r.stopped -> Step(r, Silent)
    [] ~r.stopped /\ msg.type = "ClientMessage" -> processClientMessage(s, r, m, msg.body)
    [] ~r.stopped /\ msg.type = "ClientAttendance" -> processClientList(s, r, m, msg.body)
    [] ~r.stopped /\ msg.type = "ServerCipher" -> processCipher(s, r, m, msg.body)
    [] ~r.stopped /\ msg.type = "RequestInfo" -> processInfoRequest(s, r, m, msg.body)
    [] ~r.stopped /\ msg.type = "ViewChangeVote" ->
         processViewChangeProposal(s, r, m, msg.body)
    [] ~r.stopped /\ msg.type = "Closed" -> HandleDisconnect(s, r, m)

-----------------------------------------------------------------------------
(* Clients *)

clientRoundMessageSend(c, r) ==
  Step(r, sendToSingleNode(Home[c],
            Msg("ClientMessage", [view |-> r.view,
                                  bits |-> encryptClientMessage(c, r.view)])))

\* processDecrypted and pushDataOut; processViewChangeNotification.  A client that
\* has lost its server has nobody to talk to.
ClientStep(c, r, msg) ==
  CASE msg.type = "Decrypted" ->
         clientRoundMessageSend(c, [r EXCEPT !.out = Append(@, msg.body)])
    [] msg.type = "ViewChangeNotification" /\ msg.body # r.view ->
         clientRoundMessageSend(c, [r EXCEPT !.view = msg.body])
    [] OTHER -> Step(r, Silent)

-----------------------------------------------------------------------------
(* Actions *)

Sent(ch, n, out) ==
  [ch EXCEPT ![n] = [m \in Node |-> IF m \in down THEN <<>> ELSE ch[n][m] \o out[m]]]

ReceiveAtServer(m, s) ==
  /\ s \notin down /\ chan[m][s] # <<>>
  /\ LET step == ServerStep(s, srv[s], m, Head(chan[m][s]))
     IN /\ srv' = [srv EXCEPT ![s] = step.r]
        /\ chan' = Sent([chan EXCEPT ![m][s] = Tail(@)], s, step.out)
  /\ UNCHANGED <<cli, down>>

ReceiveAtClient(s, c) ==
  /\ chan[s][c] # <<>> /\ Len(cli[c].out) < MaxExchange
  /\ LET step == ClientStep(c, cli[c], Head(chan[s][c]))
     IN /\ cli' = [cli EXCEPT ![c] = step.r]
        /\ chan' = Sent([chan EXCEPT ![s][c] = Tail(@)], c, step.out)
  /\ UNCHANGED <<srv, down>>

\* A server fails: what it sent still arrives, then the end of its edges.
Fail(s) ==
  /\ s \notin down /\ Cardinality(down) < MaxFail
  /\ down' = down \cup {s}
  /\ chan' = [a \in Node |-> [b \in Node |->
       IF b = s THEN <<>>
       ELSE IF a = s THEN Append(chan[a][b], Msg("Closed", s)) ELSE chan[a][b]]]
  /\ UNCHANGED <<srv, cli>>

NewClient == [view |-> 0, out |-> <<>>]

\* ClientOnStart: the clients have sent their first message.
Init ==
  /\ srv = [s \in Server |-> NewServer(s)]
  /\ cli = [c \in Client |-> NewClient]
  /\ chan = [a \in Node |->
       IF a \in Talk THEN clientRoundMessageSend(a, NewClient).out ELSE Silent]
  /\ down = {}

Deliver == \/ \E m \in Node, s \in Server : ReceiveAtServer(m, s)
           \/ \E s \in Server, c \in Client : ReceiveAtClient(s, c)
Next == Deliver \/ \E s \in Server : Fail(s)

Spec == Init /\ [][Next]_vars

-----------------------------------------------------------------------------
(* Properties *)

\* What an exchange gives is the texts of all clients and no key, although servers
\* are in different exchanges and answer requests with lists and ciphers of an
\* earlier or later one (lastCipher, getReceivedClients).
Decrypts ==
  \A s \in Server : \A i \in DOMAIN srv[s].out :
    srv[s].out[i] = {Text(c) : c \in Client}

\* The round never comes to rest: somebody always has something to receive, although
\* every message that comes in the wrong phase is dropped and servers are in
\* different exchanges (the requests, and lastCipher "So that the slowest person in
\* a round can get the ciphertexts").
NoStall ==
  \/ \E a, b \in Node : chan[a][b] # <<>>
  \/ \E s \in Server : srv[s].stopped \/ s \in down

\* When a server fails the others stop or end in one view without it, although each
\* notices by itself and votes may come before its own (addViewChangeVote).
Converged ==
  \/ \E t \in Server \ down : srv[t].stopped
  \/ \A t, u \in Server \ down : /\ srv[t].view = srv[u].view
                                /\ View[srv[t].view] \cap down = {}
ViewsConverge == down # {} ~> Converged

=============================================================================
