----------------------------- MODULE DCNetRound -----------------------------
(***************************************************************************)
(* The client/server DC-net (Anonymity/CSDCNetRound) driven by             *)
(* Anonymity/RoundStateMachine.                                            *)
(*                                                                         *)
(* In every phase each client sends its ciphertext to its server; a server *)
(* closes its window when it has heard all its clients or when a timer     *)
(* runs out; the servers exchange the sets of clients they heard, commit   *)
(* to their ciphertexts, reveal them, sign the cleartext that they XOR to  *)
(* and push it to the clients.  The cleartext opens slots and says how     *)
(* long each slot is in the next phase.                                    *)
(*                                                                         *)
(* A byte array is the set of what has been XORed into it: pads, each      *)
(* known to one client and one server, bits that open a slot, slot         *)
(* messages, and noise.  XOR is then symmetric difference, so that a pad   *)
(* XORed in twice is gone.  A message is its length, 0 for none, and the   *)
(* k-th message of a client has length k.                                  *)
(***************************************************************************)
EXTENDS Naturals, Sequences, FiniteSets, FiniteSetsExt, Functions, TLC

CONSTANTS
  Server, Client,
  Home,       \* Home[c]: the server that c is connected to
  MaxMsg,     \* bound: messages each client has to send
  MaxPhase,   \* bound: phases
  MaxLate,    \* bound: windows that close before all clients were heard
  MaxNoise,   \* bound: ciphertexts in which a slot is garbled
  MaxLeave    \* bound: edges that close

VARIABLES
  node,       \* node[n]: the round object of n
  chan,       \* chan[a][b]: what is in flight from a to b
  late, noise, leave   \* how often each bounded event has happened

vars == <<node, chan, late, noise, leave>>
bounded == <<late, noise, leave>>

Node == Server \cup Client

-----------------------------------------------------------------------------
(* Data *)

SlotHeaderLength == 1

\* What can be XORed into a byte array.
Pad(c, s, p) == [is |-> "pad", c |-> c, s |-> s, p |-> p]
Open(c, p) == [is |-> "open", c |-> c, p |-> p]
Slot(c, p, next, msg, accuse) ==
  [is |-> "slot", c |-> c, p |-> p, next |-> next, msg |-> msg, accuse |-> accuse]
\* Noise in the slot of c.  What it does to the slot: sets the accusation byte,
\* turns a 0 bit into a 1, which the owner can prove, or only 1 bits into 0.
Garble(c, how) == [is |-> "noise", c |-> c, how |-> how]
NoiseKinds == {"flag", "provable", "unprovable"}

Xor(a, b) == SymDiff(a, b)

\* The XOR of all arrays of f: what an odd number of them holds.
XorAll(f) ==
  {x \in UNION Range(f) : Cardinality({i \in DOMAIN f : x \in f[i]}) % 2 = 1}

\* A ciphertext, and the hash a server commits to it with.
Text(len, bits) == [len |-> len, bits |-> bits]
NoText == Text(0, {})
Hash(x) == [hash |-> x]

\* The message types of the exchange and the state that consumes each.
Consumes ==
  [CLIENT_CIPHERTEXT |-> "WAIT_FOR_CLIENT_CIPHERTEXT",
   SERVER_CLIENT_LIST |-> "WAIT_FOR_CLIENT_LISTS",
   SERVER_COMMIT |-> "WAIT_FOR_SERVER_COMMITS",
   SERVER_CIPHERTEXT |-> "WAIT_FOR_SERVER_CIPHERTEXT",
   SERVER_VALIDATION |-> "WAIT_FOR_SERVER_VALIDATION",
   SERVER_CLEARTEXT |-> "WAIT_FOR_CLEARTEXT"]

States == Range(Consumes) \cup {"SHUFFLING", "STARTING_BLAME_SHUFFLE", "FINISHED"}

Msg(type, n, r, body) ==
  [type |-> type, from |-> n, phase |-> r.phase, body |-> body]
\* A packet of the blame shuffle, whose header says 2, and the end of an edge.
BlamePacket(n) == [type |-> "BLAME_PACKET", from |-> n, phase |-> 0, body |-> 0]
Closed(n) == [type |-> "CLOSED", from |-> n, phase |-> 0, body |-> 0]

\* next_messages; 0 is a slot that is not open.  msg_length.
NoSlots == [c \in Client |-> 0]
BaseLength == SlotHeaderLength
MsgLength(slots) == BaseLength + SumFunction(slots)

\* Class State, which clients and servers have, then what only clients have
\* (read .. accuse), and class ServerState.
NewRound(n) ==
  [st |-> "SHUFFLING", phase |-> 0, early |-> <<>>, todo |-> <<>>,
   slots |-> NoSlots, text |-> NoText, out |-> <<>>,
   read |-> FALSE, open |-> FALSE, next |-> 0, last |-> 0, taken |-> 0,
   accuse |-> FALSE,
   allowed |-> {c \in Client : Home[c] = n}, online |-> {},
   got |-> [c \in {} |-> NoText], heard |-> {},
   commits |-> [s \in Server |-> NoText], ciphers |-> [s \in Server |-> NoText],
   mine |-> NoText, sigs |-> [s \in Server |-> Hash(NoText)]]

-----------------------------------------------------------------------------
(* What a node sends.  A step of n is its new round object and what it     *)
(* sends: out[m] is a sequence of messages for m.                          *)

Silent == [m \in Node |-> <<>>]
Step(r, out) == [r |-> r, out |-> out]
Also(out, more) == [m \in Node |-> out[m] \o more[m]]

VerifiableSend(m, msg) == [Silent EXCEPT ![m] = <<msg>>]
VerifiableBroadcastToServers(msg) ==
  [m \in Node |-> IF m \in Server THEN <<msg>> ELSE <<>>]
VerifiableBroadcastToClients(r, msg) ==
  [m \in Node |-> IF m \in r.allowed THEN <<msg>> ELSE <<>>]

-----------------------------------------------------------------------------
(* RoundStateMachine *)

\* Verify, round id and phase have been checked: too old, not for this state
\* or of a later phase, or for the handler.
Stale(r, msg) == msg.phase < r.phase
Early(r, msg) == \/ Consumes[msg.type] # r.st
                 \/ r.phase < msg.phase

\* StateComplete: handled_servers is cleared, the early messages are taken out
\* to be processed again in the new state, before what is left of an outer
\* replay.
CompleteForgets(r, st) ==   \* mutant: early messages are not replayed
  [r EXCEPT !.st = st, !.heard = {}, !.early = <<>>]
Complete(r, st) ==
  [r EXCEPT !.st = st, !.heard = {}, !.early = <<>>, !.todo = r.early \o @]

-----------------------------------------------------------------------------
(* What a client puts into its ciphertext *)

GetData(r) == IF r.taken < MaxMsg THEN r.taken + 1 ELSE 0

\* GenerateSlotMessage: the next message, or the last one again.
GenerateSlotMessage(c, r) ==
  LET more == GetData(r)
      s == IF r.read
             THEN [r EXCEPT !.last = r.next, !.next = more,
                            !.taken = IF more = 0 THEN @ ELSE more]
             ELSE [r EXCEPT !.read = TRUE]
      msg == IF r.read THEN r.next ELSE r.last
  IN [r |-> s,
      len |-> SlotHeaderLength + msg,
      bits |-> {Slot(c, r.phase,
                     SlotHeaderLength + IF r.accuse THEN 0 ELSE s.next,
                     msg, r.accuse)}]

\* The ciphertext is msg_length long, unless the client believes that its slot
\* is open when it is not: it then writes past the end.
Overrun(c, r, len) == IF r.slots[c] = 0 THEN len ELSE 0

\* CheckData: something to send.
CheckData(r) == r.next # 0 \/ GetData(r) # 0

Pads(c, r) == {Pad(c, s, r.phase) : s \in Server}

GenerateCiphertext(c, r) ==
  IF r.open
    THEN LET g == GenerateSlotMessage(c, r)
         IN [r |-> g.r,
             text |-> Text(MsgLength(r.slots) + Overrun(c, r, g.len),
                           Xor(Pads(c, r), g.bits))]
  ELSE IF CheckData(r)
    THEN [r |-> IF r.next # 0 THEN [r EXCEPT !.read = FALSE, !.open = TRUE]
                ELSE [r EXCEPT !.read = FALSE, !.open = TRUE, !.last = 0,
                               !.next = GetData(r), !.taken = GetData(r)],
          text |-> Text(MsgLength(r.slots), Xor(Pads(c, r), {Open(c, r.phase)}))]
    ELSE [r |-> [r EXCEPT !.last = 0], text |-> Text(MsgLength(r.slots), Pads(c, r))]

SubmitClientCiphertext(c, r) ==
  LET g == GenerateCiphertext(c, r)
  IN Step(g.r, VerifiableSend(Home[c], Msg("CLIENT_CIPHERTEXT", c, r, g.text)))

-----------------------------------------------------------------------------
(* What everybody reads from a cleartext *)

\* The pads of a cleartext that did not cancel garble all of it.
Garbled(t, c) == \/ \E x \in t.bits : x.is = "pad"
                 \/ \E x \in t.bits : x.is = "noise" /\ x.c = c
Written(t, c) == {x \in t.bits : x.is = "slot" /\ x.c = c}
Lost(t, c) == ~Garbled(t, c) /\ Written(t, c) = {}
Flagged(t, c) == \/ \E x \in t.bits : x.is = "noise" /\ x.c = c /\ x.how = "flag"
                 \/ ~Garbled(t, c) /\ \E x \in Written(t, c) : x.accuse
Provable(t, c) == Garbled(t, c) /\ Garble(c, "unprovable") \notin t.bits

\* A slot that is lost or garbled keeps its length.
NextSlot(r, c) ==
  CASE r.slots[c] = 0 ->
         IF \E x \in r.text.bits : x.is = "open" /\ x.c = c
           THEN SlotHeaderLength ELSE 0
    [] r.slots[c] > 0 /\ (Garbled(r.text, c) \/ Lost(r.text, c)) -> r.slots[c]
    [] OTHER -> (CHOOSE x \in Written(r.text, c) : TRUE).next

\* The messages that the round pushes to its sink, with their owners; an accuser
\* fills its slot with zeros instead of its message, here message 0.
Pushed(r) ==
  LET full == {c \in Client : /\ r.slots[c] > 0
                              /\ ~Garbled(r.text, c)
                              /\ \E x \in Written(r.text, c) : x.msg # 0}
      In(c) == CHOOSE x \in Written(r.text, c) : TRUE
  IN {<<c, IF In(c).accuse THEN 0 ELSE In(c).msg>> : c \in full}

StartAccuse(r) == \E c \in Client : r.slots[c] > 0 /\ Flagged(r.text, c)

\* What it means for the owner n of a slot: send again, and accuse.
OwnSlotForgets(n, r) == r   \* mutant: nothing is sent again
OwnSlot(n, r) ==
  CASE n \in Client /\ r.slots[n] > 0 /\ Lost(r.text, n) ->
         [r EXCEPT !.read = FALSE, !.open = TRUE]
    [] n \in Client /\ r.slots[n] > 0 /\ Garbled(r.text, n) /\ ~r.accuse ->
         [r EXCEPT !.read = FALSE, !.open = TRUE, !.accuse = Provable(r.text, n)]
    [] OTHER -> r

PushOthers(n, r) ==   \* mutant: a client does not push its own message
  LET q == {x \in Pushed(r) : x[1] # n}
  IN [OwnSlot(n, r) EXCEPT !.slots = [c \in Client |-> NextSlot(r, c)],
                           !.out = IF q = {} THEN @ ELSE Append(@, q)]
ProcessCleartext(n, r) ==
  [OwnSlot(n, r) EXCEPT !.slots = [c \in Client |-> NextSlot(r, c)],
                        !.out = IF Pushed(r) = {} THEN @ ELSE Append(@, Pushed(r))]

\* StartBlameShuffle: every client sends its part of the blame shuffle.
StartBlameShuffle(n, r) ==
  Step(Complete(r, "STARTING_BLAME_SHUFFLE"),
       IF n \in Client THEN VerifiableBroadcastToServers(BlamePacket(n)) ELSE Silent)

-----------------------------------------------------------------------------
(* The states of a server, in order.  Each operator is the transition into *)
(* a state with its callback.                                              *)

\* SetupRngs, GenerateServerCiphertext: a pad for every client anybody heard,
\* and the ciphertexts that arrived here.
OwnPads(s, r) ==   \* mutant: pads only for the clients heard here
  {Pad(c, s, r.phase) : c \in DOMAIN r.got}
ServerPads(s, r) == {Pad(c, s, r.phase) : c \in r.online}
GenerateServerCiphertext(s, r) ==
  LET heard == DOMAIN r.got \cap r.online
  IN Text(MsgLength(r.slots),
          Xor(ServerPads(s, r), XorAll([c \in heard |-> r.got[c].bits])))

SubmitClientList(s, r) ==
  LET q == Complete(r, "WAIT_FOR_CLIENT_LISTS")
  IN Step(q, VerifiableBroadcastToServers(Msg("SERVER_CLIENT_LIST", s, q, q.online)))

SubmitCommit(s, r) ==
  LET q == [Complete(r, "WAIT_FOR_SERVER_COMMITS")
              EXCEPT !.mine = GenerateServerCiphertext(s, r)]
  IN Step(q, VerifiableBroadcastToServers(Msg("SERVER_COMMIT", s, q, Hash(q.mine))))

SubmitServerCiphertext(s, r) ==
  LET q == Complete(r, "WAIT_FOR_SERVER_CIPHERTEXT")
  IN Step(q, VerifiableBroadcastToServers(Msg("SERVER_CIPHERTEXT", s, q, q.mine)))

SignedHash(text, online) == Hash(<<text, online>>)

SignOwnClients(s, r) ==   \* mutant: signs for the clients it heard itself
  LET all == XorAll([t \in Server |-> r.ciphers[t].bits])
      q == [Complete(r, "WAIT_FOR_SERVER_VALIDATION")
              EXCEPT !.text = Text(MsgLength(r.slots), all), !.online = DOMAIN r.got]
  IN Step(q, VerifiableBroadcastToServers(
               Msg("SERVER_VALIDATION", s, q, SignedHash(q.text, q.online))))
SubmitValidation(s, r) ==
  LET all == XorAll([t \in Server |-> r.ciphers[t].bits])
      q == [Complete(r, "WAIT_FOR_SERVER_VALIDATION")
              EXCEPT !.text = Text(MsgLength(r.slots), all)]
  IN Step(q, VerifiableBroadcastToServers(
               Msg("SERVER_VALIDATION", s, q, SignedHash(q.text, q.online))))

\* Without clients the window closes at once.
SetOnlineClients(s, r) ==
  LET q == Complete(r, "WAIT_FOR_CLIENT_CIPHERTEXT")
  IN IF q.allowed = {} THEN SubmitClientList(s, q) ELSE Step(q, Silent)

\* CycleComplete and the next phase.
NextPhase(r) ==
  [r EXCEPT !.phase = @ + 1, !.online = {}, !.got = [c \in {} |-> NoText],
            !.ciphers = [s \in Server |-> NoText]]

PushCleartext(s, r) ==
  LET push == VerifiableBroadcastToClients(r,
                Msg("SERVER_CLEARTEXT", s, r,
                    [sigs |-> r.sigs, text |-> r.text, online |-> r.online]))
      q == ProcessCleartext(s, Complete(r, "PUSH_CLEARTEXT"))
      then == IF StartAccuse(r) THEN StartBlameShuffle(s, q)
              ELSE SetOnlineClients(s, NextPhase(q))
  IN Step(then.r, Also(push, then.out))

\* PROCESS_BOOTSTRAP and PREPARE_FOR_BULK, up to the first waiting state.
PrepareForBulk(n, r) ==
  IF n \in Server THEN SetOnlineClients(n, r)
  ELSE SubmitClientCiphertext(n, Complete(r, "WAIT_FOR_CLEARTEXT"))

-----------------------------------------------------------------------------
(* The handlers: the step of n on a message of m for its current state.    *)
(* Where the code throws, the message is dropped.                          *)

HandleClientCiphertext(n, r, m, body) ==
  LET q == [r EXCEPT !.online = @ \cup {m}, !.got = [c \in DOMAIN @ \cup {m} |-> IF c = m THEN body ELSE @[c]]]
  IN IF m \notin r.allowed \/ m \in r.online \/ body.len # MsgLength(r.slots)
       THEN Step(r, Silent)
     ELSE IF Cardinality(q.allowed) = Cardinality(DOMAIN q.got)
       THEN SubmitClientList(n, q)
       ELSE Step(q, Silent)

\* The wait for all servers that the four exchanges share.
Await(r, m, q, done) ==
  IF m \in r.heard THEN Step(r, Silent)
  ELSE IF q.heard = Server THEN done ELSE Step(q, Silent)

HandleServerClientList(n, r, m, body) ==
  LET q == [r EXCEPT !.heard = @ \cup {m}, !.online = @ \cup body]
  IN Await(r, m, q, SubmitCommit(n, q))

RevealAtFirstCommit(n, r, m, body) ==   \* mutant: does not wait for all commits
  SubmitServerCiphertext(n, [r EXCEPT !.heard = @ \cup {m}, !.commits[m] = body])
HandleServerCommit(n, r, m, body) ==
  LET q == [r EXCEPT !.heard = @ \cup {m}, !.commits[m] = body]
  IN Await(r, m, q, SubmitServerCiphertext(n, q))

HandleServerCiphertext(n, r, m, body) ==
  LET q == [r EXCEPT !.heard = @ \cup {m}, !.ciphers[m] = body]
  IN IF body.len # MsgLength(r.slots) \/ Hash(body) # r.commits[m]
       THEN Step(r, Silent)
       ELSE Await(r, m, q, SubmitValidation(n, q))

HandleServerValidation(n, r, m, body) ==
  LET q == [r EXCEPT !.heard = @ \cup {m}, !.sigs[m] = body]
  IN IF body # SignedHash(r.text, r.online)
       THEN Step(r, Silent)
       ELSE Await(r, m, q, PushCleartext(n, q))

Stopped(r) == [Complete(r, "FINISHED") EXCEPT !.todo = <<>>]

HandleServerCleartext(n, r, m, body) ==
  LET q == ProcessCleartext(n, [r EXCEPT !.text = body.text])
  IN IF m # Home[n] \/ body.text.len # MsgLength(r.slots)
       THEN Step(r, Silent)
     ELSE IF \E s \in Server : body.sigs[s] # SignedHash(body.text, body.online)
       THEN Step(Stopped(r), Silent)
     ELSE IF StartAccuse([r EXCEPT !.text = body.text])
       THEN StartBlameShuffle(n, q)
       ELSE SubmitClientCiphertext(n, Complete(NextPhase(q), "WAIT_FOR_CLEARTEXT"))

Handle(n, r, m, msg) ==
  CASE msg.type = "CLIENT_CIPHERTEXT" -> HandleClientCiphertext(n, r, m, msg.body)
    [] msg.type = "SERVER_CLIENT_LIST" -> HandleServerClientList(n, r, m, msg.body)
    [] msg.type = "SERVER_COMMIT" -> HandleServerCommit(n, r, m, msg.body)
    [] msg.type = "SERVER_CIPHERTEXT" -> HandleServerCiphertext(n, r, m, msg.body)
    [] msg.type = "SERVER_VALIDATION" -> HandleServerValidation(n, r, m, msg.body)
    [] msg.type = "SERVER_CLEARTEXT" -> HandleServerCleartext(n, r, m, msg.body)

-----------------------------------------------------------------------------
(* Actions *)

Idle == \A n \in Node : node[n].todo = <<>>
Running(n) == node[n].phase < MaxPhase

\* What n sends goes on its edges; on one that has closed it is lost.
Sent(ch, n, out) ==
  [ch EXCEPT ![n] = [m \in Node |->
     IF ch[n][m] # <<>> /\ ch[n][m][Len(ch[n][m])].type = "CLOSED"
       THEN ch[n][m] ELSE ch[n][m] \o out[m]]]

Take(n, step, ch) == /\ node' = [node EXCEPT ![n] = step.r]
                     /\ chan' = Sent(ch, n, step.out)

\* RoundStateMachine::ProcessData, by the current state of n.
ProcessData(n, r, msg) ==
  CASE Stale(r, msg) -> Step(r, Silent)
    [] ~Stale(r, msg) /\ Early(r, msg) ->
         Step([r EXCEPT !.early = Append(@, msg)], Silent)
    [] OTHER -> Handle(n, r, msg.from, msg)

\* n hears that its edge to m has closed.  The shuffle, too, stops for a lost server
\* and ignores a lost client (NeffShuffleRound::HandleDisconnect).
HandleDisconnect(n, r, m) ==
  IF m \in Server THEN Stopped(r)
  ELSE [r EXCEPT !.allowed = @ \ {m}]

\* The next thing on the edge from m to n.  The round of a packet of the blame
\* shuffle is not found: ProcessPacket knows only the headers 0 and 1.
Receive(m, n) ==
  /\ Idle /\ Running(n) /\ chan[m][n] # <<>>
  /\ LET msg == Head(chan[m][n])
         r == node[n]
     IN Take(n, CASE r.st = "FINISHED" \/ msg.type = "BLAME_PACKET" -> Step(r, Silent)
                  [] r.st # "FINISHED" /\ msg.type = "CLOSED" ->
                       Step(HandleDisconnect(n, r, m), Silent)
                  [] OTHER -> ProcessData(n, r, msg),
             [chan EXCEPT ![m][n] = Tail(@)])
  /\ UNCHANGED bounded

\* The early messages, one by one, in the state that has been reached.
Replay(n) ==
  /\ node[n].todo # <<>>
  /\ LET r == [node[n] EXCEPT !.todo = Tail(@)]
     IN Take(n, ProcessData(n, r, Head(node[n].todo)), chan)
  /\ UNCHANGED bounded

\* The shuffle of the pseudonym keys ends at n.
ShuffleFinished(n) ==
  /\ Idle /\ node[n].st = "SHUFFLING"
  /\ Take(n, PrepareForBulk(n, node[n]), chan)
  /\ UNCHANGED bounded

\* The timer of the window: the hard deadline, or the one that is set when 95
\* of 100 clients have been heard.
ConcludeClientCiphertextSubmission(s) ==
  /\ Idle /\ Running(s) /\ node[s].st = "WAIT_FOR_CLIENT_CIPHERTEXT"
  /\ \/ node[s].allowed \subseteq node[s].online /\ UNCHANGED late
     \/ ~(node[s].allowed \subseteq node[s].online) /\ late < MaxLate /\ late' = late + 1
  /\ Take(s, SubmitClientList(s, node[s]), chan)
  /\ UNCHANGED <<noise, leave>>

\* A client's ciphertext garbles the slot of c.
GarbleSlot(d, c) ==
  LET q == chan[d][Home[d]]
  IN /\ Idle /\ noise < MaxNoise /\ noise' = noise + 1
     /\ q # <<>> /\ q[Len(q)].type = "CLIENT_CIPHERTEXT"
     /\ node[d].slots[c] > 0
     /\ \E how \in NoiseKinds :
          chan' = [chan EXCEPT ![d][Home[d]][Len(q)].body.bits =
                     Xor(@, {Garble(c, how)})]
     /\ UNCHANGED <<node, late, leave>>

Neighbours(a) == (Server \ {a}) \cup {c \in Client : Home[c] = a}

\* An edge closes: what is in flight still arrives, then the end.
CloseEdge(a, b) ==
  /\ Idle /\ leave < MaxLeave /\ leave' = leave + 1
  /\ \A m \in {a, b} : node[m].st # "FINISHED"
  /\ chan' = [chan EXCEPT ![a][b] = Append(@, Closed(a)), ![b][a] = Append(@, Closed(b))]
  /\ UNCHANGED <<node, late, noise>>

Init ==
  /\ node = [n \in Node |-> NewRound(n)]
  /\ chan = [a \in Node |-> [b \in Node |-> <<>>]]
  /\ late = 0 /\ noise = 0 /\ leave = 0

System == \/ \E n \in Node : Replay(n) \/ ShuffleFinished(n)
          \/ \E m, n \in Node : Receive(m, n)

Next == \/ System
        \/ \E s \in Server : ConcludeClientCiphertextSubmission(s)
        \/ \E c, d \in Client : GarbleSlot(d, c)
        \/ \E a \in Server : \E b \in Neighbours(a) : CloseEdge(a, b)

Spec == Init /\ [][Next]_vars

-----------------------------------------------------------------------------
(* Properties *)

\* Types of the round objects: states, phases within the bound, sets of the right
\* nodes, slot lengths.
TypeOK ==
  \A n \in Node :
    /\ node[n].st \in States
    /\ node[n].phase \in 0..MaxPhase
    /\ node[n].online \subseteq Client /\ node[n].heard \subseteq Server
    /\ node[n].slots \in [Client -> Nat]
    /\ DOMAIN node[n].got \subseteq Client

\* In every cleartext that a server computes (SubmitValidation) all pads have
\* cancelled: the servers used one list of clients, and each listed ciphertext
\* was XORed in by exactly one of them, whatever the order of lists and windows.
PadsCancel ==
  \A s \in Server : \A x \in node[s].text.bits : x.is # "pad"

\* Servers that wait for signatures in the same phase have computed the same
\* cleartext and set of clients, so that no honest signature is refused
\* (HandleServerValidation) and the exchange cannot hang there.
SameCleartext ==
  \A s, t \in {u \in Server : node[u].st = "WAIT_FOR_SERVER_VALIDATION"} :
    node[s].phase = node[t].phase =>
      node[s].text = node[t].text /\ node[s].online = node[t].online

\* While a server's ciphertext is in flight every server is bound to its own:
\* it has computed it for that phase and will not do so again (the commits come
\* before the ciphertexts, SubmitServerCiphertext).
CommitBeforeReveal ==
  \A s, t, n \in Server : \A i \in DOMAIN chan[s][n] :
    LET msg == chan[s][n][i]
    IN msg.type = "SERVER_CIPHERTEXT" =>
         \/ node[t].phase > msg.phase
         \/ node[t].st \in {"WAIT_FOR_SERVER_COMMITS", "WAIT_FOR_SERVER_CIPHERTEXT",
                            "WAIT_FOR_SERVER_VALIDATION", "STARTING_BLAME_SHUFFLE",
                            "FINISHED"}

\* The messages of c that n was given, by the batch they came in.
Given(n, c) ==
  LET has == {i \in DOMAIN node[n].out : \E x \in node[n].out[i] : x[1] = c}
  IN [i \in has |-> (CHOOSE x \in node[n].out[i] : x[1] = c)[2]]

\* Everybody is given the messages of a client in order, none twice and none left
\* out, although a client whose slot was lost or garbled sends it again
\* (read, last_msg and next_msg in GenerateSlotMessage and ProcessCleartext).
InOrder ==
  \A n \in Node, c \in Client : \A i \in DOMAIN Given(n, c) :
    LET k == Given(n, c)[i]
    IN k # 0 => k = Cardinality({j \in DOMAIN Given(n, c) : j <= i})

\* Windows that are never cut short let every message through to everybody.
AllGiven == \A n \in Node, c \in Client : Cardinality(DOMAIN Given(n, c)) = MaxMsg
Delivered == <>AllGiven

\* What the exchange promises: one sequence of batches that all nodes are given
\* a beginning of.
Outputs == [n \in Node |-> node[n].out]
Broadcast == INSTANCE PhaseBroadcast WITH given <- Outputs

\* The exchange implements it: ProcessCleartext and PushData give every node the
\* batches of one sequence, whatever windows close early and edges break.
BroadcastSpec == Broadcast!Spec
=============================================================================
