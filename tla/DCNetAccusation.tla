-------------------------- MODULE DCNetAccusation ---------------------------
(***************************************************************************)
(* The accusation phase of the DC-net (Anonymity/CSDCNetRound), from the   *)
(* end of the blame shuffle on.  An accusation names one bit of a slot     *)
(* that its owner sent as 0 and that came out as 1.  The servers exchange  *)
(* what they know of that bit, ask the first client whose bit differs from *)
(* the pads the servers claim for a rebuttal, and sign a verdict.          *)
(*                                                                         *)
(* Servers are 0..NServers-1 and clients follow.  Either a client sent a   *)
(* wrong bit or a server uses and claims a wrong pad for a client.  A      *)
(* message that comes before the state that consumes it is logged and      *)
(* replayed in that state; here it stays in net until then.                *)
(***************************************************************************)
EXTENDS Naturals, FiniteSets, FiniteSetsExt, Sequences, TLAPS

CONSTANTS
  NServers, NClients,
  MaxSink,     \* bound: entries in the output of the blame shuffle
  MaxLies      \* bound: rebuttals in which the client that is to blame names anybody

ASSUME SizeAssumption == NServers \in Nat \ {0} /\ NClients \in Nat

Server == 0..(NServers - 1)
Client == NServers..(NServers + NClients - 1)
Node == Server \cup Client

VARIABLES
  fact,      \* what really happened at the accused bit
  sink,      \* output of the blame shuffle: which entries are valid accusations
  node,      \* node[n]: the round object of n
  net,       \* messages sent and not yet consumed
  lies

vars == <<fact, sink, node, net, lies>>

None == NServers + NClients

-----------------------------------------------------------------------------
(* The accused bit *)

\* bad: the one to blame; at: the client whose bit is wrong; pad[c][s]: the bit
\* that c and s share; aligned: the bit is the first of its byte; phase: that of
\* the disrupted exchange, by which a client without an excuse picks a server.
Facts ==
  {f \in [bad : Node, at : Client, pad : [Client -> [Server -> BOOLEAN]],
          aligned : BOOLEAN, phase : Server] :
     f.bad \in Client => f.at = f.bad}

Parity(S) == Cardinality(S) % 2 = 1

\* What c sent: the XOR of its pads, or the opposite.
SentBit(c) == Parity({s \in Server : fact.pad[c][s]}) # (fact.bad = c)
\* What s says its pad for c was.
ClaimedPad(c, s) == fact.pad[c][s] # (fact.bad = s /\ fact.at = c)

\* GetBitsAtIndex: the ciphertexts this server received, and its own pads.
\* Client c is connected to server c % NServers.
GetBitsAtIndex(s) ==
  [clients |-> [c \in Client |-> c % NServers = s /\ SentBit(c)],
   mine |-> [c \in Client |-> ClaimedPad(c, s)]]

-----------------------------------------------------------------------------
(* Messages *)

Msg(type, from, to, body) == [type |-> type, from |-> from, to |-> to, body |-> body]
ToServers(type, s, body) == {Msg(type, s, t, body) : t \in Server}

NewNode(n) ==
  [st |-> "SHUFFLING", blame |-> 0, bits |-> {}, expected |-> None,
   serverBits |-> [s \in Server |-> FALSE], bad |-> None, sigs |-> {}]

Init ==
  /\ fact \in Facts
  /\ sink \in UNION {[1..k -> BOOLEAN] : k \in 0..MaxSink}
  /\ node = [n \in Node |-> NewNode(n)]
  /\ net = {} /\ lies = 0

-----------------------------------------------------------------------------
(* Servers *)

\* ProcessBlameShuffle and TransmitBlameBits: the first valid accusation.
ProcessBlameShuffle(s) ==
  LET valid == {i \in DOMAIN sink : sink[i]}
  IN /\ node[s].st = "SHUFFLING"
     /\ IF valid = {}
          THEN /\ node' = [node EXCEPT ![s].st = "FALSE_ACCUSATION"]
               /\ UNCHANGED net
          ELSE /\ node' = [node EXCEPT ![s].st = "WAITING_FOR_BLAME_BITS",
                                       ![s].blame = Min(valid)]
               /\ net' = net \cup ToServers("SERVER_BLAME_BITS", s, GetBitsAtIndex(s))
     /\ UNCHANGED <<fact, sink, lies>>

\* FindMismatch over the blame bits of all servers.
Actual(bits, c) == Parity({b \in bits : b[2].clients[c]})
Expected(bits, c) == Parity({b \in bits : b[2].mine[c]})
Mismatch(bits) == {c \in Client : Actual(bits, c) # Expected(bits, c)}
FindMismatch(bits) == Min(Mismatch(bits))
ServerBits(bits, c) == [s \in Server |-> \E b \in bits : b[1] = s /\ b[2].mine[c]]

\* RequestRebuttal.
HomeAsks(s, r, m) ==   \* mutant: only the server of the client asks it
  LET c == FindMismatch(r.bits)
      q == [r EXCEPT !.st = "WAIT_FOR_CLIENT_REBUTTAL", !.expected = c,
                     !.serverBits = ServerBits(r.bits, c)]
  IN /\ node' = [node EXCEPT ![s] = q]
     /\ net' = (net \ {m}) \cup
                 {x \in {Msg("REBUTTAL_REQUEST", s, c, q.serverBits)} : c % NServers = s}
RequestRebuttal(s, r, m) ==
  IF Mismatch(r.bits) = {}
    THEN /\ node' = [node EXCEPT ![s] = [r EXCEPT !.st = "FALSE_ACCUSATION"]]
         /\ net' = net \ {m}
    ELSE LET c == FindMismatch(r.bits)
             q == [r EXCEPT !.st = "WAIT_FOR_CLIENT_REBUTTAL", !.expected = c,
                            !.serverBits = ServerBits(r.bits, c)]
         IN /\ node' = [node EXCEPT ![s] = q]
            /\ net' = (net \ {m}) \cup {Msg("REBUTTAL_REQUEST", s, c, q.serverBits)}

HandleBlameBits(s, m) ==
  LET r == [node[s] EXCEPT !.bits = @ \cup {<<m.from, m.body>>}]
  IN /\ m.type = "SERVER_BLAME_BITS" /\ node[s].st = "WAITING_FOR_BLAME_BITS"
     /\ IF Cardinality(r.bits) = NServers
          THEN RequestRebuttal(s, r, m)
          ELSE node' = [node EXCEPT ![s] = r] /\ net' = net \ {m}

\* Who is to blame when client c names server idx.  The test of the index is
\* the wrong way round: an index in range is taken for an invalid one, so the
\* proof of the shared pad is never looked at.
Judge(c, idx, bits) ==
  IF idx < NServers \/ fact.pad[c][idx] = bits[idx] THEN c ELSE idx

\* HandleRebuttal, then SubmitVerdictSignature.
HandleRebuttal(s, m) ==
  LET bad == Judge(m.from, m.body, node[s].serverBits)
  IN /\ m.type = "CLIENT_REBUTTAL" /\ node[s].st = "WAIT_FOR_CLIENT_REBUTTAL"
     /\ m.from = node[s].expected
     /\ node' = [node EXCEPT ![s].bad = bad, ![s].st = "WAIT_FOR_VERDICT_SIGNATURE"]
     /\ net' = (net \ {m})
                 \cup ToServers("VERDICT_SIGNATURE", s, <<node[s].blame, bad>>)

\* HandleVerdictSignature: one for another verdict is dropped.  With all of them
\* PushVerdict tells the clients, and the round ends.
VerdictOfOne(s, m) ==   \* mutant: one signature is enough
  LET v == <<node[s].blame, node[s].bad>>
  IN /\ m.type = "VERDICT_SIGNATURE" /\ node[s].st = "WAIT_FOR_VERDICT_SIGNATURE"
     /\ node' = [node EXCEPT ![s].st = "FINISHED"]
     /\ net' = (net \ {m}) \cup {Msg("VERDICT", s, c, [v |-> v, sigs |-> Server]) :
                                 c \in {d \in Client : d % NServers = s}}
HandleVerdictSignature(s, m) ==
  LET v == <<node[s].blame, node[s].bad>>
      sigs == IF m.body = v THEN node[s].sigs \cup {m.from} ELSE node[s].sigs
      done == sigs = Server
  IN /\ m.type = "VERDICT_SIGNATURE" /\ node[s].st = "WAIT_FOR_VERDICT_SIGNATURE"
     /\ node' = [node EXCEPT ![s].sigs = sigs, ![s].st = IF done THEN "FINISHED" ELSE @]
     /\ net' = (net \ {m}) \cup
                 IF done THEN {Msg("VERDICT", s, c, [v |-> v, sigs |-> sigs]) :
                               c \in {d \in Client : d % NServers = s}}
                 ELSE {}

-----------------------------------------------------------------------------
(* Clients *)

\* The client has nothing to do with the output of the shuffle.
ClientShuffleDone(c) ==
  /\ node[c].st = "SHUFFLING"
  /\ node' = [node EXCEPT ![c].st = "WAITING_FOR_REQUEST_OR_VERDICT"]
  /\ UNCHANGED <<fact, sink, net, lies>>

\* GetRebuttal: the first server that claims another pad bit than c computes.
\* The block c computes is a byte short when the bit is the first of its byte:
\* the bit then reads as 0.
ComputedPad(c, s) == ~fact.aligned /\ fact.pad[c][s]
GetRebuttal(c, bits) ==
  LET differ == {s \in Server : ComputedPad(c, s) # bits[s]}
  IN IF differ # {} THEN Min(differ) ELSE fact.phase

HandleRequest(c, m) ==
  /\ m.type = "REBUTTAL_REQUEST" /\ node[c].st = "WAITING_FOR_REQUEST_OR_VERDICT"
  /\ \/ /\ net' = (net \ {m}) \cup
                    {Msg("CLIENT_REBUTTAL", c, m.from, GetRebuttal(c, m.body))}
        /\ UNCHANGED lies
     \/ /\ fact.bad = c /\ lies < MaxLies /\ lies' = lies + 1
        /\ \E s \in Server : net' = (net \ {m}) \cup {Msg("CLIENT_REBUTTAL", c, m.from, s)}
  /\ UNCHANGED node

\* The verdict counts when every server has signed it.
HandleVerdict(c, m) ==
  /\ m.type = "VERDICT" /\ node[c].st = "WAITING_FOR_REQUEST_OR_VERDICT"
  /\ node' = IF m.body.sigs = Server
               THEN [node EXCEPT ![c].st = "FINISHED", ![c].blame = m.body.v[1],
                                 ![c].bad = m.body.v[2]]
               ELSE node
  /\ net' = net \ {m}

-----------------------------------------------------------------------------

Receive(n, m) ==
  /\ m.to = n
  /\ \/ /\ \/ HandleBlameBits(n, m) \/ HandleRebuttal(n, m)
           \/ HandleVerdictSignature(n, m) \/ HandleVerdict(n, m)
        /\ UNCHANGED lies
     \/ HandleRequest(n, m)
  /\ UNCHANGED <<fact, sink>>

Next == \/ \E s \in Server : ProcessBlameShuffle(s)
        \/ \E c \in Client : ClientShuffleDone(c)
        \/ \E n \in Node, m \in net : Receive(n, m)

Spec == Init /\ [][Next]_vars

\* Edges deliver, and event loops run.
FairSpec == Spec /\ WF_vars(Next)

-----------------------------------------------------------------------------
(* Properties *)

\* A verdict that any node ends with is that of every server, even when the
\* accused client gives different servers different rebuttals
\* (HandleVerdictSignature, PushVerdict, HandleRebuttalOrVerdict).
OneVerdict ==
  \A n \in Node, s \in Server :
    node[n].st = "FINISHED" =>
      node[s].blame = node[n].blame /\ node[s].bad = node[n].bad

\* With a valid accusation everybody ends with a verdict, unless the accused client
\* lies: it may answer different servers differently (HandleRebuttal).
Accused == \E i \in DOMAIN sink : sink[i]
AllFinished == \A n \in Node : node[n].st = "FINISHED"
VerdictReached == Accused ~> (AllFinished \/ lies > 0)

\* DESIGN: the servers "agree on whether the client or server misbehaved".  The
\* verdict names the one that did, when the accused client can compute its pads.
VerdictNamesCulprit ==
  \A n \in Node : node[n].st = "FINISHED" /\ ~fact.aligned => node[n].bad = fact.bad

-----------------------------------------------------------------------------
(* Proof that all who end the phase end with one verdict, for every number   *)
(* of servers and clients, every placing of the fault and every lie of the   *)
(* accused.  The invariant: a server signs one verdict and keeps to it, so   *)
(* that what it has signed is true of it for ever.                           *)

Verdict(r) == <<r.blame, r.bad>>
Signing == {"WAIT_FOR_VERDICT_SIGNATURE", "FINISHED"}

\* The record of a node, whatever is in it.
Fields == {"st", "blame", "bits", "expected", "serverBits", "bad", "sigs"}
IsNode(r) == r = [f \in Fields |-> r[f]]

\* Server t has signed verdict v.
Signs(nd, t, v) == t \in Server /\ nd[t].st \in Signing /\ v = Verdict(nd[t])
AllSign(nd, v) == \A t \in Server : Signs(nd, t, v)

\* What holds of server s, of client c and of a message.
ServerSays(nd, s) ==
  /\ nd[s].st # "WAITING_FOR_REQUEST_OR_VERDICT"
  /\ nd[s].st \notin Signing => nd[s].sigs = {}
  /\ \A t \in nd[s].sigs : Signs(nd, t, Verdict(nd[s]))
  /\ nd[s].st = "FINISHED" => nd[s].sigs = Server
ClientSays(nd, c) ==
  /\ nd[c].st \in {"SHUFFLING", "WAITING_FOR_REQUEST_OR_VERDICT", "FINISHED"}
  /\ nd[c].st = "FINISHED" => AllSign(nd, Verdict(nd[c]))
Truth(nd, m) ==
  /\ m.type = "VERDICT_SIGNATURE" => Signs(nd, m.from, m.body)
  /\ m.type = "VERDICT" /\ m.body.sigs = Server => AllSign(nd, m.body.v)

Signed(nd, ne) ==
  /\ nd = [n \in Node |-> nd[n]]
  /\ \A n \in Node : IsNode(nd[n])
  /\ \A s \in Server : ServerSays(nd, s)
  /\ \A c \in Client : ClientSays(nd, c)
  /\ \A m \in ne : Truth(nd, m)
Inv == Signed(node, net)

LEMMA Disjoint == Server \cap Client = {} /\ 0 \in Server
BY SizeAssumption DEF Server, Client

\* Node n goes on to q and sends the messages new: what others have signed stays,
\* and what n has signed too.
LEMMA Goes ==
  ASSUME NEW nd, NEW ne, Signed(nd, ne), NEW n \in Node, NEW q, IsNode(q),
         NEW gone, NEW new,
         nd[n].st \in Signing /\ n \in Server =>
           q.st \in Signing /\ Verdict(q) = Verdict(nd[n]),
         n \in Server => ServerSays([nd EXCEPT ![n] = q], n),
         n \in Client => ClientSays([nd EXCEPT ![n] = q], n),
         \A m \in new : Truth([nd EXCEPT ![n] = q], m)
  PROVE  Signed([nd EXCEPT ![n] = q], (ne \ gone) \cup new)
<1> DEFINE nx == [nd EXCEPT ![n] = q]
<1>1. /\ nx = [k \in Node |-> nx[k]]
      /\ \A k \in Node : nx[k] = IF k = n THEN q ELSE nd[k]
  BY DEF Signed
<1> HIDE DEF nx
<1>2. \A t, v : Signs(nd, t, v) => Signs(nx, t, v)
  BY <1>1 DEF Signs, Node
<1>3. \A v : AllSign(nd, v) => AllSign(nx, v)
  BY <1>2 DEF AllSign
<1>4. \A k \in Node : IsNode(nx[k])
  BY <1>1 DEF Signed
<1>5. \A s \in Server : s # n => ServerSays(nx, s)
  BY <1>1, <1>2 DEF Signed, ServerSays, Node
<1>6. \A c \in Client : c # n => ClientSays(nx, c)
  BY <1>1, <1>3 DEF Signed, ClientSays, Node
<1>7. \A m \in ne : Truth(nx, m)
  BY <1>2, <1>3 DEF Signed, Truth
<1>8. n \in Server => ServerSays(nx, n)
  BY DEF nx
<1>9. n \in Client => ClientSays(nx, n)
  BY DEF nx
<1>10. \A m \in new : Truth(nx, m)
  BY DEF nx
<1>11. Signed(nx, (ne \ gone) \cup new)
  BY <1>1, <1>4, <1>5, <1>6, <1>7, <1>8, <1>9, <1>10 DEF Signed
<1> QED
  BY <1>11 DEF nx

-----------------------------------------------------------------------------
(* The steps *)

\* A message of another kind says nothing.
LEMMA OtherTruth ==
  ASSUME NEW nd, NEW type, NEW from, NEW to, NEW body,
         type \notin {"VERDICT_SIGNATURE", "VERDICT"}
  PROVE  Truth(nd, Msg(type, from, to, body))
BY DEF Truth, Msg

\* A server that has not signed goes on to q without signing.
Unsigned(s, q, gone, new) ==
  /\ IsNode(q) /\ q.st \notin Signing /\ q.st # "WAITING_FOR_REQUEST_OR_VERDICT"
  /\ q.sigs = {}
  /\ \A m \in new : m.type \notin {"VERDICT_SIGNATURE", "VERDICT"}
  /\ node' = [node EXCEPT ![s] = q] /\ net' = (net \ gone) \cup new

LEMMA GoesUnsigned ==
  ASSUME NEW s \in Server, Inv, node[s].st \notin Signing,
         NEW q, NEW gone, NEW new, Unsigned(s, q, gone, new)
  PROVE  Inv'
<1> USE DEF Unsigned
<1>1. s \in Node /\ s \notin Client
  BY Disjoint DEF Node
<1>2. [node EXCEPT ![s] = q][s] = q
  BY <1>1 DEF Inv, Signed
<1>3. ServerSays([node EXCEPT ![s] = q], s)
  BY <1>2 DEF ServerSays, Signing
<1>4. \A m \in new : Truth([node EXCEPT ![s] = q], m)
  BY DEF Truth
<1>5. Signed([node EXCEPT ![s] = q], (net \ gone) \cup new)
  BY <1>1, <1>3, <1>4, Goes DEF Inv
<1> QED
  BY <1>5 DEF Inv

LEMMA ProcessBlameShuffleSigned ==
  ASSUME Inv, NEW s \in Server, ProcessBlameShuffle(s)
  PROVE  Inv'
<1>1. /\ node[s].st = "SHUFFLING" /\ node[s].st \notin Signing /\ IsNode(node[s])
      /\ node[s].sigs = {} /\ s \in DOMAIN node
  BY DEF Inv, Signed, ServerSays, ProcessBlameShuffle, Signing, Node
<1>2. ASSUME node' = [node EXCEPT ![s].st = "FALSE_ACCUSATION"], net' = net
      PROVE  \E q, gone, new : Unsigned(s, q, gone, new)
  <2> DEFINE q == [node[s] EXCEPT !.st = "FALSE_ACCUSATION"]
  <2>1. node' = [node EXCEPT ![s] = q] /\ net' = (net \ {}) \cup {}
    BY <1>2
  <2>2. IsNode(q) /\ q.st = "FALSE_ACCUSATION" /\ q.sigs = {}
    BY <1>1 DEF IsNode, Fields
  <2> HIDE DEF q
  <2> QED
    BY <2>1, <2>2 DEF Unsigned, Signing
<1>3. ASSUME NEW b,
             node' = [node EXCEPT ![s].st = "WAITING_FOR_BLAME_BITS", ![s].blame = b],
             net' = net \cup ToServers("SERVER_BLAME_BITS", s, GetBitsAtIndex(s))
      PROVE  \E q, gone, new : Unsigned(s, q, gone, new)
  <2> DEFINE q == [node[s] EXCEPT !.st = "WAITING_FOR_BLAME_BITS", !.blame = b]
             new == ToServers("SERVER_BLAME_BITS", s, GetBitsAtIndex(s))
  <2>1. node' = [node EXCEPT ![s] = q] /\ net' = (net \ {}) \cup new
    BY <1>1, <1>3
  <2>2. IsNode(q) /\ q.st = "WAITING_FOR_BLAME_BITS" /\ q.sigs = {}
    BY <1>1 DEF IsNode, Fields
  <2>3. \A x \in new : x.type \notin {"VERDICT_SIGNATURE", "VERDICT"}
    BY DEF ToServers, Msg
  <2> HIDE DEF q, new
  <2>4. Unsigned(s, q, {}, new)
    BY <2>1, <2>2, <2>3 DEF Unsigned, Signing
  <2> QED
    BY <2>4
<1>4. \E q, gone, new : Unsigned(s, q, gone, new)
  BY <1>2, <1>3 DEF ProcessBlameShuffle
<1> QED
  BY <1>1, <1>4, GoesUnsigned

LEMMA HandleBlameBitsSigned ==
  ASSUME Inv, NEW s \in Server, NEW m, HandleBlameBits(s, m)
  PROVE  Inv'
<1> DEFINE r == [node[s] EXCEPT !.bits = @ \cup {<<m.from, m.body>>}]
<1>1. /\ node[s].st \notin Signing /\ s \in Node /\ IsNode(node[s]) /\ node[s].sigs = {}
      /\ node[s].st = "WAITING_FOR_BLAME_BITS"
  BY DEF Inv, Signed, ServerSays, HandleBlameBits, Signing, Node
<1>2. IsNode(r) /\ r.st = "WAITING_FOR_BLAME_BITS" /\ r.sigs = {}
  BY <1>1 DEF IsNode, Fields
<1>3. \/ RequestRebuttal(s, r, m)
      \/ node' = [node EXCEPT ![s] = r] /\ net' = net \ {m}
  BY DEF HandleBlameBits
<1> HIDE DEF r
<1>4. ASSUME node' = [node EXCEPT ![s] = r], net' = net \ {m}
      PROVE  \E q, gone, new : Unsigned(s, q, gone, new)
  <2>1. net' = (net \ {m}) \cup {}
    BY <1>4
  <2>2. Unsigned(s, r, {m}, {})
    BY <1>2, <1>4, <2>1 DEF Unsigned, Signing
  <2> QED
    BY <2>2
<1>5. ASSUME node' = [node EXCEPT ![s] = [r EXCEPT !.st = "FALSE_ACCUSATION"]],
             net' = net \ {m}
      PROVE  \E q, gone, new : Unsigned(s, q, gone, new)
  <2> DEFINE q == [r EXCEPT !.st = "FALSE_ACCUSATION"]
  <2>1. IsNode(q) /\ q.st = "FALSE_ACCUSATION" /\ q.sigs = {}
    BY <1>2 DEF IsNode, Fields
  <2>2. node' = [node EXCEPT ![s] = q] /\ net' = (net \ {m}) \cup {}
    BY <1>5
  <2> HIDE DEF q
  <2> QED
    BY <2>1, <2>2 DEF Unsigned, Signing
<1>6. ASSUME NEW c, NEW b,
             LET q == [r EXCEPT !.st = "WAIT_FOR_CLIENT_REBUTTAL", !.expected = c, !.serverBits = b]
             IN /\ node' = [node EXCEPT ![s] = q]
                /\ net' = (net \ {m}) \cup {Msg("REBUTTAL_REQUEST", s, c, q.serverBits)}
      PROVE  \E q, gone, new : Unsigned(s, q, gone, new)
  <2> DEFINE q == [r EXCEPT !.st = "WAIT_FOR_CLIENT_REBUTTAL", !.expected = c, !.serverBits = b]
             new == {Msg("REBUTTAL_REQUEST", s, c, q.serverBits)}
  <2>1. IsNode(q) /\ q.st = "WAIT_FOR_CLIENT_REBUTTAL" /\ q.sigs = {}
    BY <1>2 DEF IsNode, Fields
  <2>2. node' = [node EXCEPT ![s] = q] /\ net' = (net \ {m}) \cup new
    BY <1>6
  <2>3. \A x \in new : x.type \notin {"VERDICT_SIGNATURE", "VERDICT"}
    BY DEF Msg
  <2> HIDE DEF q, new
  <2>4. Unsigned(s, q, {m}, new)
    BY <2>1, <2>2, <2>3 DEF Unsigned, Signing
  <2> QED
    BY <2>4
<1>7. \E q, gone, new : Unsigned(s, q, gone, new)
  BY <1>3, <1>4, <1>5, <1>6 DEF RequestRebuttal
<1> QED
  BY <1>1, <1>7, GoesUnsigned DEF Signing

LEMMA HandleRebuttalSigned ==
  ASSUME Inv, NEW s \in Server, NEW m, HandleRebuttal(s, m)
  PROVE  Inv'
<1> DEFINE bad == Judge(m.from, m.body, node[s].serverBits)
<1>1. /\ node[s].st = "WAIT_FOR_CLIENT_REBUTTAL" /\ node[s].st \notin Signing
      /\ IsNode(node[s]) /\ node[s].sigs = {} /\ s \in DOMAIN node
      /\ s \in Node /\ s \notin Client
  BY Disjoint DEF Inv, Signed, ServerSays, HandleRebuttal, Signing, Node
<1>2. /\ node' = [node EXCEPT ![s].bad = bad, ![s].st = "WAIT_FOR_VERDICT_SIGNATURE"]
      /\ net' = (net \ {m}) \cup ToServers("VERDICT_SIGNATURE", s, <<node[s].blame, bad>>)
  BY DEF HandleRebuttal
<1> DEFINE q == [node[s] EXCEPT !.bad = bad, !.st = "WAIT_FOR_VERDICT_SIGNATURE"]
           new == ToServers("VERDICT_SIGNATURE", s, <<node[s].blame, bad>>)
           nx == [node EXCEPT ![s] = q]
<1> HIDE DEF bad
<1>3. node' = nx /\ net' = (net \ {m}) \cup new
  BY <1>1, <1>2
<1>4. /\ IsNode(q) /\ q.st = "WAIT_FOR_VERDICT_SIGNATURE" /\ q.sigs = {}
      /\ q.blame = node[s].blame /\ q.bad = bad
  BY <1>1 DEF IsNode, Fields
<1>5. nx[s] = q
  BY <1>1
<1> HIDE DEF q, nx
<1>6. ServerSays(nx, s)
  BY <1>4, <1>5 DEF ServerSays, Signing
<1>7. \A x \in new : Truth(nx, x)
  <2> TAKE x \in new
  <2>1. x.type = "VERDICT_SIGNATURE" /\ x.from = s /\ x.body = <<q.blame, q.bad>>
    BY <1>4 DEF ToServers, Msg
  <2> QED
    BY <1>4, <1>5, <2>1 DEF Truth, Signs, Signing, Verdict
<1> HIDE DEF new
<1>8. Signed(nx, (net \ {m}) \cup new)
  BY <1>1, <1>4, <1>6, <1>7, Goes DEF Inv, nx
<1> QED
  BY <1>3, <1>8 DEF Inv

\* With the signatures of all servers, all have signed the verdict of this one.
LEMMA HandleVerdictSignatureSigned ==
  ASSUME Inv, NEW s \in Server, NEW m \in net, HandleVerdictSignature(s, m)
  PROVE  Inv'
<1> DEFINE v == <<node[s].blame, node[s].bad>>
           sigs == IF m.body = v THEN node[s].sigs \cup {m.from} ELSE node[s].sigs
           done == sigs = Server
           to == IF done THEN "FINISHED" ELSE node[s].st
           new == IF done THEN {Msg("VERDICT", s, c, [v |-> v, sigs |-> sigs]) :
                                c \in {d \in Client : d % NServers = s}}
                  ELSE {}
           q == [node[s] EXCEPT !.sigs = sigs, !.st = to]
           nx == [node EXCEPT ![s] = q]
<1>1. /\ node[s].st = "WAIT_FOR_VERDICT_SIGNATURE" /\ node[s].st \in Signing
      /\ IsNode(node[s]) /\ s \in DOMAIN node /\ s \in Node /\ s \notin Client
      /\ ServerSays(node, s)
      /\ m.type = "VERDICT_SIGNATURE" /\ Signs(node, m.from, m.body)
  BY Disjoint DEF Inv, Signed, HandleVerdictSignature, Signing, Node, Truth
<1>2. /\ node' = [node EXCEPT ![s].sigs = sigs,
                              ![s].st = IF done THEN "FINISHED" ELSE @]
      /\ net' = (net \ {m}) \cup new
  BY DEF HandleVerdictSignature
<1>3. \A t \in sigs : Signs(node, t, v)
  BY <1>1 DEF ServerSays, Verdict
<1>4. done => AllSign(node, v)
  BY <1>3 DEF AllSign
<1>5. \A x \in new : x.type = "VERDICT" /\ x.body.v = v /\ done
  BY DEF Msg
<1>6. to \in Signing /\ (to = "FINISHED" => sigs = Server)
  BY <1>1 DEF Signing
<1> HIDE DEF sigs, new, to, v
<1>7. node' = nx
  BY <1>1, <1>2 DEF to
<1>8. IsNode(q) /\ q.st = to /\ q.sigs = sigs /\ q.blame = node[s].blame /\ q.bad = node[s].bad
  BY <1>1 DEF IsNode, Fields
<1>9. nx[s] = q /\ \A t \in Server : t # s => nx[t] = node[t]
  BY <1>1
<1> HIDE DEF q, nx
<1>10. Verdict(q) = v /\ Verdict(node[s]) = v
  BY <1>8 DEF Verdict, v
<1>11. \A t : Signs(node, t, v) => Signs(nx, t, v)
  BY <1>6, <1>8, <1>9, <1>10 DEF Signs
<1>12. ServerSays(nx, s)
  BY <1>3, <1>6, <1>8, <1>9, <1>10, <1>11 DEF ServerSays, Signing
<1>13. \A x \in new : Truth(nx, x)
  BY <1>4, <1>5, <1>11 DEF Truth, AllSign
<1>14. Signed(nx, (net \ {m}) \cup new)
  BY <1>1, <1>6, <1>8, <1>10, <1>12, <1>13, Goes DEF Inv, nx
<1> QED
  BY <1>2, <1>7, <1>14 DEF Inv

\* A client goes on to q, which ends with no verdict but that of all servers, and
\* what it sends says nothing.
Follows(c, q, gone, new) ==
  /\ IsNode(q) /\ q.st \in {"SHUFFLING", "WAITING_FOR_REQUEST_OR_VERDICT", "FINISHED"}
  /\ q.st = "FINISHED" => AllSign(node, Verdict(q))
  /\ \A m \in new : m.type \notin {"VERDICT_SIGNATURE", "VERDICT"}
  /\ node' = [node EXCEPT ![c] = q] /\ net' = (net \ gone) \cup new

LEMMA GoesClient ==
  ASSUME Inv, NEW c \in Client, NEW q, NEW gone, NEW new, Follows(c, q, gone, new)
  PROVE  Inv'
<1> USE DEF Follows
<1>1. c \in Node /\ c \notin Server /\ c \in DOMAIN node
  BY Disjoint DEF Node, Inv, Signed
<1> DEFINE nx == [node EXCEPT ![c] = q]
<1>2. nx[c] = q /\ \A t \in Server : nx[t] = node[t]
  BY <1>1
<1> HIDE DEF nx
<1>3. ClientSays(nx, c)
  BY <1>2 DEF ClientSays, AllSign, Signs
<1>4. \A m \in new : Truth(nx, m)
  BY DEF Truth
<1>5. Signed(nx, (net \ gone) \cup new)
  BY <1>1, <1>3, <1>4, Goes DEF Inv, nx
<1> QED
  BY <1>5 DEF Inv, nx

LEMMA ClientShuffleDoneSigned ==
  ASSUME Inv, NEW c \in Client, ClientShuffleDone(c)
  PROVE  Inv'
<1> DEFINE q == [node[c] EXCEPT !.st = "WAITING_FOR_REQUEST_OR_VERDICT"]
<1>1. node' = [node EXCEPT ![c] = q] /\ net' = (net \ {}) \cup {}
  BY DEF ClientShuffleDone
<1>2. IsNode(node[c])
  BY DEF Inv, Signed, Node
<1>3. IsNode(q) /\ q.st = "WAITING_FOR_REQUEST_OR_VERDICT"
  BY <1>2 DEF IsNode, Fields
<1> HIDE DEF q
<1> QED
  <2>1. Follows(c, q, {}, {})
    BY <1>1, <1>3 DEF Follows
  <2> QED
    BY <2>1, GoesClient

\* A request or a rebuttal tells of no signature.
LEMMA HandleRequestSigned ==
  ASSUME Inv, NEW n \in Node, NEW m, HandleRequest(n, m)
  PROVE  Inv'
<1>1. n \in Client /\ IsNode(node[n]) /\ node[n].st = "WAITING_FOR_REQUEST_OR_VERDICT"
      /\ node = [k \in Node |-> node[k]]
  BY DEF Inv, Signed, ServerSays, HandleRequest, Node
<1>2. PICK x : net' = (net \ {m}) \cup {Msg("CLIENT_REBUTTAL", n, m.from, x)}
  BY DEF HandleRequest
<1>3. node' = [node EXCEPT ![n] = node[n]]
  BY <1>1 DEF HandleRequest
<1>4. Msg("CLIENT_REBUTTAL", n, m.from, x).type \notin {"VERDICT_SIGNATURE", "VERDICT"}
  BY DEF Msg
<1> QED
  <2>1. Follows(n, node[n], {m}, {Msg("CLIENT_REBUTTAL", n, m.from, x)})
    BY <1>1, <1>2, <1>3, <1>4 DEF Follows
  <2> QED
    BY <1>1, <2>1, GoesClient

\* A client ends with the verdict that all servers have signed.
LEMMA HandleVerdictSigned ==
  ASSUME Inv, NEW n \in Node, NEW m \in net, HandleVerdict(n, m)
  PROVE  Inv'
<1>1. /\ n \in Client /\ IsNode(node[n]) /\ node[n].st = "WAITING_FOR_REQUEST_OR_VERDICT"
      /\ node = [k \in Node |-> node[k]] /\ Truth(node, m) /\ m.type = "VERDICT"
  BY DEF Inv, Signed, ServerSays, HandleVerdict, Node
<1>2. net' = (net \ {m}) \cup {}
  BY DEF HandleVerdict
<1>3. CASE m.body.sigs = Server
  <2> DEFINE q == [node[n] EXCEPT !.st = "FINISHED", !.blame = m.body.v[1], !.bad = m.body.v[2]]
  <2>1. AllSign(node, m.body.v)
    BY <1>1, <1>3 DEF Truth
  <2>2. m.body.v = Verdict(node[0])
    BY <2>1, Disjoint DEF AllSign, Signs
  <2>3. node' = [node EXCEPT ![n] = q]
    BY <1>1, <1>3 DEF HandleVerdict
  <2>4. IsNode(q) /\ q.st = "FINISHED" /\ q.blame = m.body.v[1] /\ q.bad = m.body.v[2]
    BY <1>1 DEF IsNode, Fields
  <2> HIDE DEF q
  <2>5. Verdict(q) = m.body.v
    BY <2>2, <2>4 DEF Verdict
  <2> QED
    <3>1. Follows(n, q, {m}, {})
      BY <1>2, <2>1, <2>3, <2>4, <2>5 DEF Follows
    <3> QED
      BY <1>1, <3>1, GoesClient
<1>4. CASE m.body.sigs # Server
  <2>1. node' = [node EXCEPT ![n] = node[n]]
    BY <1>1, <1>4 DEF HandleVerdict
  <2> QED
    <3>1. Follows(n, node[n], {m}, {})
      BY <1>1, <1>2, <2>1 DEF Follows
    <3> QED
      BY <1>1, <3>1, GoesClient
<1> QED
  BY <1>3, <1>4

LEMMA InitSigned == Init => Inv
<1> SUFFICES ASSUME Init PROVE Inv
  OBVIOUS
<1>1. \A n \in Node : node[n] = NewNode(n) /\ IsNode(node[n])
  BY DEF Init, NewNode, IsNode, Fields
<1>2. \A n \in Node : node[n].st = "SHUFFLING" /\ node[n].sigs = {}
  BY <1>1 DEF NewNode
<1>3. node = [n \in Node |-> node[n]] /\ net = {}
  BY DEF Init
<1> QED
  BY <1>1, <1>2, <1>3 DEF Inv, Signed, ServerSays, ClientSays, Signing, Node

LEMMA NextSigned == Inv /\ [Next]_vars => Inv'
<1> SUFFICES ASSUME Inv, [Next]_vars PROVE Inv'
  OBVIOUS
<1>1. ASSUME NEW s \in Server, ProcessBlameShuffle(s) PROVE Inv'
  BY <1>1, ProcessBlameShuffleSigned
<1>2. ASSUME NEW c \in Client, ClientShuffleDone(c) PROVE Inv'
  BY <1>2, ClientShuffleDoneSigned
<1>3. ASSUME NEW n \in Node, NEW m \in net, Receive(n, m) PROVE Inv'
  <2>1. node[n].st \in {"WAITING_FOR_BLAME_BITS", "WAIT_FOR_CLIENT_REBUTTAL",
                        "WAIT_FOR_VERDICT_SIGNATURE"} => n \in Server
    BY DEF Inv, Signed, ClientSays, Node
  <2>2. CASE HandleBlameBits(n, m)
    BY <2>1, <2>2, HandleBlameBitsSigned DEF HandleBlameBits
  <2>3. CASE HandleRebuttal(n, m)
    BY <2>1, <2>3, HandleRebuttalSigned DEF HandleRebuttal
  <2>4. CASE HandleVerdictSignature(n, m)
    BY <2>1, <2>4, HandleVerdictSignatureSigned DEF HandleVerdictSignature
  <2>5. CASE HandleVerdict(n, m)
    BY <2>5, HandleVerdictSigned
  <2>6. CASE HandleRequest(n, m)
    BY <2>6, HandleRequestSigned
  <2> QED
    BY <1>3, <2>2, <2>3, <2>4, <2>5, <2>6 DEF Receive
<1>4. CASE UNCHANGED vars
  BY <1>4 DEF vars, Inv
<1> QED
  BY <1>1, <1>2, <1>3, <1>4 DEF Next

-----------------------------------------------------------------------------

\* All that nodes have signed, sent and ended with are parts of one verdict, which
\* every server that has signed at all has signed.
THEOREM VerdictInvariant == Spec => []Inv
<1> QED
  BY InitSigned, NextSigned, PTL DEF Spec

\* A verdict that any node ends with is that of every server.
THEOREM VerdictsAgree == Spec => []OneVerdict
<1>1. Inv => OneVerdict
  <2> SUFFICES ASSUME Inv, NEW n \in Node, NEW s \in Server, node[n].st = "FINISHED"
               PROVE  node[s].blame = node[n].blame /\ node[s].bad = node[n].bad
    BY DEF OneVerdict
  <2>1. CASE n \in Server
    <3>1. s \in node[n].sigs
      BY <2>1 DEF Inv, Signed, ServerSays
    <3>2. Signs(node, s, Verdict(node[n]))
      BY <2>1, <3>1 DEF Inv, Signed, ServerSays
    <3> QED
      BY <3>2 DEF Signs, Verdict
  <2>2. CASE n \in Client
    BY <2>2 DEF Inv, Signed, ClientSays, AllSign, Signs, Verdict
  <2> QED
    BY <2>1, <2>2 DEF Node
<1> QED
  BY <1>1, VerdictInvariant, PTL
=============================================================================
