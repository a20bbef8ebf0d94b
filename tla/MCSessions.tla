---------------------------- MODULE MCSessions ----------------------------
(*****************************************************************************)
(* A client and two servers, with edges that break and attempts that are     *)
(* stopped, and when nothing goes wrong; servers that form rounds when       *)
(* nothing breaks, form the next one after a round, and recover from a       *)
(* broken edge.                                                              *)
(*****************************************************************************)
EXTENDS ClientSession, TLC

CONSTANTS P, S, T, c1, c2
TwoServers == {1, 2}

VARIABLES
  part,   \* the instance that is checked
  st, data, link, chan, initCount, regCount, over, signed, reached   \* of the servers

Servers == <<st, data, link, chan, initCount, regCount, over, signed, reached>>

Forms == INSTANCE ServerSession WITH
  Server <- {P, S, T}, Client <- {c1}, Proposer <- P, MaxBreak <- 0, MaxOver <- 0,
  MaxReg <- 1
Reforms == INSTANCE ServerSession WITH
  Server <- {P, S}, Client <- {c1, c2}, Proposer <- P, MaxBreak <- 0, MaxOver <- 1,
  MaxReg <- 1
Recovers == INSTANCE MCServerSession WITH
  Server <- {P, S}, Client <- {c1}, Proposer <- P, MaxBreak <- 1, MaxOver <- 0,
  MaxReg <- 1
Joins == INSTANCE ClientSession WITH MaxBreak <- 0, MaxStop <- 0, Prompt <- TRUE

NoServers ==
  /\ st = 0 /\ data = 0 /\ link = 0 /\ chan = 0 /\ initCount = 0 /\ regCount = 0
  /\ over = 0 /\ signed = 0 /\ reached = 0
NoClient ==
  /\ c = [st |-> "Offline"] /\ srv = 0 /\ table = 0 /\ up = 0 /\ down = 0 /\ edge = 0
  /\ attempt = 0 /\ roster = 0 /\ halted = 0 /\ offered = 0 /\ order = 0
OfClient ==
  <<c, srv, table, up, down, edge, attempt, roster, halted, offered, order>>

SessionsInit ==
  \/ part \in {"faults", "joins"} /\ Init /\ NoServers
     /\ (part = "faults" => order = Signatures)
  \/ part = "forms" /\ Forms!Init /\ NoClient
  \/ part = "reforms" /\ Reforms!Init /\ NoClient
  \/ part = "recovers" /\ Recovers!FirstRoundRuns /\ NoClient
\* Nothing tells the two servers apart, until an edge breaks: the first is the client's.
Faults == part = "faults" /\ Next /\ (breaks = 0 => conn' \subseteq {1})
SessionsNext ==
  /\ UNCHANGED part
  /\ \/ Faults /\ UNCHANGED Servers
     \/ part = "joins" /\ Joins!Next /\ UNCHANGED Servers
     \/ part = "forms" /\ Forms!Next /\ UNCHANGED OfClient
     \/ part = "reforms" /\ Reforms!Next /\ UNCHANGED OfClient
     \/ part = "recovers" /\ Recovers!Next /\ UNCHANGED OfClient
svars == Forms!vars
jvars == <<client, servers, conn, table, up, down, edge, breaks>>
SessionsSpec == SessionsInit /\ [][SessionsNext]_<<part, vars, Servers>>
  \* Event loops run, edges deliver and timers fire.
  /\ WF_svars(part = "forms" /\ Forms!System)
  /\ WF_svars(part = "reforms" /\ Reforms!System)
  /\ WF_svars(part = "recovers" /\ Recovers!System)
  \* So they do at a client and its servers; rounds end, and a client without a
  \* connection makes one.
  /\ WF_jvars(part = "joins" /\ (Joins!ClientStep \/ Joins!Open))
  /\ WF_jvars(part = "joins" /\ \E s \in {1, 2} : Joins!HandleConnection(s))
  /\ \A s \in {1, 2} :
       /\ WF_jvars(part = "joins" /\ Joins!Deliver(s))
       /\ WF_jvars(part = "joins" /\ Joins!TakeRegister(s))
       /\ WF_jvars(part = "joins" /\ (Joins!AtServer(s) \/ Joins!ServerLoses(s)))
       /\ WF_jvars(part = "joins" /\ Joins!HandleDisconnection(s))
       /\ WF_jvars(part = "joins" /\ (Joins!Registering(s) \/ Joins!FinishClientRegister(s)
            \/ Joins!VerifyList(s) \/ Joins!EnterComm(s) \/ Joins!ServerRoundOver(s)))

-----------------------------------------------------------------------------
(* Properties *)

\* Servers that stay connected run a round and, when it is over or an edge was
\* lost and found again, another one.
FormsRound ==
  <>[](/\ part = "forms" => Forms!AllRunning
       /\ part = "reforms" => Reforms!AllRunning
       /\ part = "recovers" => Recovers!AllRunning)

\* The client joins every round that its servers form when registration waits
\* for it, nothing breaks, and the configuration lists the servers by Id.
JoinsEveryRound ==
  \A a \in Attempt : <>(part = "joins" /\ order = Signatures => c.round.rid = a)
=============================================================================
