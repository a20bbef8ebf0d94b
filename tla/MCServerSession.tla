--------------------------- MODULE MCServerSession ---------------------------
(***************************************************************************)
(* Instances of ServerSession for TLC: an edge that breaks while a client  *)
(* registers, a client that registers twice in rounds that end (Registers),*)
(* an edge that breaks and a round that ends (Restarts); and later states  *)
(* of the system to start from: all connected, in the first round, with    *)
(* nothing in flight.                                                      *)
(***************************************************************************)
EXTENDS ServerSession, TLC

CONSTANTS P, S, T, c1, c2

TwoServers == {P, S}
ThreeServers == {P, S, T}
OneClient == {c1}

VARIABLE part   \* which bounds apply, in PairSpec

Registers == INSTANCE ServerSession WITH MaxBreak <- 0, MaxOver <- 1, MaxReg <- 2
Restarts == INSTANCE ServerSession WITH MaxOver <- 1, MaxReg <- 0

PairInit == part \in {"faults", "registers", "restarts"} /\ Init
PairNext ==
  /\ UNCHANGED part
  /\ \/ part = "faults" /\ Next
     \/ part = "registers" /\ Registers!Next
     \/ part = "restarts" /\ Restarts!Next
PairSpec == PairInit /\ [][PairNext]_<<part, vars>>

FirstRound == [n |-> 1, keys |-> [t \in Server |-> 1]]
InRound(got, regs) == [init |-> 1, rid |-> FirstRound, eph |-> 1, keys |-> FirstRound.keys,
                       got |-> got, regs |-> regs]

\* Every server is in the same state of the first round, all connected and with
\* nothing set aside.
InFirstRound(state) ==
  /\ st = [s \in Server |-> state]
  /\ storage = [s \in Server |-> <<>>]
  /\ last = [s \in Server |-> NoStop]
  /\ todo = <<>>
  /\ conn = [s \in Server |-> Server]
  /\ initCount = 1
  /\ over = {}
Edges == {{s, t} : s, t \in Server} \ {{s} : s \in Server}
Agreed == {ServerAgree(t, FirstRound, 1) : t \in Server}

\* The first round runs, without clients and with nothing in flight.
FirstRoundRuns ==
  /\ InFirstRound("Communicating")
  /\ data = [s \in Server |-> InRound(Server, NoRegs)]
  /\ link = Edges /\ breaks = 0 /\ chan = [a \in Server |-> [b \in Server |-> <<>>]]
  /\ regCount = [c \in Client |-> 0]
  /\ signed = Agreed \cup {ServerVerifyList(t, RegisterList(FirstRound, NoRegs)) : t \in Server}
  /\ reached = {<<s, x, FirstRound, NoRegs>> :
                  s \in Server, x \in (Forming \ {"Enlist"}) \cup {"Communicating"}}
RunningInit == part = "running" /\ FirstRoundRuns

\* The first round's lists of clients are under way.  The client has registered
\* with two servers, with different keys.  The proposer and another of three
\* servers have just lost their edge, with what was in flight on it or without:
\* some server may still get through, while stops, and what the two send each
\* other, go through the third.
Regs(s) == [c \in Client |-> CASE s = P -> 1 [] s = S -> 2 [] OTHER -> 0]
Lists(a, b) == <<[src |-> a, dst |-> b, body |-> ServerList(RegisterList(FirstRound, Regs(a)))]>>
Cut(a, b, k) == Append(SubSeq(Lists(a, b), 1, k), [src |-> a, dst |-> b, body |-> Closed])
TornInit ==
  /\ part = "torn" /\ InFirstRound("ListExchange")
  /\ data = [s \in Server |-> InRound({}, Regs(s))]
  /\ breaks = 1 /\ regCount = [c \in Client |-> 2]
  /\ \E s \in Server \ {Proposer}, i, j \in 0..1 :
       /\ link = Edges \ {{s, Proposer}}
       /\ chan = [a \in Server |-> [b \in Server |->
                    CASE <<a, b>> = <<s, Proposer>> -> Cut(a, b, i)
                      [] <<a, b>> = <<Proposer, s>> -> Cut(a, b, j)
                      [] OTHER -> Lists(a, b)]]
  /\ signed = Agreed
  /\ reached = {<<s, x, FirstRound, NoRegs>> : s \in Server, x \in {"Agree", "Registering"}}
               \cup {<<s, "ListExchange", FirstRound, Regs(s)>> : s \in Server}

\* Only what becomes of that attempt: no edge is made anew.
TornNext ==
  \/ \E s \in Server : Handle(s)
  \/ \E p, s \in Server : ReceiveClosed(p, s) \/ Receive(p, s) \/ ForwardedData(p, s)
TornSpec == TornInit /\ [][TornNext /\ UNCHANGED part]_<<part, vars>>

RunningSpec == RunningInit /\ [][Next /\ UNCHANGED part]_<<part, vars>>
=============================================================================
