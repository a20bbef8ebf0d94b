---------------------------- MODULE MCRounds ----------------------------
(*****************************************************************************)
(* The Neff shuffle with two servers and two clients and with three servers, *)
(* until two verifications of a server overlap, and with two servers beyond  *)
(* that; the fault-tolerant round with two servers of which one may fail,    *)
(* and with three servers that vote on views; the null round with two        *)
(* clients, one of which has nothing to say, a node that loses an edge and   *)
(* an application that leaves.                                               *)
(*****************************************************************************)
EXTENDS NeffShuffleRound, TLC

CONSTANTS
  A, B, C, x, y, z,
  Parts   \* the instances that are checked

VARIABLES
  part,                    \* the instance that is checked
  fsrv, fcli, fchan, down, \* of SFTRound, the first two of Trio as well
  state, air, m_received, m_msgs, m_successful, m_interrupted, sinks, _messages,
  _count                   \* of NullRound

svars == vars
fvars == <<fsrv, fcli, fchan, down>>
ovars == <<state, air, m_received, m_msgs, m_successful, m_interrupted, sinks, _messages, _count>>

\* Clients of two servers, and of three.
MCHome == (x :> 0) @@ (y :> 1)

\* Views of two servers out of three, as many as 2/3 of them.
ThreeViews == (0 :> {A, B}) @@ (1 :> {B, C}) @@ (2 :> {A, C}) @@ (3 :> {A, B})

Trio == INSTANCE NeffShuffleRound WITH
  N <- 3, Client <- {x}, Home <- x :> 2, srv <- fsrv, cli <- fcli
Pair == INSTANCE SFTRound WITH
  Server <- {A, B}, Client <- {x, y}, Home <- (x :> A) @@ (y :> B), View <- 0 :> {A, B},
  Talk <- {x, y}, MaxExchange <- 4, MaxFail <- 1, srv <- fsrv, cli <- fcli, chan <- fchan
Views == INSTANCE SFTRound WITH
  Server <- {A, B, C}, Client <- {x, y, z}, Home <- (x :> A) @@ (y :> B) @@ (z :> C),
  View <- ThreeViews, Talk <- {x}, MaxExchange <- 0, MaxFail <- 1,
  srv <- fsrv, cli <- fcli, chan <- fchan
Open == INSTANCE NullRound WITH
  Clients <- <<x, y>>, Server <- {A}, Text <- (x :> "text") @@ (y :> ""), Empty <- "",
  MaxDown <- 1, Frail <- {A}

\* While one round runs the variables of the others rest.  A shuffle of three has
\* its own srv and cli.
NoViews == fchan = 0 /\ down = 0
NoSFT == fsrv = 0 /\ fcli = 0 /\ NoViews
NoOpen ==
  /\ state = 0 /\ air = 0 /\ m_received = 0 /\ m_msgs = 0 /\ m_successful = 0
  /\ m_interrupted = 0 /\ sinks = 0 /\ _messages = 0 /\ _count = 0

PartInit ==
  /\ part \in Parts
  /\ CASE part \in {"shuffle", "overlap"} -> Init /\ NoSFT /\ NoOpen
       [] part = "trio" -> /\ Trio!Init /\ NoViews /\ NoOpen
                           /\ srv = [i \in Server |-> fsrv[i]] /\ cli = [c \in Client |-> fcli[x]]
       [] part = "pair" -> Init /\ Pair!Init /\ NoOpen
       [] part = "views" -> Init /\ Views!Init /\ NoOpen
       [] part = "open" -> Init /\ NoSFT /\ Open!Init
\* What is said of a shuffle is said until verifications overlap, for good.
Shuffle == /\ part = "overlap" \/ (part = "shuffle" /\ ~overlapped)
           /\ Next
PartNext ==
  /\ UNCHANGED part
  /\ \/ Shuffle /\ UNCHANGED <<fvars, ovars>>
     \/ part = "trio" /\ ~overlapped /\ Trio!Next /\ UNCHANGED <<srv, cli, fchan, down, ovars>>
     \/ part = "pair" /\ Pair!Next /\ UNCHANGED <<svars, ovars>>
     \/ part = "views" /\ Views!Next /\ UNCHANGED <<svars, ovars>>
     \/ part = "open" /\ Open!Next /\ UNCHANGED <<svars, fvars>>
PartSpec == PartInit /\ [][PartNext]_<<part, svars, fvars, ovars>>
FairSpec ==
  \* Event loops and pool threads run and edges deliver.
  /\ PartSpec
  /\ WF_svars(Shuffle)
  /\ WF_fvars(part = "views" /\ Views!Deliver)
  /\ WF_ovars(part = "open" /\ Open!Progress)

-----------------------------------------------------------------------------
(* Properties *)

\* Every other round gives one text to all: a shuffle of three servers, signed by
\* all, whatever the order shuffles arrive in (HandleShuffle); a null round, to all
\* who end it with success, all texts in the order of the roster (ProcessPacket);
\* an exchange of the fault-tolerant round, the texts of all clients and no key,
\* although requests are answered with lists and ciphers of other exchanges
\* (lastCipher, getReceivedClients).
OneText ==
  CASE part = "trio" -> Trio!SignedOutput /\ Trio!SameCleartext
    [] part = "open" -> Open!SameCleartext
    [] part = "pair" -> Pair!Decrypts
    [] OTHER -> TRUE

\* The shuffle ends for everybody, and so does a null round, although the end of
\* one node may come before another has started and packets are lost with an
\* edge (Stop, HandleDisconnect).
AllEnd ==
  /\ <>(part = "shuffle" => overlapped \/ AllDone)
  /\ <>(part = "open" => Open!AllStopped)

\* The fault-tolerant round never comes to rest, although every message that
\* comes in the wrong phase is dropped (the requests and lastCipher).
NoStall == part = "pair" => Pair!NoStall

\* When a server fails the others stop or end in one view without it, although
\* votes may come before a server has noticed (addViewChangeVote).
ViewsConverge == (part = "views" /\ down # {}) ~> (part = "views" => Views!Converged)
=============================================================================
