------------------------ MODULE MCConnectionManager ------------------------
(***************************************************************************)
(* Two nodes.  Within the bounds of the .cfg file both are servers that    *)
(* dial each other while edges break, dials fail and one stops; in the     *)
(* instances below they also dial themselves, or lose bound edges only, or *)
(* one of them is a client.  The properties are those of ConnectionManager *)
(* in all parts.                                                           *)
(***************************************************************************)
EXTENDS ConnectionManager

VARIABLE part   \* which bounds apply

Both == [n \in Node |-> Node \ {n}]
Toward(s) == [n \in Node |-> IF n = s THEN {} ELSE {s}]

Self == INSTANCE ConnectionManager WITH
  Remote <- [n \in Node |-> Node], Slot <- 1..3, MaxBreak <- 1, MaxRefuse <- 0, MayStop <- {}
Servers == INSTANCE ConnectionManager WITH
  Slot <- 1..3, MaxBreak <- 1, MayBreak <- "bound", MayStop <- {}
Client == INSTANCE ConnectionManager WITH
  Server <- {3}, Remote <- Toward(3), Slot <- 1..3, MayBreak <- "bound", MayStop <- {}

PartInit ==
  \/ part = "pair" /\ Init
  \/ part = "self" /\ Self!Init
  \/ part = "servers" /\ Servers!Init
  \/ part = "client" /\ Client!Init
PartNext ==
  /\ UNCHANGED part
  /\ \/ part = "pair" /\ Next
     \/ part = "self" /\ Self!Next
     \/ part = "servers" /\ Servers!Next
     \/ part = "client" /\ Client!Next
PartSpec ==
  /\ PartInit /\ [][PartNext]_<<part, vars>>
  \* Sockets connect or fail, edges carry what is sent, closed and silent ends
  \* are noticed.
  /\ WF_vars(part = "servers" /\ Servers!Progress)
  /\ WF_vars(part = "client" /\ Client!Progress)

-----------------------------------------------------------------------------
(* Properties *)

\* Servers, and a client with its server, end up connected, and again after
\* each edge they had bound is lost (the acquirers).
Connects ==
  <>[](/\ part = "servers" => Servers!AllLinked
       /\ part = "client" => Client!ClientLinked)
=============================================================================
