------------------------------ MODULE MCDCNet ------------------------------
(***************************************************************************)
(* The DC-net of two servers with a client each.  The round runs within    *)
(* the bounds of the .cfg file (windows that close early), or within those *)
(* of one of the instances below: a garbled slot, an edge that closes, and *)
(* no fault at all.  The properties are those of DCNetRound, in all parts. *)
(***************************************************************************)
EXTENDS DCNetRound

CONSTANTS A, B, x, y

MCHome == (x :> A) @@ (y :> B)

VARIABLE part   \* which bounds apply

Noise == INSTANCE DCNetRound WITH
  MaxMsg <- 2, MaxPhase <- 5, MaxLate <- 1, MaxNoise <- 1, MaxLeave <- 0
Leave == INSTANCE DCNetRound WITH
  MaxMsg <- 1, MaxPhase <- 3, MaxLate <- 1, MaxNoise <- 0, MaxLeave <- 1
Delivers == INSTANCE DCNetRound WITH
  MaxMsg <- 2, MaxPhase <- 5, MaxLate <- 0, MaxNoise <- 0, MaxLeave <- 0

PartInit == part \in {"late", "noise", "leave", "delivers"} /\ Init
PartNext ==
  /\ UNCHANGED part
  /\ \/ part = "late" /\ Next
     \/ part = "noise" /\ Noise!Next
     \/ part = "leave" /\ Leave!Next
     \/ part = "delivers" /\ Delivers!Next

PartSpec ==
  /\ PartInit /\ [][PartNext]_<<part, vars>>
  /\ WF_vars(part = "delivers" /\ Delivers!System)   \* edges deliver what they carry

-----------------------------------------------------------------------------
(* Properties *)

\* Windows that wait for all clients let every message through to everybody
\* (SlotFor, ProcessCleartext).
WideWindowsDeliver == <>(part = "delivers" => Delivers!AllGiven)
=============================================================================
