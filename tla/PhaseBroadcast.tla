--------------------------- MODULE PhaseBroadcast ---------------------------
(***************************************************************************)
(* What a DC-net is for: all nodes are given one sequence of batches of    *)
(* messages, each at its own speed.  A batch is fixed by the first node    *)
(* that is given it.                                                       *)
(***************************************************************************)
EXTENDS Naturals, Sequences

CONSTANT Node
VARIABLE given     \* given[n]: the batches that n was given so far

Init == given = [n \in Node |-> <<>>]

\* n is given one more batch; if others already have it, the same.
Give(n) ==
  LET k == Len(given[n]) + 1
  IN /\ Len(given'[n]) = k
     /\ given' = [given EXCEPT ![n] = Append(@, given'[n][k])]
     /\ \A m \in Node : Len(given[m]) >= k => given[m][k] = given'[n][k]

Next == \E n \in Node : Give(n)

Spec == Init /\ [][Next]_given
=============================================================================
