---------------------------- MODULE RoundService ----------------------------
(***************************************************************************)
(* What the session layer promises the anonymity protocol that runs in it, *)
(* with nothing said of how the servers come to it: a round has one        *)
(* roster, the same at every server that ever runs it, a server runs one   *)
(* round at a time, and never a round that is not newer than its last.     *)
(***************************************************************************)
EXTENDS Naturals

CONSTANTS
  Server,
  Idle,        \* not a round
  Number(_)    \* the place of a round in the order of rounds

VARIABLES
  running,     \* running[s]: the round s runs, or Idle
  rosters      \* <<s, r, l>>: s has begun round r with client roster l

vars == <<running, rosters>>

Init == /\ running = [s \in Server |-> Idle]
        /\ rosters = {}

\* s begins round x[2] with roster x[3].
Begin(s) ==
  \E x \in rosters' \ rosters :
    /\ running[s] = Idle
    /\ x[1] = s
    /\ \A y \in rosters : /\ y[2] = x[2] => y[3] = x[3]
                          /\ y[1] = s => Number(y[2]) < Number(x[2])
    /\ running' = [running EXCEPT ![s] = x[2]]
    /\ rosters' = rosters \cup {x}

\* The round of s ends or is given up.
End(s) ==
  /\ running[s] # Idle
  /\ running' = [running EXCEPT ![s] = Idle]
  /\ UNCHANGED rosters

Next == \E s \in Server : Begin(s) \/ End(s)

Spec == Init /\ [][Next]_vars
=============================================================================
