----------------------------- MODULE AlarmClock -----------------------------
(***************************************************************************)
(* What Timer promises: an event that was queued and not stopped runs once *)
(* per period, not before it is due, and no event runs while another that  *)
(* was due earlier waits.                                                  *)
(***************************************************************************)
EXTENDS Naturals

CONSTANT Event   \* numbers of events, in the order they are made

VARIABLES now,    \* the clock
          alarm,  \* alarm[e]: when the waiting event e is due, and its period
          ran     \* ran[e]: how often e has run

Earlier(d, e) == alarm[d].due < alarm[e].due \/ (alarm[d].due = alarm[e].due /\ d < e)

\* After waits becomes alarm', some events may be cancelled and new ones set.
Calls(waits) ==
  /\ \A e \in DOMAIN alarm' \cap DOMAIN waits : alarm'[e] = waits[e]
  /\ \A e \in DOMAIN alarm' \ DOMAIN waits : alarm'[e].due >= now /\ ran[e] = 0

Fire(e) ==
  /\ e \in DOMAIN alarm /\ alarm[e].due <= now
  /\ \A d \in DOMAIN alarm : ~Earlier(d, e)
  /\ ran' = [ran EXCEPT ![e] = @ + 1]
  /\ Calls(IF alarm[e].period = 0 THEN [d \in DOMAIN alarm \ {e} |-> alarm[d]]
           ELSE [alarm EXCEPT ![e].due = @ + alarm[e].period])
  /\ e \in DOMAIN alarm' => alarm[e].period > 0
  /\ UNCHANGED now

AlarmInit == now = 0 /\ alarm = <<>> /\ ran = [e \in Event |-> 0]
AlarmNext == \/ now' > now /\ UNCHANGED <<alarm, ran>>
             \/ Calls(alarm) /\ UNCHANGED <<now, ran>>
             \/ \E e \in Event : Fire(e)
AlarmSpec == AlarmInit /\ [][AlarmNext]_<<now, alarm, ran>>
=============================================================================
