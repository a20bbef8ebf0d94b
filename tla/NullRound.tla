----------------------------- MODULE NullRound -----------------------------
(***************************************************************************)
(* NullRound: every client broadcasts its data in the open and the round   *)
(* ends where all of it has arrived.  Round, which it extends, stops when  *)
(* a member disconnects; SourceObject and the sinks behind it take what    *)
(* the round pushes.  A session starts the round at each node on its own,  *)
(* keeps packets that come before and stops the round when another node's  *)
(* was interrupted.                                                        *)
(***************************************************************************)
EXTENDS Integers, FiniteSets, SequencesExt

CONSTANTS
  Clients,   \* the roster of clients, in order
  Server,
  Text,      \* what each client has to say, Empty if nothing
  Empty,
  MaxDown,   \* bound: disconnections
  Frail      \* the nodes whose application destroys its sink

VARIABLES
  state,         \* "new", "started" or "stopped", of StartStop
  air,           \* the packets under way: client and receiver
  m_received,    \* what came from each client, Empty before
  m_msgs,
  m_successful, m_interrupted,
  sinks,         \* the sinks of each node that live
  _messages,     \* BufferSink
  _count         \* SignalCounter, behind a SignalSink

round == <<m_received, m_msgs>>
result == <<m_successful, m_interrupted>>
pushed == <<_messages, _count>>
vars == <<state, air, round, result, sinks, pushed>>

Roster == ToSet(Clients)
Node == Roster \cup Server
GetIndex(c) == CHOOSE i \in DOMAIN Clients : Clients[i] = c

-----------------------------------------------------------------------------
(* SourceObject, SinkMultiplexer and the sinks *)

\* The multiplexer hands data to the sources that still have a sink.
PushData(n, texts) ==
  /\ _messages' = IF "buffer" \in sinks[n]
                  THEN [_messages EXCEPT ![n] = @ \o texts] ELSE _messages
  /\ _count' = IF "signal" \in sinks[n] THEN [_count EXCEPT ![n] = @ + Len(texts)] ELSE _count

SinkDestroyed(n) ==
  /\ n \in Frail /\ "buffer" \in sinks[n]
  /\ sinks' = [sinks EXCEPT ![n] = @ \ {"buffer"}]
  /\ UNCHANGED <<state, air, round, result, pushed>>

-----------------------------------------------------------------------------
(* StartStop and Round *)

Started(n) == state[n] = "started"
Stop(n) == state' = [state EXCEPT ![n] = "stopped"]

\* A member is gone, and with it some of the packets.
HandleDisconnect(n, m) ==
  /\ Started(n) /\ m # n
  /\ Cardinality({k \in Node : m_interrupted[k]}) < MaxDown
  /\ m_interrupted' = [m_interrupted EXCEPT ![n] = TRUE]
  /\ Stop(n)
  /\ \E lost \in SUBSET air : air' = air \ lost
  /\ UNCHANGED <<round, m_successful, sinks, pushed>>

\* RoundFinished at one node: its session stops the round at the others.
SessionStop(n) ==
  /\ state[n] # "stopped" /\ \E k \in Node : m_interrupted[k]
  /\ Stop(n)
  /\ UNCHANGED <<air, round, result, sinks, pushed>>

-----------------------------------------------------------------------------
(* NullRound *)

OnStart(n) ==
  /\ state[n] = "new"
  /\ state' = [state EXCEPT ![n] = "started"]
  /\ air' = IF n \in Server THEN air ELSE air \cup ({n} \X Node)
  /\ UNCHANGED <<round, result, sinks, pushed>>

\* A packet that is not the first with data from its client is dropped.
Counts(n, c) == Started(n) /\ m_received[n][GetIndex(c)] = Empty
NonEmpty(msgs) == SelectSeq(msgs, LAMBDA t : t # Empty)
ProcessPacket(n, c) ==
  /\ <<c, n>> \in air /\ state[n] # "new"
  /\ air' = air \ {<<c, n>>}
  /\ IF ~Counts(n, c) THEN UNCHANGED <<state, round, m_successful, pushed>>
     ELSE /\ m_received' = [m_received EXCEPT ![n][GetIndex(c)] = Text[c]]
          /\ m_msgs' = [m_msgs EXCEPT ![n] = @ + 1]
          /\ IF m_msgs'[n] # Len(Clients) THEN UNCHANGED <<state, m_successful, pushed>>
             ELSE /\ PushData(n, NonEmpty(m_received'[n]))
                  /\ m_successful' = [m_successful EXCEPT ![n] = TRUE]
                  /\ Stop(n)
  /\ UNCHANGED <<m_interrupted, sinks>>

Init ==
  /\ state = [n \in Node |-> "new"]
  /\ air = {}
  /\ m_received = [n \in Node |-> [i \in DOMAIN Clients |-> Empty]]
  /\ m_msgs = [n \in Node |-> 0]
  /\ m_successful = [n \in Node |-> FALSE] /\ m_interrupted = [n \in Node |-> FALSE]
  /\ sinks = [n \in Node |-> {"buffer", "signal"}]
  /\ _messages = [n \in Node |-> <<>>] /\ _count = [n \in Node |-> 0]

Next ==
  \/ \E n \in Node : OnStart(n) \/ SessionStop(n) \/ SinkDestroyed(n)
  \/ \E n \in Node, c \in Roster : ProcessPacket(n, c)
  \/ \E n, m \in Node : HandleDisconnect(n, m)
Progress ==
  \/ \E n \in Node : OnStart(n) \/ SessionStop(n)
  \/ \E n \in Node, c \in Roster : ProcessPacket(n, c)
Spec == Init /\ [][Next]_vars /\ WF_vars(Progress)

-----------------------------------------------------------------------------
(* Properties *)

\* A round that succeeds anywhere gave every listener there all the texts, each
\* once and in the order of the roster; one that was interrupted gave nothing,
\* however far it had come.
SameCleartext == \A n \in Node :
  LET due == IF m_successful[n] THEN NonEmpty([i \in DOMAIN Clients |-> Text[Clients[i]]]) ELSE <<>>
  IN /\ _count[n] = Len(due)
     /\ "buffer" \in sinks[n] => _messages[n] = due
     /\ m_successful[n] => \A c \in Roster : <<c, n>> \notin air

AllStopped == \A n \in Node : state[n] = "stopped"

=============================================================================
