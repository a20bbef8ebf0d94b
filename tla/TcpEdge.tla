------------------------------ MODULE TcpEdge ------------------------------
(***************************************************************************)
(* A TCP edge: two ends, and between them a stream of bytes that arrives   *)
(* in pieces of any size.  A message travels as four bytes of length, its  *)
(* bytes and four zeroes; Read cuts the stream into messages again, puts   *)
(* itself off when it has taken long, and may be cut short by a handler    *)
(* that stops the edge.                                                    *)
(***************************************************************************)
EXTENDS Integers, SequencesExt

CONSTANTS
  Letters,    \* the messages that are sent, sequences of bytes
  Speakers,   \* the ends that send messages
  Limit,      \* bound: messages each of them sends
  MaxPings,   \* bound: pings each end sends
  Piece,      \* bound: the sizes of the pieces in which bytes arrive
  Breaks      \* whether the connection may break and the ends stop

VARIABLES
  wire,     \* bytes on their way to an end
  socket,   \* bytes an end may read
  ready,    \* readyRead or DelayedRead is to be handled
  slot,     \* _connected: readyRead is connected to Read
  sent,     \* messages given to Send
  pushed,   \* messages given to the sink
  pings,    \* pings sent
  edge,     \* "open" or "stopped"
  signals   \* StoppedSignals emitted

vars == <<wire, socket, ready, slot, sent, pushed, pings, edge, signals>>

End == {1, 2}
Other(e) == 3 - e
Signed(b) == IF b < 128 THEN b ELSE b - 256

\* Serialization: four bytes, the lowest first; the highest holds the sign.
ReadInt(s, at) ==
  s[at] + 256 * s[at + 1] + 65536 * s[at + 2] + 16777216 * Signed(s[at + 3])
WriteInt(n) ==
  <<n % 256, (n \div 256) % 256, (n \div 65536) % 256, (n \div 16777216) % 256>>

PingPacket == [i \in 1..16 |-> 0]
Zero == <<0, 0, 0, 0>>
Frame(m) == WriteInt(Len(m)) \o m \o Zero

\* The conditions under which Read takes one more message.
Whole(s) == Len(s) >= 8 /\ ReadInt(s, 1) >= 0 /\ ReadInt(s, 1) + 8 <= Len(s)

\* What Read takes from the bytes s when it stops after n messages.
Taken[s \in Seq(0..255), n \in Nat] ==
  IF n = 0 \/ ~Whole(s) THEN [msgs |-> <<>>, rest |-> s]
  ELSE LET length == ReadInt(s, 1)
           after == Taken[SubSeq(s, length + 9, Len(s)), n - 1]
       IN [msgs |-> <<SubSeq(s, 5, length + 4)>> \o after.msgs, rest |-> after.rest]

-----------------------------------------------------------------------------
(* Steps *)

Up == edge[1] = "open" /\ edge[2] = "open"

Send(e, m) ==
  /\ e \in Speakers /\ edge[e] = "open" /\ Len(sent[e]) < Limit
  /\ sent' = [sent EXCEPT ![e] = Append(@, m)]
  /\ wire' = IF edge[Other(e)] = "open" THEN [wire EXCEPT ![Other(e)] = @ \o Frame(m)] ELSE wire
  /\ UNCHANGED <<socket, ready, slot, pushed, pings, edge, signals>>

\* Some bytes reach the socket of e, which says so if Read is connected.
Arrive(e) ==
  \E n \in {k \in Piece \cup {Len(wire[e])} : k \in 1..Len(wire[e])} :
    /\ edge[e] = "open"
    /\ wire' = [wire EXCEPT ![e] = SubSeq(@, n + 1, Len(@))]
    /\ socket' = [socket EXCEPT ![e] = @ \o SubSeq(wire[e], 1, n)]
    /\ ready' = [ready EXCEPT ![e] = @ \/ slot[e]]
    /\ UNCHANGED <<slot, sent, pushed, pings, edge, signals>>

\* PushData: a ping is for the edge alone; any other message goes on, after a
\* ping of its own if the edge has been silent for long.
Pushes(msgs) == SelectSeq(msgs, LAMBDA m : m # PingPacket)

\* Stop, OnStop: the socket is aborted with all it holds, its signal
\* disconnected makes HandleDisconnect emit StoppedSignal.
Stops(e) ==
  /\ edge' = [edge EXCEPT ![e] = "stopped"]
  /\ signals' = [signals EXCEPT ![e] = @ + 1]
  /\ socket' = [socket EXCEPT ![e] = <<>>]
  /\ ready' = [ready EXCEPT ![e] = FALSE]

\* One run of Read.  It ends when no whole message is left, when it has taken
\* more than a second, or when the sink stops the edge.
Read(e) ==
  /\ ready[e] /\ edge[e] = "open"
  /\ \E n \in 0..Len(Taken[socket[e], 9].msgs), ends \in {"all", "delay", "stop"}, ping \in BOOLEAN :
       LET t == Taken[socket[e], n] IN
       /\ ends = "all" => n = Len(Taken[socket[e], 9].msgs)
       /\ ends # "all" => n > 0
       /\ ends = "stop" => Breaks /\ Last(t.msgs) # PingPacket
       /\ ping => pings[e] < MaxPings /\ Pushes(t.msgs) # <<>>
       /\ pushed' = [pushed EXCEPT ![e] = @ \o Pushes(t.msgs)]
       /\ pings' = [pings EXCEPT ![e] = @ + IF ping THEN 1 ELSE 0]
       /\ LET pinged == IF ping /\ edge[Other(e)] = "open"
                        THEN [wire EXCEPT ![Other(e)] = @ \o Frame(PingPacket)] ELSE wire
          IN wire' = IF ends = "stop" THEN [pinged EXCEPT ![e] = <<>>] ELSE pinged
       /\ slot' = [slot EXCEPT ![e] = ends # "delay"]
       /\ \/ ends = "stop" /\ Stops(e)
          \/ /\ ends # "stop"
             /\ socket' = [socket EXCEPT ![e] = t.rest]
             /\ ready' = [ready EXCEPT ![e] = ends = "delay"]
             /\ UNCHANGED <<edge, signals>>
  /\ UNCHANGED sent

\* The owner of an end stops it, or the socket reports an error and HandleError
\* does.
Stop(e) ==
  /\ Breaks /\ edge[e] = "open"
  /\ Stops(e)
  /\ wire' = [wire EXCEPT ![e] = <<>>]
  /\ UNCHANGED <<slot, sent, pushed, pings>>

\* The other end has closed and all its bytes were read.
HandleDisconnect(e) ==
  /\ edge[e] = "open" /\ edge[Other(e)] # "open" /\ wire[e] = <<>> /\ ~ready[e]
  /\ Stops(e)
  /\ UNCHANGED <<wire, slot, sent, pushed, pings>>

Init ==
  /\ wire = [e \in End |-> <<>>]
  /\ socket = [e \in End |-> <<>>]
  /\ ready = [e \in End |-> FALSE]
  /\ slot = [e \in End |-> TRUE]
  /\ sent = [e \in End |-> <<>>]
  /\ pushed = [e \in End |-> <<>>]
  /\ pings = [e \in End |-> 0]
  /\ edge = [e \in End |-> "open"]
  /\ signals = [e \in End |-> 0]

Network == \E e \in End : Arrive(e) \/ Read(e)
Next ==
  \/ Network
  \/ \E e \in End, m \in Letters : Send(e, m)
  \/ \E e \in End : Stop(e) \/ HandleDisconnect(e)

Spec == Init /\ [][Next]_vars

-----------------------------------------------------------------------------
(* Properties *)

\* What the sink of an end has got is a beginning of what the other end sent,
\* message by message, however the bytes were cut (Send, Read); and an edge
\* that has stopped has said so once (StopCompleted).
Stream ==
  \A e \in End : /\ IsPrefix(pushed[e], sent[Other(e)])
                 /\ signals[e] = IF edge[e] = "open" THEN 0 ELSE 1

\* Nothing of what was sent is missing at the other end (the delayed Read).
AllRead == \A e \in End : edge[e] = "open" => pushed[e] = sent[Other(e)]
=============================================================================
