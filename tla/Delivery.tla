------------------------------ MODULE Delivery ------------------------------
(***************************************************************************)
(* The way of application data through a session: framed by the web or     *)
(* the tunnel, queued, handed to rounds in batches, and cut again by those *)
(* who listen: the web service that keeps messages for pollers, and the    *)
(* exit tunnel.  Rounds follow each other and fail; of a round only the    *)
(* order of its calls of GetData and of its output is kept.  A message is  *)
(* its place in the order of Send.                                         *)
(***************************************************************************)
EXTENDS Integers, SequencesExt

CONSTANTS
  Size,      \* the length of each message that is sent, in order
  Kind,      \* 0: for the web, 1: for the tunnel
  MaxGet,    \* MAX_GET, the most that GetData returns
  MaxFails,  \* bound: rounds that end without success
  Poller     \* the web clients that wait for messages

VARIABLES
  sent,              \* the number of messages given to Send
  m_queue, m_trim,   \* DataQueue
  round,             \* "none", "open" or "slot": between and in rounds
  next_msg, flight,  \* the batch that was got, the batch in the slot
  fails, lost,       \* rounds that failed, and what was in a slot then
  m_message_list,    \* GetMessagesService
  m_pending,         \* its requests that wait
  polls,             \* Poller -> what it has read
  exited             \* what the exit tunnel was given

queue == <<m_queue, m_trim>>
web == <<m_message_list, m_pending, polls>>
vars == <<sent, queue, round, next_msg, flight, fails, lost, web, exited>>

Messages == 1..Len(Size)
\* Eight bytes of header: the length and the kind.
Framed(m) == 8 + Size[m]
Bytes(ms) == FoldSeq(LAMBDA m, n : n + Framed(m), 0, ms)

-----------------------------------------------------------------------------
(* Session::Send, DataQueue *)

Send ==
  /\ sent < Len(Size)
  /\ sent' = sent + 1
  /\ m_queue' = Append(m_queue, sent + 1)
  /\ UNCHANGED <<m_trim, round, next_msg, flight, fails, lost, web, exited>>

\* How many messages GetData passes over or takes: it ends at the first that
\* does not fit any more; those that never fit are passed over.
Reach(q) ==
  LET fits(i) == SelectSeq(SubSeq(q, 1, i), LAMBDA m : Framed(m) <= MaxGet)
      all == {i \in 0..Len(q) : Bytes(fits(i)) <= MaxGet}
  IN CHOOSE i \in all : \A j \in all : j <= i
Trimmed == SubSeq(m_queue, m_trim + 1, Len(m_queue))
Batch == SelectSeq(SubSeq(Trimmed, 1, Reach(Trimmed)), LAMBDA m : Framed(m) <= MaxGet)

\* The mutant: what was handed out is taken out at once.
TrimsAtOnce ==
  /\ m_queue' = SubSeq(m_queue, Reach(m_queue) + 1, Len(m_queue))
  /\ m_trim' = 0
  /\ next_msg' = SelectSeq(SubSeq(m_queue, 1, Reach(m_queue)), LAMBDA m : Framed(m) <= MaxGet)

\* DataQueue::GetData.
GetData ==
  /\ m_queue' = Trimmed
  /\ m_trim' = Reach(Trimmed)
  /\ next_msg' = Batch

-----------------------------------------------------------------------------
(* The round that calls GetData *)

StartRound ==
  /\ round = "none"
  /\ round' = "open"
  /\ UNCHANGED <<sent, queue, next_msg, flight, fails, lost, web, exited>>

\* CheckData: only a closed slot with nothing to send asks.
CheckData ==
  /\ round = "open" /\ next_msg = <<>>
  /\ GetData
  /\ UNCHANGED <<sent, round, flight, fails, lost, web, exited>>

\* GenerateSlotMessage: the batch goes into the slot, and the next is got so
\* that its length can be announced.
GenerateSlotMessage ==
  /\ round = "open" /\ next_msg # <<>>
  /\ round' = "slot"
  /\ flight' = next_msg
  /\ GetData
  /\ UNCHANGED <<sent, fails, lost, web, exited>>

\* RoundFinished, the round was not successful: UnGet.
RoundFinished ==
  /\ round # "none" /\ fails < MaxFails
  /\ fails' = fails + 1
  /\ round' = "none"
  /\ m_trim' = 0
  /\ lost' = lost \cup ToSet(flight)
  /\ next_msg' = <<>>
  /\ flight' = <<>>
  /\ UNCHANGED <<sent, m_queue, web, exited>>

-----------------------------------------------------------------------------
(* The listeners *)

\* HandleMessage of the web service and IncomingData of the exit tunnel cut
\* the batch; an empty message at its end is not seen.
Cut(ms) ==
  LET seen == IF ms # <<>> /\ Size[Last(ms)] = 0 THEN Front(ms) ELSE ms IN seen
OfKind(ms, k) == SelectSeq(Cut(ms), LAMBDA m : Kind[m] = k)

\* HandleRequest: the messages from an offset on (count -1), or wait for more.
HandleRequest(list, p, has, waiting) ==
  IF Len(has) = Len(list) THEN [polls |-> has, waits |-> waiting \cup {p}]
  ELSE [polls |-> has \o SubSeq(list, Len(has) + 1, Len(list)), waits |-> waiting \ {p}]

\* The output of the round reaches all listeners (SignalSink, SinkMultiplexer):
\* the exit tunnel, and the web service, which asks again for all who wait.
Output ==
  /\ round = "slot"
  /\ round' = "open"
  /\ flight' = <<>>
  /\ exited' = exited \o OfKind(flight, 1)
  /\ LET list == m_message_list \o OfKind(flight, 0)
         again(p) == HandleRequest(list, p, polls[p], {})
     IN /\ m_message_list' = list
        /\ polls' = [p \in Poller |-> IF p \in m_pending THEN again(p).polls ELSE polls[p]]
        /\ m_pending' = UNION {again(p).waits : p \in m_pending}
  /\ UNCHANGED <<sent, queue, next_msg, fails, lost>>

\* A poller asks for what it does not have, and to wait if there is nothing.
Poll(p) ==
  /\ p \notin m_pending
  /\ LET r == HandleRequest(m_message_list, p, polls[p], m_pending)
     IN polls' = [polls EXCEPT ![p] = r.polls] /\ m_pending' = r.waits
  /\ UNCHANGED <<sent, queue, round, next_msg, flight, fails, lost, m_message_list, exited>>

Init ==
  /\ sent = 0
  /\ m_queue = <<>> /\ m_trim = 0
  /\ round = "none"
  /\ next_msg = <<>> /\ flight = <<>>
  /\ fails = 0 /\ lost = {}
  /\ m_message_list = <<>> /\ m_pending = {}
  /\ polls = [p \in Poller |-> <<>>]
  /\ exited = <<>>

Cycle == StartRound \/ CheckData \/ GenerateSlotMessage \/ Output
Next == Send \/ Cycle \/ RoundFinished \/ \E p \in Poller : Poll(p)

Spec == Init /\ [][Next]_vars

-----------------------------------------------------------------------------
(* Properties *)

Increasing(s) == \A i, j \in DOMAIN s : i < j => s[i] < s[j]
Fit(m) == Framed(m) <= MaxGet /\ Size[m] > 0

\* Messages arrive once and in the order of Send, over any number of rounds;
\* one that fits a batch is kept until it was in a slot, so that a failed round
\* costs the messages of one slot at most (m_trim, UnGet).
KeptUntilSent ==
  /\ Increasing(m_message_list) /\ Increasing(exited)
  /\ \A p \in Poller : IsPrefix(polls[p], m_message_list)
  /\ \A m \in 1..sent :
       Fit(m) => m \in ToSet(m_queue) \cup ToSet(flight) \cup lost
                       \cup ToSet(m_message_list) \cup ToSet(exited)

\* All that fits and was in no slot of a failed round has been read.
AllDelivered ==
  \A m \in 1..sent : Fit(m) /\ m \notin lost =>
    IF Kind[m] = 0 THEN \A p \in Poller : m \in ToSet(polls[p]) ELSE m \in ToSet(exited)
=============================================================================
