----------------------------- MODULE RpcHandler -----------------------------
(***************************************************************************)
(* RpcHandler: requests with an id, the table of those that wait for an    *)
(* answer, their timers, and the table of methods.                         *)
(*                                                                         *)
(* Both tables are Qt maps: reading an absent key with [] inserts a null   *)
(* pointer.  An operator on a handler takes and returns h: the handler's   *)
(* record and what it sends, to the path the request came by.  Messages    *)
(* are kept in order but are lost with the connection that carries them.   *)
(***************************************************************************)
EXTENDS Naturals, Sequences, FiniteSets, Functions, SequencesExt, TLAPS

CONSTANTS
  Node,
  Caller,     \* the nodes that make calls
  Method,     \* names that handlers are registered for
  Initial,    \* the names registered when the node starts
  MaxId,      \* bound: requests and notifications of a node
  MaxLost     \* bound: messages lost

VARIABLES
  rpc,     \* rpc[n]: the RpcHandler of n
  held,    \* held[n]: requests that n's methods still have to answer
  wanted,  \* wanted[n]: names that an owner has registered and not unregistered
  chan,    \* chan[a][b]: messages on their way from a to b
  lost     \* counter

vars == <<rpc, held, wanted, chan, lost>>

Null == [null |-> TRUE]
Absent == "absent"

NewHandler(n) ==   \* of node n
  [callbacks |-> [m \in Method |-> IF m \in Initial THEN "handler" ELSE Absent],
   requests |-> <<>>,   \* id -> state
   timers |-> {},       \* ids whose Timeout is queued
   current |-> 1,       \* _current_id
   done |-> <<>>]       \* the calls of RequestComplete

Empty(n) == [m \in Node |-> <<>>]   \* from n to each
Put(f, id, v) == [i \in DOMAIN f \cup {id} |-> IF i = id THEN v ELSE f[i]]
\* _requests.remove: the RequestState goes, and its destructor stops the timer.
Forget(r, id) ==
  [r EXCEPT !.requests = [i \in DOMAIN @ \ {id} |-> @[i]], !.timers = @ \ {id}]
Complete(r, id, how, of) ==
  [Forget(r, id) EXCEPT !.done = Append(@, [id |-> id, how |-> how, of |-> of])]

-----------------------------------------------------------------------------
(* Sending *)

BuildRequest(id, m, who) == [kind |-> "r", id |-> id, method |-> m, who |-> who]
BuildNotification(id, m, who) == [kind |-> "n", id |-> id, method |-> m, who |-> who]
\* of: the request that is answered, which the program does not know.
Build(q, how) == [kind |-> "p", id |-> q.id, how |-> how, of |-> <<q.who, q.id, q.kind>>]

IncrementId(r) == [r EXCEPT !.current = @ + 1]

SendRequest(n, r, m, timeout) ==
  LET id == r.current
  IN [r |-> [IncrementId(r) EXCEPT
               !.requests = Put(@, id, [null |-> FALSE, timeout |-> timeout]),
               !.timers = @ \cup {id}],
      msg |-> BuildRequest(id, m, n)]
SendNotification(n, r, m) ==
  [r |-> IncrementId(r), msg |-> BuildNotification(r.current, m, n)]

-----------------------------------------------------------------------------
(* Receiving *)

\* A call of a method, or an answer that there is none.
HandleRequest(r, q) ==
  LET cb == r.callbacks[q.method]
  IN IF cb = "handler" THEN [r |-> r, call |-> {q}, reply |-> <<>>]
     ELSE [r |-> [r EXCEPT !.callbacks[q.method] = "null"], call |-> {},
           reply |-> <<Build(q, "InvalidMethod")>>]

KeepsState(r, p) ==   \* mutant: the request stays in the table
  IF p.id \notin DOMAIN r.requests
  THEN [r EXCEPT !.requests = Put(@, p.id, Null)]
  ELSE IF r.requests[p.id].null THEN r
  ELSE [r EXCEPT !.done = Append(@, [id |-> p.id, how |-> p.how, of |-> p.of])]
HandleResponse(r, p) ==
  IF p.id \notin DOMAIN r.requests
  THEN [r EXCEPT !.requests = Put(@, p.id, Null)]
  ELSE IF r.requests[p.id].null THEN r ELSE Complete(r, p.id, p.how, p.of)

\* Timeout: a request that may not time out stays in the table.
Fires(r, id) ==
  IF id \in DOMAIN r.requests /\ r.requests[id].timeout
  THEN Complete(r, id, "Timeout", <<>>)
  ELSE [r EXCEPT !.timers = @ \ {id}]

-----------------------------------------------------------------------------
(* The handlers of the nodes at work *)

Others(n) == Node \ {n}
SetNode(n, r) == rpc' = [rpc EXCEPT ![n] = r]
Send(n, m, msg) == chan' = [chan EXCEPT ![n][m] = Append(@, msg)]

CallRequest(n, m) ==
  /\ n \in Caller /\ rpc[n].current <= MaxId
  /\ \E method \in Method, timeout \in BOOLEAN :
       LET s == SendRequest(n, rpc[n], method, timeout)
       IN SetNode(n, s.r) /\ Send(n, m, s.msg)
  /\ UNCHANGED <<held, wanted, lost>>
CallNotification(n, m) ==
  /\ n \in Caller /\ rpc[n].current <= MaxId
  /\ \E method \in Method :
       LET s == SendNotification(n, rpc[n], method)
       IN SetNode(n, s.r) /\ Send(n, m, s.msg)
  /\ UNCHANGED <<held, wanted, lost>>
CancelRequest(n, id) ==
  /\ id \in DOMAIN rpc[n].requests /\ SetNode(n, Forget(rpc[n], id))
  /\ UNCHANGED <<held, wanted, chan, lost>>

HandleData(n, m) ==
  /\ chan[m][n] # <<>>
  /\ LET q == Head(chan[m][n])
         rest == [chan EXCEPT ![m][n] = Tail(@)]
     IN IF q.kind = "p"
        THEN /\ SetNode(n, HandleResponse(rpc[n], q))
             /\ chan' = rest /\ UNCHANGED held
        ELSE LET h == HandleRequest(rpc[n], q)
             IN /\ SetNode(n, h.r)
                /\ held' = [held EXCEPT ![n] = @ \cup {c \in h.call : c.kind = "r"}]
                /\ chan' = [rest EXCEPT ![n][m] = @ \o h.reply]
  /\ UNCHANGED <<wanted, lost>>

\* The method answers through the RequestResponder, at once or later.
Respond(n, q) ==
  /\ \E how \in {"ok", "Failed"} : Send(n, q.who, Build(q, how))
  /\ held' = [held EXCEPT ![n] = @ \ {q}]
  /\ UNCHANGED <<rpc, wanted, lost>>

Timeout(n, id) ==
  /\ id \in rpc[n].timers /\ SetNode(n, Fires(rpc[n], id))
  /\ UNCHANGED <<held, wanted, chan, lost>>

Register(n, m) ==
  /\ m \notin wanted[n] /\ wanted' = [wanted EXCEPT ![n] = @ \cup {m}]
  /\ SetNode(n, IF rpc[n].callbacks[m] # Absent THEN rpc[n]
                ELSE [rpc[n] EXCEPT !.callbacks[m] = "handler"])
  /\ UNCHANGED <<held, chan, lost>>
Unregister(n, m) ==
  /\ m \in wanted[n] /\ wanted' = [wanted EXCEPT ![n] = @ \ {m}]
  /\ SetNode(n, IF rpc[n].callbacks[m] = "handler"
                THEN [rpc[n] EXCEPT !.callbacks[m] = Absent] ELSE rpc[n])
  /\ UNCHANGED <<held, chan, lost>>

Lose(n, m) ==
  /\ lost < MaxLost /\ chan[n][m] # <<>>
  /\ lost' = lost + 1 /\ chan' = [chan EXCEPT ![n][m] = Tail(@)]
  /\ UNCHANGED <<rpc, held, wanted>>

Init ==
  /\ rpc = [n \in Node |-> NewHandler(n)] /\ held = [n \in Node |-> {}]
  /\ wanted = [n \in Node |-> Initial]
  /\ chan = [n \in Node |-> Empty(n)] /\ lost = 0

Next == \E n \in Node :
  \/ \E m \in Others(n) : \/ CallRequest(n, m) \/ CallNotification(n, m)
                          \/ HandleData(n, m) \/ Lose(n, m)
  \/ \E id \in 1..MaxId : CancelRequest(n, id) \/ Timeout(n, id)
  \/ \E q \in held[n] : Respond(n, q)
  \/ \E m \in Method : Register(n, m) \/ Unregister(n, m)

Spec == Init /\ [][Next]_vars
-----------------------------------------------------------------------------
(* Properties *)

\* Whoever made a request hears of it once, whether the answer, a failure or
\* the timeout comes first, and whatever comes later (HandleResponse, Timeout).
CompletesOnce == \A n \in Node : \A i, j \in DOMAIN rpc[n].done :
                   rpc[n].done[i].id = rpc[n].done[j].id => i = j

\* Timeout reads the state of its id without a test for null: whenever a timer
\* is queued the entry of its id is the request's own (HandleResponse inserts
\* null for an id it does not know).
TimerHasState == \A n \in Node : \A id \in rpc[n].timers :
                   id \in DOMAIN rpc[n].requests => ~rpc[n].requests[id].null

\* What is given to a caller as the answer to its request answers that request,
\* and no other request or notification (_current_id, _requests); it is given
\* once, and a timer that is queued has a request to look at.
RightAnswer ==
  /\ \A n \in Node : \A i \in DOMAIN rpc[n].done :
       LET d == rpc[n].done[i] IN
       d.how # "Timeout" => d.of = <<n, d.id, "r">>
  /\ CompletesOnce /\ TimerHasState

-----------------------------------------------------------------------------
(***************************************************************************)
(* What holds for all nodes, methods and bounds.  The invariant says what  *)
(* is in the tables and in every message on its way: an answer is of a     *)
(* request that was made with its id, or of a notification, whose id waits *)
(* for nothing.                                                            *)
(***************************************************************************)

Live(r, id) == id \in DOMAIN r.requests /\ ~r.requests[id].null
Entries == {Null} \cup [null : {FALSE}, timeout : BOOLEAN]
Fields == {"callbacks", "requests", "timers", "current", "done"}

\* The calls of RequestComplete: one for an id, which does not wait any more.
Heard(n, r) ==
  \A i \in DOMAIN r.done :
    /\ r.done[i].id \in Nat /\ r.done[i].id < r.current /\ ~Live(r, r.done[i].id)
    /\ r.done[i].how # "Timeout" => r.done[i].of = <<n, r.done[i].id, "r">>
    /\ \A j \in DOMAIN r.done : r.done[i].id = r.done[j].id => i = j

Table(n, r) ==
  /\ r = [f \in Fields |-> r[f]]
  /\ r.current \in Nat /\ r.done = [i \in 1..Len(r.done) |-> r.done[i]] /\ Len(r.done) \in Nat
  /\ r.requests = [i \in DOMAIN r.requests |-> r.requests[i]]
  /\ \A id \in DOMAIN r.requests : id \in Nat /\ id < r.current /\ r.requests[id] \in Entries
  /\ \A id \in r.timers : Live(r, id)
  /\ Heard(n, r)

\* What n has asked, and what it may be answered, when its handler is r.
Asks(n, r) ==
  {q \in [kind : {"r", "n"}, id : Nat, method : Method, who : {n}] :
     q.id < r.current /\ (q.kind = "n" => ~Live(r, q.id))}
Answers(n, r) ==
  {p \in [kind : {"p"}, id : Nat, how : {"ok", "Failed", "InvalidMethod"},
          of : {n} \X Nat \X {"r", "n"}] :
     p.of[2] = p.id /\ p.id < r.current /\ (p.of[3] = "n" => ~Live(r, p.id))}
Mail(m, n) == Asks(m, rpc[m]) \cup Answers(n, rpc[n])

Tables == rpc = [n \in Node |-> rpc[n]] /\ \A n \in Node : Table(n, rpc[n])
Letters ==
  /\ chan = [m \in Node |-> chan[m]]
  /\ \A m \in Node : chan[m] = [n \in Node |-> chan[m][n]]
  /\ \A m, n \in Node : chan[m][n] \in Seq(Mail(m, n))
Holding ==
  /\ held = [n \in Node |-> held[n]]
  /\ \A n \in Node : \A q \in held[n] : q.who \in Node /\ q \in Asks(q.who, rpc[q.who])
Inv == Tables /\ Letters /\ Holding

-----------------------------------------------------------------------------
(* Lemmas *)

\* t is r after some calls: ids are not given back, and an id that does not
\* wait for an answer does not wait again.
Grows(r, t) ==
  /\ r.current \in Nat /\ t.current \in Nat /\ r.current <= t.current
  /\ \A id \in Nat : id < r.current /\ ~Live(r, id) => ~Live(t, id)

LEMMA Reflexive ==
  ASSUME NEW n, NEW r, Table(n, r)
  PROVE  Grows(r, r)
BY DEF Grows, Table

LEMMA MailGrows ==
  ASSUME NEW n, NEW r, NEW t, Grows(r, t)
  PROVE  Asks(n, r) \subseteq Asks(n, t) /\ Answers(n, r) \subseteq Answers(n, t)
<1>1. ASSUME NEW q \in Asks(n, r)
      PROVE  q \in Asks(n, t)
  BY <1>1 DEF Asks, Grows
<1>2. ASSUME NEW p \in Answers(n, r)
      PROVE  p \in Answers(n, t)
  BY <1>2 DEF Answers, Grows
<1> QED BY <1>1, <1>2

\* The handler is the same but for the table of methods.
LEMMA SameRequests ==
  ASSUME NEW n, NEW r, Table(n, r), NEW c, NEW t, t = [r EXCEPT !.callbacks = c]
  PROVE  Table(n, t) /\ Grows(r, t)
<1>1. /\ t = [f \in Fields |-> t[f]] /\ t.current = r.current /\ t.done = r.done
      /\ t.requests = r.requests /\ t.timers = r.timers
  BY DEF Table, Fields
<1>2. \A id : Live(t, id) <=> Live(r, id)
  BY <1>1 DEF Live
<1>3. Heard(n, t)
  <2>1. Heard(n, r)
    BY DEF Table
  <2> QED BY ONLY <2>1, <1>1, <1>2 DEF Heard
<1>4. Table(n, t)
  BY <1>1, <1>2, <1>3 DEF Table
<1>5. Grows(r, t)
  BY <1>1, <1>2 DEF Grows, Table
<1> QED BY <1>4, <1>5

LEMMA Requested ==
  ASSUME NEW n, NEW r, Table(n, r), NEW m \in Method, NEW timeout \in BOOLEAN,
         NEW s, s = SendRequest(n, r, m, timeout)
  PROVE  Table(n, s.r) /\ Grows(r, s.r) /\ s.msg \in Asks(n, s.r)
<1> DEFINE t == s.r
           id == r.current
           e == [null |-> FALSE, timeout |-> timeout]
<1>1. /\ t = [f \in Fields |-> t[f]] /\ t.current = r.current + 1 /\ t.done = r.done
      /\ t.requests = Put(r.requests, id, e) /\ t.timers = r.timers \cup {id}
      /\ s.msg = BuildRequest(id, m, n)
  BY DEF Table, Fields, SendRequest, IncrementId
<1>2. id \in Nat
  BY DEF Table
<1> HIDE DEF t, id
<1>3. /\ t.requests = [i \in DOMAIN t.requests |-> t.requests[i]]
      /\ DOMAIN t.requests = DOMAIN r.requests \cup {id} /\ t.requests[id] = e
      /\ \A i \in DOMAIN r.requests : i # id => t.requests[i] = r.requests[i]
  <2> DEFINE g == t.requests
             f == r.requests
  <2>1. g = Put(f, id, e)
    BY <1>1
  <2> HIDE DEF f, g, e
  <2>2. /\ g = [i \in DOMAIN g |-> g[i]]
        /\ DOMAIN g = DOMAIN f \cup {id} /\ g[id] = e
        /\ \A i \in DOMAIN f : i # id => g[i] = f[i]
    BY ONLY <2>1 DEF Put
  <2> QED BY <2>2 DEF f, g
<1>4. e \in Entries /\ ~e.null
  BY DEF Entries
<1> HIDE DEF e
<1>5. Live(t, id) /\ \A i : i # id => (Live(t, i) <=> Live(r, i))
  BY <1>3, <1>4 DEF Live
<1>6. \A i \in DOMAIN t.requests : i \in Nat /\ i < t.current /\ t.requests[i] \in Entries
  <2> SUFFICES ASSUME NEW i \in DOMAIN t.requests
               PROVE  i \in Nat /\ i < t.current /\ t.requests[i] \in Entries
    OBVIOUS
  <2>1. CASE i = id
    BY <2>1, <1>1, <1>2, <1>3, <1>4 DEF id
  <2>2. CASE i # id
    <3>1. i \in DOMAIN r.requests /\ t.requests[i] = r.requests[i]
      BY <2>2, <1>3
    <3>2. i \in Nat /\ i < id /\ r.requests[i] \in Entries
      BY <3>1 DEF Table, id
    <3> QED BY <3>1, <3>2, <1>1, <1>2 DEF id
  <2> QED BY <2>1, <2>2
<1>7. \A i \in t.timers : Live(t, i)
  BY <1>1, <1>5 DEF Table
<1>8. Heard(n, t)
  <2> SUFFICES ASSUME NEW i \in DOMAIN r.done
               PROVE  /\ r.done[i].id \in Nat /\ r.done[i].id < t.current
                      /\ ~Live(t, r.done[i].id)
                      /\ r.done[i].how # "Timeout" => r.done[i].of = <<n, r.done[i].id, "r">>
                      /\ \A j \in DOMAIN r.done : r.done[i].id = r.done[j].id => i = j
    BY <1>1 DEF Heard
  <2>1. /\ r.done[i].id \in Nat /\ r.done[i].id < id /\ ~Live(r, r.done[i].id)
        /\ r.done[i].how # "Timeout" => r.done[i].of = <<n, r.done[i].id, "r">>
        /\ \A j \in DOMAIN r.done : r.done[i].id = r.done[j].id => i = j
    BY DEF Table, Heard, id
  <2>2. ~Live(t, r.done[i].id)
    BY <2>1, <1>2, <1>5
  <2>3. r.done[i].id < t.current
    BY <2>1, <1>1, <1>2 DEF id
  <2> QED BY <2>1, <2>2, <2>3
<1>9. Table(n, t)
  <2>1. t.current \in Nat
    BY <1>1, <1>2 DEF id
  <2>2. t.done = [i \in 1..Len(t.done) |-> t.done[i]] /\ Len(t.done) \in Nat
    BY <1>1 DEF Table
  <2> QED BY <2>1, <2>2, <1>1, <1>3, <1>6, <1>7, <1>8 DEF Table
<1>10. Grows(r, t)
  <2>1. \A i \in Nat : i < r.current /\ ~Live(r, i) => ~Live(t, i)
    BY <1>2, <1>5 DEF id
  <2> QED BY <2>1, <1>1, <1>2 DEF Grows, id
<1>11. s.msg \in Asks(n, t)
  BY <1>1, <1>2 DEF Asks, BuildRequest, id
<1> QED BY <1>9, <1>10, <1>11 DEF t

LEMMA Notified ==
  ASSUME NEW n, NEW r, Table(n, r), NEW m \in Method, NEW s, s = SendNotification(n, r, m)
  PROVE  Table(n, s.r) /\ Grows(r, s.r) /\ s.msg \in Asks(n, s.r)
<1> DEFINE t == s.r
           id == r.current
<1>1. /\ t = [f \in Fields |-> t[f]] /\ t.current = r.current + 1 /\ t.done = r.done
      /\ t.requests = r.requests /\ t.timers = r.timers
      /\ s.msg = BuildNotification(id, m, n)
  BY DEF Table, Fields, SendNotification, IncrementId
<1>2. id \in Nat /\ ~Live(r, id)
  <2>1. /\ id \in Nat
        /\ \A i \in DOMAIN r.requests : i \in Nat /\ i < id
    BY DEF Table
  <2> QED BY <2>1 DEF Live
<1> HIDE DEF t, id
<1>3. \A i : Live(t, i) <=> Live(r, i)
  BY <1>1 DEF Live
<1>4. t.current \in Nat /\ id < t.current /\ \A i \in Nat : i < id => i < t.current
  BY <1>1, <1>2 DEF id
<1>5. \A i \in DOMAIN r.requests : i \in Nat /\ i < t.current /\ r.requests[i] \in Entries
  BY <1>4 DEF Table, id
<1>6. Heard(n, t)
  BY <1>1, <1>3, <1>4 DEF Table, Heard, id
<1>7. Table(n, t)
  BY <1>1, <1>3, <1>4, <1>5, <1>6 DEF Table
<1>8. Grows(r, t)
  BY <1>1, <1>2, <1>3, <1>4 DEF Grows, id
<1>9. s.msg \in Asks(n, t)
  BY <1>1, <1>2, <1>3, <1>4 DEF Asks, BuildNotification
<1> QED BY <1>7, <1>8, <1>9 DEF t

LEMMA Forgotten ==
  ASSUME NEW n, NEW r, Table(n, r), NEW id, NEW t, t = Forget(r, id)
  PROVE  Table(n, t) /\ Grows(r, t) /\ ~Live(t, id) /\ t.done = r.done /\ t.current = r.current
<1>1. /\ t = [f \in Fields |-> t[f]] /\ t.current = r.current /\ t.done = r.done
      /\ t.requests = [i \in DOMAIN r.requests \ {id} |-> r.requests[i]]
      /\ t.timers = r.timers \ {id}
  <2> DEFINE g == [i \in DOMAIN r.requests \ {id} |-> r.requests[i]]
  <2>1. t = [r EXCEPT !.requests = g, !.timers = r.timers \ {id}]
    BY DEF Forget
  <2>2. r = [f \in Fields |-> r[f]]
    BY DEF Table
  <2> HIDE DEF g
  <2>3. /\ t = [f \in Fields |-> t[f]] /\ t.current = r.current /\ t.done = r.done
        /\ t.requests = g /\ t.timers = r.timers \ {id}
    BY ONLY <2>1, <2>2 DEF Fields
  <2> QED BY <2>3 DEF g
<1>2. ~Live(t, id) /\ \A i : i # id => (Live(t, i) <=> Live(r, i))
  BY <1>1 DEF Live
<1>3. Heard(n, t)
  <2>1. Heard(n, r)
    BY DEF Table
  <2> QED BY ONLY <2>1, <1>1, <1>2 DEF Heard
<1>4. Table(n, t)
  BY <1>1, <1>2, <1>3 DEF Table
<1>5. Grows(r, t)
  BY <1>1, <1>2 DEF Grows, Table
<1> QED BY <1>1, <1>2, <1>4, <1>5

\* RequestComplete for an id that waits: it has not been called for it before.
LEMMA Completed ==
  ASSUME NEW n, NEW r, Table(n, r), NEW id, Live(r, id), NEW how, NEW of,
         how # "Timeout" => of = <<n, id, "r">>,
         NEW t, t = Complete(r, id, how, of)
  PROVE  Table(n, t) /\ Grows(r, t)
<1> DEFINE u == Forget(r, id)
           d == [id |-> id, how |-> how, of |-> of]
<1>1. Table(n, u) /\ Grows(r, u) /\ ~Live(u, id) /\ u.done = r.done /\ u.current = r.current
  <2> HIDE DEF u
  <2>1. u = Forget(r, id)
    BY DEF u
  <2> QED BY <2>1, Forgotten
<1>2. id \in Nat /\ id < r.current
  BY DEF Table, Live
<1>3. t = [u EXCEPT !.done = Append(u.done, d)]
  BY DEF Complete
<1> HIDE DEF u
<1>4. /\ t = [f \in Fields |-> t[f]] /\ t.current = u.current /\ t.requests = u.requests
      /\ t.timers = u.timers /\ t.done = Append(u.done, d)
  BY <1>1, <1>3 DEF Table, Fields
<1>5. \A i : Live(t, i) <=> Live(u, i)
  BY <1>4 DEF Live
<1>6. /\ Len(u.done) \in Nat /\ DOMAIN u.done = 1..Len(u.done)
      /\ Len(t.done) = Len(u.done) + 1 /\ DOMAIN t.done = 1..(Len(u.done) + 1)
      /\ t.done = [i \in 1..Len(t.done) |-> t.done[i]]
      /\ t.done[Len(u.done) + 1] = d
      /\ \A i \in 1..Len(u.done) : t.done[i] = u.done[i]
  <2> DEFINE s == u.done
  <2>1. s = [i \in 1..Len(s) |-> s[i]] /\ Len(s) \in Nat
    BY <1>1 DEF Table
  <2> HIDE DEF s, d
  <2> DEFINE S == {s[i] : i \in 1..Len(s)} \cup {d}
             w == t.done
  <2>2. s \in Seq(S) /\ d \in S
    BY <2>1
  <2>3. DOMAIN s = 1..Len(s)
    BY <2>1
  <2>4. w = Append(s, d)
    BY <1>4 DEF s
  <2> HIDE DEF w, S
  <2>5. w \in Seq(S) /\ Len(w) = Len(s) + 1
    BY ONLY <2>2, <2>4
  <2>6. w[Len(s) + 1] = d /\ \A i \in 1..Len(s) : w[i] = s[i]
    BY ONLY <2>2, <2>4
  <2>7. DOMAIN w = 1..(Len(s) + 1) /\ w = [i \in 1..Len(w) |-> w[i]]
    BY ONLY <2>1, <2>5
  <2> QED BY <2>1, <2>3, <2>5, <2>6, <2>7 DEF w, s
<1>7. Heard(n, t)
  <2> DEFINE k == Len(u.done)
             v == u.done
             w == t.done
  <2>1. \A i \in 1..k :
          /\ v[i].id \in Nat /\ v[i].id < u.current /\ ~Live(u, v[i].id)
          /\ v[i].how # "Timeout" => v[i].of = <<n, v[i].id, "r">>
          /\ \A j \in 1..k : v[i].id = v[j].id => i = j
    <3>1. Heard(n, u)
      BY <1>1 DEF Table
    <3> QED BY <3>1, <1>6 DEF Heard
  <2>2. /\ k \in Nat /\ DOMAIN w = 1..(k + 1) /\ w[k + 1] = d
        /\ \A i \in 1..k : w[i] = v[i]
    BY <1>6
  <2>3. \A i \in 1..k : v[i].id # id
    <3>1. \A i \in 1..k : ~Live(r, v[i].id)
      <4>1. Heard(n, r) /\ v = r.done /\ DOMAIN v = 1..k
        BY <1>1, <1>6 DEF Table
      <4> QED BY ONLY <4>1 DEF Heard
    <3> QED BY <3>1
  <2> HIDE DEF k, v
  <2>4. ASSUME NEW i \in DOMAIN w
        PROVE  /\ w[i].id \in Nat /\ w[i].id < t.current /\ ~Live(t, w[i].id)
               /\ w[i].how # "Timeout" => w[i].of = <<n, w[i].id, "r">>
               /\ \A j \in DOMAIN w : w[i].id = w[j].id => i = j
    <3> HIDE DEF w
    <3>1. CASE i = k + 1
      <4>1. w[i].id = id /\ w[i].how = how /\ w[i].of = of
        BY <3>1, <2>2
      <4>2. \A j \in 1..k : w[j].id # id
        BY <2>2, <2>3
      <4> QED BY <3>1, <4>1, <4>2, <1>1, <1>2, <1>4, <1>5, <2>2
    <3>2. CASE i \in 1..k
      <4>1. w[i] = v[i] /\ w[k + 1].id = id
        BY <3>2, <2>2
      <4> QED BY <3>2, <4>1, <2>1, <2>2, <2>3, <1>4, <1>5
    <3> QED BY <3>1, <3>2, <2>2
  <2> QED BY <2>4 DEF Heard
<1>8. Table(n, t)
  <2>1. t.current \in Nat /\ Len(t.done) \in Nat
    BY <1>1, <1>4, <1>6 DEF Table
  <2>2. \A i \in t.timers : Live(t, i)
    BY <1>1, <1>4, <1>5 DEF Table
  <2>3. /\ t.requests = [i \in DOMAIN t.requests |-> t.requests[i]]
        /\ \A i \in DOMAIN t.requests : i \in Nat /\ i < t.current /\ t.requests[i] \in Entries
    BY <1>1, <1>4 DEF Table
  <2>4. t = [f \in Fields |-> t[f]]
    BY <1>4
  <2>5. t.done = [i \in 1..Len(t.done) |-> t.done[i]]
    BY <1>6
  <2> QED BY ONLY <2>1, <2>2, <2>3, <2>4, <2>5, <1>7 DEF Table
<1>9. Grows(r, t)
  BY <1>1, <1>4, <1>5 DEF Grows
<1> QED BY <1>8, <1>9

\* A null entry for an id that does not wait.
LEMMA NullPut ==
  ASSUME NEW n, NEW r, Table(n, r), NEW id \in Nat, id < r.current, id \notin DOMAIN r.requests,
         NEW t, t = [r EXCEPT !.requests = Put(r.requests, id, Null)]
  PROVE  Table(n, t) /\ Grows(r, t)
<1>1. /\ t = [f \in Fields |-> t[f]] /\ t.current = r.current /\ t.done = r.done
      /\ t.requests = Put(r.requests, id, Null) /\ t.timers = r.timers
  BY DEF Table, Fields
<1>2. /\ t.requests = [i \in DOMAIN t.requests |-> t.requests[i]]
      /\ DOMAIN t.requests = DOMAIN r.requests \cup {id} /\ t.requests[id] = Null
      /\ \A i \in DOMAIN r.requests : i # id => t.requests[i] = r.requests[i]
  <2> DEFINE g == t.requests
             f == r.requests
  <2>1. g = Put(f, id, Null)
    BY <1>1
  <2> HIDE DEF f, g
  <2>2. /\ g = [i \in DOMAIN g |-> g[i]]
        /\ DOMAIN g = DOMAIN f \cup {id} /\ g[id] = Null
        /\ \A i \in DOMAIN f : i # id => g[i] = f[i]
    BY ONLY <2>1 DEF Put
  <2> QED BY <2>2 DEF f, g
<1>3. \A i : Live(t, i) <=> Live(r, i)
  BY <1>2 DEF Live, Null
<1>4. \A i \in DOMAIN t.requests : i \in Nat /\ i < t.current /\ t.requests[i] \in Entries
  BY <1>1, <1>2 DEF Table, Entries
<1>5. Heard(n, t)
  <2>1. Heard(n, r)
    BY DEF Table
  <2> QED BY ONLY <2>1, <1>1, <1>3 DEF Heard
<1>6. Table(n, t)
  BY <1>1, <1>2, <1>3, <1>4, <1>5 DEF Table
<1>7. Grows(r, t)
  BY <1>1, <1>3 DEF Grows, Table
<1> QED BY <1>6, <1>7

LEMMA ResponseHandled ==
  ASSUME NEW n, NEW r, Table(n, r), NEW p \in Answers(n, r), NEW t, t = HandleResponse(r, p)
  PROVE  Table(n, t) /\ Grows(r, t)
<1>1. /\ p.id \in Nat /\ p.id < r.current /\ p.of[2] = p.id /\ p.of[1] = n
      /\ p.of = <<p.of[1], p.of[2], p.of[3]>> /\ p.of[3] \in {"r", "n"}
      /\ p.of[3] = "n" => ~Live(r, p.id)
  BY DEF Answers
<1>2. CASE p.id \notin DOMAIN r.requests
  <2>1. t = [r EXCEPT !.requests = Put(r.requests, p.id, Null)]
    BY <1>2 DEF HandleResponse
  <2> QED BY <1>1, <1>2, <2>1, NullPut
<1>3. CASE p.id \in DOMAIN r.requests /\ r.requests[p.id].null
  BY <1>3, Reflexive DEF HandleResponse
<1>4. CASE Live(r, p.id)
  <2>1. t = Complete(r, p.id, p.how, p.of)
    BY <1>4 DEF HandleResponse, Live
  <2>2. p.of = <<n, p.id, "r">>
    BY <1>1, <1>4
  <2> QED BY <1>4, <2>1, <2>2, Completed
<1> QED BY <1>2, <1>3, <1>4 DEF Live

LEMMA Fired ==
  ASSUME NEW n, NEW r, Table(n, r), NEW id \in r.timers, NEW t, t = Fires(r, id)
  PROVE  Table(n, t) /\ Grows(r, t)
<1>1. Live(r, id)
  BY DEF Table
<1>2. CASE r.requests[id].timeout
  <2>1. t = Complete(r, id, "Timeout", <<>>)
    BY <1>1, <1>2 DEF Fires, Live
  <2> QED BY <1>1, <2>1, Completed
<1>3. CASE ~r.requests[id].timeout
  <2>1. t = [r EXCEPT !.timers = r.timers \ {id}]
    BY <1>1, <1>3 DEF Fires, Live
  <2>2. /\ t = [f \in Fields |-> t[f]] /\ t.current = r.current /\ t.done = r.done
        /\ t.requests = r.requests /\ t.timers = r.timers \ {id}
    BY <2>1 DEF Table, Fields
  <2>3. \A i : Live(t, i) <=> Live(r, i)
    BY <2>2 DEF Live
  <2>4. Heard(n, t)
    <3>1. Heard(n, r)
      BY DEF Table
    <3> QED BY ONLY <3>1, <2>2, <2>3 DEF Heard
  <2>5. Table(n, t)
    BY <2>2, <2>3, <2>4 DEF Table
  <2>6. Grows(r, t)
    BY <2>2, <2>3 DEF Grows, Table
  <2> QED BY <2>5, <2>6
<1> QED BY <1>2, <1>3

\* A call of a method is held by the callee, or answered: both belong to m.
LEMMA RequestHandled ==
  ASSUME NEW n, NEW r, Table(n, r), NEW m, NEW a, NEW q \in Asks(m, a),
         NEW h, h = HandleRequest(r, q)
  PROVE  /\ Table(n, h.r) /\ Grows(r, h.r) /\ h.call \subseteq {q}
         /\ h.reply \in Seq(Answers(m, a))
<1>1. CASE r.callbacks[q.method] = "handler"
  <2>1. h.r = r /\ h.call = {q} /\ h.reply = <<>>
    BY <1>1 DEF HandleRequest
  <2> QED BY <2>1, Reflexive
<1>2. CASE r.callbacks[q.method] # "handler"
  <2> DEFINE c == [r.callbacks EXCEPT ![q.method] = "null"]
             t == h.r
  <2>1. t = [r EXCEPT !.callbacks = c] /\ h.call = {}
        /\ h.reply = <<Build(q, "InvalidMethod")>>
    BY <1>2 DEF HandleRequest
  <2> HIDE DEF c, t
  <2>2. Table(n, t) /\ Grows(r, t)
    BY <2>1, SameRequests
  <2>3. Build(q, "InvalidMethod") \in Answers(m, a)
    BY DEF Build, Asks, Answers
  <2> HIDE DEF t
  <2>4. h.reply \in Seq(Answers(m, a))
    BY <2>1, <2>3
  <2> QED BY <2>1, <2>2, <2>4 DEF t
<1> QED BY <1>1, <1>2

-----------------------------------------------------------------------------
(* Steps *)

\* The handler of n becomes t: no other table changes, and what is on its way
\* still answers, or asks, what it did.
LEMMA Becomes ==
  ASSUME Tables, NEW n \in Node, NEW t, Table(n, t), Grows(rpc[n], t), SetNode(n, t)
  PROVE  /\ Tables'
         /\ \A m, k \in Node : Mail(m, k) \subseteq Mail(m, k)'
         /\ \A m \in Node : /\ Asks(m, rpc[m]) \subseteq Asks(m, rpc'[m])
                            /\ Answers(m, rpc[m]) \subseteq Answers(m, rpc'[m])
         /\ rpc'[n] = t
<1>1. /\ rpc' = [m \in Node |-> rpc'[m]] /\ rpc'[n] = t
      /\ \A m \in Node : m # n => rpc'[m] = rpc[m]
  BY DEF SetNode, Tables
<1>2. Tables'
  BY <1>1 DEF Tables
<1>3. \A m \in Node : /\ Asks(m, rpc[m]) \subseteq Asks(m, rpc'[m])
                      /\ Answers(m, rpc[m]) \subseteq Answers(m, rpc'[m])
  <2>1. /\ Asks(n, rpc[n]) \subseteq Asks(n, t)
        /\ Answers(n, rpc[n]) \subseteq Answers(n, t)
    BY MailGrows
  <2> QED BY <2>1, <1>1
<1>4. \A m, k \in Node : Mail(m, k) \subseteq Mail(m, k)'
  BY <1>3 DEF Mail
<1> QED BY <1>1, <1>2, <1>3, <1>4

LEMMA SeqGrows ==
  ASSUME NEW S, NEW T, S \subseteq T, NEW s \in Seq(S)
  PROVE  s \in Seq(T)
OBVIOUS

\* What is on its way stays mail, when it only becomes less.
LEMMA StillMail ==
  ASSUME Letters, \A m, k \in Node : Mail(m, k) \subseteq Mail(m, k)',
         NEW m \in Node, NEW k \in Node
  PROVE  chan[m][k] \in Seq(Mail(m, k)')
<1>1. chan[m][k] \in Seq(Mail(m, k)) /\ Mail(m, k) \subseteq Mail(m, k)'
  BY DEF Letters
<1> QED BY <1>1, SeqGrows

LEMMA StillLetters ==
  ASSUME Letters, \A m, k \in Node : Mail(m, k) \subseteq Mail(m, k)', UNCHANGED chan
  PROVE  Letters'
<1>1. \A m, k \in Node : chan[m][k] \in Seq(Mail(m, k)')
  BY StillMail
<1> QED BY <1>1 DEF Letters

LEMMA Sent ==
  ASSUME Letters, \A m, k \in Node : Mail(m, k) \subseteq Mail(m, k)',
         NEW n \in Node, NEW m \in Node, NEW msg \in Mail(n, m)', Send(n, m, msg)
  PROVE  Letters'
<1>1. \A a, b \in Node : chan[a][b] \in Seq(Mail(a, b)')
  BY StillMail
<1>2. /\ chan' = [a \in Node |-> chan'[a]]
      /\ \A a \in Node : chan'[a] = [b \in Node |-> chan'[a][b]]
      /\ chan'[n][m] = Append(chan[n][m], msg)
      /\ \A a, b \in Node : <<a, b>> # <<n, m>> => chan'[a][b] = chan[a][b]
  BY DEF Send, Letters
<1>3. chan'[n][m] \in Seq(Mail(n, m)')
  <2> DEFINE S == Mail(n, m)'
             s == chan[n][m]
  <2>1. s \in Seq(S) /\ msg \in S
    BY <1>1
  <2> HIDE DEF S, s
  <2>2. Append(s, msg) \in Seq(S)
    BY ONLY <2>1
  <2> QED BY <2>2, <1>2 DEF S, s
<1>4. \A a, b \in Node : chan'[a][b] \in Seq(Mail(a, b)')
  BY <1>1, <1>2, <1>3
<1> QED BY <1>2, <1>4 DEF Letters

LEMMA StillHeld ==
  ASSUME Holding, UNCHANGED held,
         \A m \in Node : Asks(m, rpc[m]) \subseteq Asks(m, rpc'[m])
  PROVE  Holding'
BY DEF Holding

LEMMA CallKeeps ==
  ASSUME Inv, NEW n \in Node, NEW m \in Node, CallRequest(n, m) \/ CallNotification(n, m)
  PROVE  Inv'
<1>1. PICK s : /\ Table(n, s.r) /\ Grows(rpc[n], s.r) /\ s.msg \in Asks(n, s.r)
               /\ SetNode(n, s.r) /\ Send(n, m, s.msg) /\ UNCHANGED held
  <2>1. Table(n, rpc[n])
    BY DEF Inv, Tables
  <2>2. CASE CallRequest(n, m)
    <3>1. PICK method \in Method, timeout \in BOOLEAN :
            LET s == SendRequest(n, rpc[n], method, timeout)
            IN SetNode(n, s.r) /\ Send(n, m, s.msg)
      BY <2>2 DEF CallRequest
    <3> DEFINE s == SendRequest(n, rpc[n], method, timeout)
    <3>2. Table(n, s.r) /\ Grows(rpc[n], s.r) /\ s.msg \in Asks(n, s.r)
      BY <2>1, Requested
    <3> QED BY <2>2, <3>1, <3>2 DEF CallRequest
  <2>3. CASE CallNotification(n, m)
    <3>1. PICK method \in Method :
            LET s == SendNotification(n, rpc[n], method)
            IN SetNode(n, s.r) /\ Send(n, m, s.msg)
      BY <2>3 DEF CallNotification
    <3> DEFINE s == SendNotification(n, rpc[n], method)
    <3>2. Table(n, s.r) /\ Grows(rpc[n], s.r) /\ s.msg \in Asks(n, s.r)
      BY <2>1, Notified
    <3> QED BY <2>3, <3>1, <3>2 DEF CallNotification
  <2> QED BY <2>2, <2>3
<1> DEFINE t == s.r
<1> HIDE DEF t
<1>2. Tables /\ Letters /\ Holding
  BY DEF Inv
<1>3. Table(n, t) /\ Grows(rpc[n], t) /\ SetNode(n, t)
  BY <1>1 DEF t
<1>4. /\ Tables' /\ \A a, b \in Node : Mail(a, b) \subseteq Mail(a, b)'
      /\ \A a \in Node : Asks(a, rpc[a]) \subseteq Asks(a, rpc'[a])
      /\ rpc'[n] = t
  BY <1>2, <1>3, Becomes
<1>5. s.msg \in Mail(n, m)'
  BY <1>1, <1>4 DEF Mail, t
<1>6. Letters'
  BY <1>1, <1>2, <1>4, <1>5, Sent
<1>7. Holding'
  BY <1>1, <1>2, <1>4, StillHeld
<1> QED BY <1>4, <1>6, <1>7 DEF Inv

\* CancelRequest, Timeout, Register and Unregister: only the handler changes.
LEMMA HandlerKeeps ==
  ASSUME Inv, NEW n \in Node, NEW t, Table(n, t), Grows(rpc[n], t), SetNode(n, t),
         UNCHANGED <<held, chan>>
  PROVE  Inv'
<1>1. Tables /\ Letters /\ Holding
  BY DEF Inv
<1>2. /\ Tables' /\ \A a, b \in Node : Mail(a, b) \subseteq Mail(a, b)'
      /\ \A a \in Node : Asks(a, rpc[a]) \subseteq Asks(a, rpc'[a])
  BY <1>1, Becomes
<1>3. Letters'
  BY <1>1, <1>2, StillLetters
<1>4. Holding'
  BY <1>1, <1>2, StillHeld
<1> QED BY <1>2, <1>3, <1>4 DEF Inv

LEMMA LocalKeeps ==
  ASSUME Inv, NEW n \in Node,
         \/ \E id \in 1..MaxId : CancelRequest(n, id) \/ Timeout(n, id)
         \/ \E m \in Method : Register(n, m) \/ Unregister(n, m)
  PROVE  Inv'
<1> DEFINE r == rpc[n]
<1>1. Table(n, r) /\ Grows(r, r)
  BY Reflexive DEF Inv, Tables
<1>2. ASSUME NEW id, CancelRequest(n, id)
      PROVE  Inv'
  <2> DEFINE t == Forget(r, id)
  <2>1. Table(n, t) /\ Grows(r, t)
    BY <1>1, Forgotten
  <2>2. SetNode(n, t) /\ UNCHANGED <<held, chan>>
    BY <1>2 DEF CancelRequest
  <2> HIDE DEF t
  <2> QED BY <2>1, <2>2, HandlerKeeps
<1>3. ASSUME NEW id, Timeout(n, id)
      PROVE  Inv'
  <2> DEFINE t == Fires(r, id)
  <2>1. SetNode(n, t) /\ id \in r.timers /\ UNCHANGED <<held, chan>>
    BY <1>3 DEF Timeout
  <2>2. Table(n, t) /\ Grows(r, t)
    BY <1>1, <2>1, Fired
  <2> HIDE DEF t
  <2> QED BY <2>1, <2>2, HandlerKeeps
<1>4. ASSUME NEW m \in Method, Register(n, m) \/ Unregister(n, m)
      PROVE  Inv'
  <2>1. UNCHANGED <<held, chan>>
    BY <1>4 DEF Register, Unregister
  <2>2. PICK c : SetNode(n, r) \/ SetNode(n, [r EXCEPT !.callbacks = c])
    <3>1. CASE Register(n, m)
      <4> DEFINE c == [r.callbacks EXCEPT ![m] = "handler"]
      <4>1. SetNode(n, r) \/ SetNode(n, [r EXCEPT !.callbacks = c])
        BY <3>1 DEF Register
      <4> QED BY <4>1
    <3>2. CASE Unregister(n, m)
      <4> DEFINE c == [r.callbacks EXCEPT ![m] = Absent]
      <4>1. SetNode(n, r) \/ SetNode(n, [r EXCEPT !.callbacks = c])
        BY <3>2 DEF Unregister
      <4> QED BY <4>1
    <3> QED BY <1>4, <3>1, <3>2
  <2>3. CASE SetNode(n, r)
    BY <1>1, <2>1, <2>3, HandlerKeeps
  <2>4. CASE SetNode(n, [r EXCEPT !.callbacks = c])
    <3> DEFINE t == [r EXCEPT !.callbacks = c]
    <3>1. Table(n, t) /\ Grows(r, t)
      BY <1>1, SameRequests
    <3>2. SetNode(n, t)
      BY <2>4
    <3> HIDE DEF t
    <3> QED BY <2>1, <3>1, <3>2, HandlerKeeps
  <2> QED BY <2>2, <2>3, <2>4
<1> QED BY <1>2, <1>3, <1>4

\* What remains of a channel when its first message is taken.
LEMMA TailMail ==
  ASSUME NEW S, NEW s \in Seq(S), s # <<>>
  PROVE  Head(s) \in S /\ Tail(s) \in Seq(S)
OBVIOUS

LEMMA DataKeeps ==
  ASSUME Inv, NEW n \in Node, NEW m \in Others(n), HandleData(n, m)
  PROVE  Inv'
<1> DEFINE r == rpc[n]
           q == Head(chan[m][n])
<1>1. /\ Tables /\ Letters /\ Holding /\ m \in Node /\ m # n /\ Table(n, r)
      /\ chan[m][n] \in Seq(Mail(m, n)) /\ chan[m][n] # <<>>
  BY DEF Inv, Tables, Letters, Others, HandleData
<1>2. q \in Asks(m, rpc[m]) \cup Answers(n, r)
  BY <1>1, TailMail DEF Mail
<1>3. PICK t, call, reply :
        /\ Table(n, t) /\ Grows(r, t) /\ SetNode(n, t)
        /\ chan' = [[chan EXCEPT ![m][n] = Tail(chan[m][n])] EXCEPT
                      ![n][m] = chan[n][m] \o reply]
        /\ reply \in Seq(Answers(m, rpc[m]))
        /\ call \subseteq Asks(m, rpc[m])
        /\ held' = [held EXCEPT ![n] = held[n] \cup call]
  <2>1. CASE q.kind = "p"
    <3> DEFINE t == HandleResponse(r, q)
    <3>1. q \in Answers(n, r)
      BY <1>2, <2>1 DEF Asks
    <3>2. Table(n, t) /\ Grows(r, t)
      BY <1>1, <3>1, ResponseHandled
    <3>3. /\ SetNode(n, t) /\ UNCHANGED held
          /\ chan' = [chan EXCEPT ![m][n] = Tail(chan[m][n])]
      BY <2>1 DEF HandleData
    <3>4. chan' = [[chan EXCEPT ![m][n] = Tail(chan[m][n])] EXCEPT
                     ![n][m] = chan[n][m] \o <<>>]
      <4> DEFINE s == chan[n][m]
      <4>1. s \in Seq(Mail(n, m))
        BY <1>1 DEF Letters
      <4> HIDE DEF s
      <4>2. s \o <<>> = s
        BY <4>1
      <4> QED BY <1>1, <3>3, <4>2 DEF s, Letters
    <3>5. held' = [held EXCEPT ![n] = held[n] \cup {}]
      BY <1>1, <3>3 DEF Holding
    <3>6. <<>> \in Seq(Answers(m, rpc[m])) /\ {} \subseteq Asks(m, rpc[m])
      OBVIOUS
    <3> HIDE DEF t
    <3> QED BY <3>2, <3>3, <3>4, <3>5, <3>6
  <2>2. CASE q.kind # "p"
    <3> DEFINE h == HandleRequest(r, q)
               call == {c \in h.call : c.kind = "r"}
    <3>1. q \in Asks(m, rpc[m])
      BY <1>2, <2>2 DEF Answers
    <3>2. /\ Table(n, h.r) /\ Grows(r, h.r) /\ h.call \subseteq {q}
          /\ h.reply \in Seq(Answers(m, rpc[m]))
      BY <1>1, <3>1, RequestHandled
    <3>3. /\ SetNode(n, h.r) /\ held' = [held EXCEPT ![n] = held[n] \cup call]
          /\ chan' = [[chan EXCEPT ![m][n] = Tail(chan[m][n])] EXCEPT
                        ![n][m] = @ \o h.reply]
      BY <2>2 DEF HandleData
    <3>4. [chan EXCEPT ![m][n] = Tail(chan[m][n])][n][m] = chan[n][m]
      BY <1>1 DEF Letters
    <3>5. call \subseteq Asks(m, rpc[m])
      BY <3>1, <3>2
    <3> HIDE DEF h, call
    <3> QED BY <3>2, <3>3, <3>4, <3>5
  <2> QED BY <2>1, <2>2
<1>4. /\ Tables' /\ \A a, b \in Node : Mail(a, b) \subseteq Mail(a, b)'
      /\ \A a \in Node : /\ Asks(a, rpc[a]) \subseteq Asks(a, rpc'[a])
                         /\ Answers(a, rpc[a]) \subseteq Answers(a, rpc'[a])
  BY <1>1, <1>3, Becomes
<1>5. Letters'
  <2>1. \A a, b \in Node : chan[a][b] \in Seq(Mail(a, b)')
    BY <1>1, <1>4, StillMail
  <2>2. /\ chan' = [a \in Node |-> chan'[a]]
        /\ \A a \in Node : chan'[a] = [b \in Node |-> chan'[a][b]]
        /\ chan'[m][n] = Tail(chan[m][n]) /\ chan'[n][m] = chan[n][m] \o reply
        /\ \A a, b \in Node :
             <<a, b>> # <<n, m>> /\ <<a, b>> # <<m, n>> => chan'[a][b] = chan[a][b]
    BY <1>1, <1>3 DEF Letters
  <2>3. chan'[m][n] \in Seq(Mail(m, n)')
    BY <1>1, <2>1, <2>2, TailMail
  <2>4. chan'[n][m] \in Seq(Mail(n, m)')
    <3> DEFINE S == Mail(n, m)'
               s == chan[n][m]
    <3>1. Answers(m, rpc[m]) \subseteq S
      BY <1>1, <1>4 DEF Mail
    <3>2. s \in Seq(S)
      BY <1>1, <2>1
    <3>3. reply \in Seq(S)
      BY <1>3, <3>1, SeqGrows
    <3> HIDE DEF S, s
    <3>4. s \o reply \in Seq(S)
      BY ONLY <3>2, <3>3
    <3> QED BY <2>2, <3>4 DEF S, s
  <2>5. \A a, b \in Node : chan'[a][b] \in Seq(Mail(a, b)')
    BY <2>1, <2>2, <2>3, <2>4
  <2> QED BY <2>2, <2>5 DEF Letters
<1>6. Holding'
  <2>1. /\ held' = [a \in Node |-> held'[a]] /\ held'[n] = held[n] \cup call
        /\ \A a \in Node : a # n => held'[a] = held[a]
    BY <1>1, <1>3 DEF Holding
  <2>2. ASSUME NEW a \in Node, NEW x \in held'[a]
        PROVE  x.who \in Node /\ x \in Asks(x.who, rpc'[x.who])
    <3>1. CASE x \in held[a]
      BY <1>1, <1>4, <3>1 DEF Holding
    <3>2. CASE x \in call
      <4>1. x \in Asks(m, rpc'[m]) /\ x.who = m
        BY <1>1, <1>3, <1>4, <3>2 DEF Asks
      <4> QED BY <1>1, <4>1
    <3> QED BY <2>1, <2>2, <3>1, <3>2
  <2> QED BY <2>1, <2>2 DEF Holding
<1> QED BY <1>4, <1>5, <1>6 DEF Inv

LEMMA RespondKeeps ==
  ASSUME Inv, NEW n \in Node, NEW q \in held[n], Respond(n, q)
  PROVE  Inv'
<1>1. /\ Tables /\ Letters /\ Holding /\ q.who \in Node /\ q \in Asks(q.who, rpc[q.who])
      /\ UNCHANGED rpc
  BY DEF Inv, Holding, Respond
<1>2. PICK how \in {"ok", "Failed"} : Send(n, q.who, Build(q, how))
  BY DEF Respond
<1>3. /\ Tables' /\ \A a, b \in Node : Mail(a, b)' = Mail(a, b)
  BY <1>1 DEF Tables, Mail
<1>4. Build(q, how) \in Mail(n, q.who)'
  <2>1. Build(q, how) \in Answers(q.who, rpc[q.who])
    BY <1>1 DEF Build, Asks, Answers
  <2> QED BY <1>1, <2>1 DEF Mail
<1>5. Letters'
  <2> DEFINE answer == Build(q, how)
             w == q.who
  <2>1. answer \in Mail(n, w)' /\ Send(n, w, answer) /\ w \in Node
    BY <1>1, <1>2, <1>4
  <2> HIDE DEF answer, w
  <2> QED BY <1>1, <1>3, <2>1, Sent
<1>6. Holding'
  <2>1. held' = [held EXCEPT ![n] = held[n] \ {q}]
    BY DEF Respond
  <2>2. held' = [a \in Node |-> held'[a]] /\ \A a \in Node : held'[a] \subseteq held[a]
    BY <1>1, <2>1 DEF Holding
  <2> QED BY <1>1, <2>2 DEF Holding
<1> QED BY <1>3, <1>5, <1>6 DEF Inv

LEMMA LoseKeeps ==
  ASSUME Inv, NEW n \in Node, NEW m \in Node, Lose(n, m)
  PROVE  Inv'
<1>1. /\ Tables /\ Letters /\ Holding /\ UNCHANGED <<rpc, held>>
      /\ chan' = [chan EXCEPT ![n][m] = Tail(chan[n][m])]
      /\ chan[n][m] # <<>> /\ chan[n][m] \in Seq(Mail(n, m))
  BY DEF Inv, Lose, Letters
<1>2. Tables' /\ Holding' /\ \A a, b \in Node : Mail(a, b)' = Mail(a, b)
  BY <1>1 DEF Tables, Holding, Mail
<1>3. /\ chan' = [a \in Node |-> chan'[a]]
      /\ \A a \in Node : chan'[a] = [b \in Node |-> chan'[a][b]]
      /\ chan'[n][m] = Tail(chan[n][m])
      /\ \A a, b \in Node : <<a, b>> # <<n, m>> => chan'[a][b] = chan[a][b]
  BY <1>1 DEF Letters
<1>4. Tail(chan[n][m]) \in Seq(Mail(n, m))
  BY <1>1, TailMail
<1>5. \A a, b \in Node : chan'[a][b] \in Seq(Mail(a, b))
  BY <1>1, <1>3, <1>4 DEF Letters
<1>6. Letters'
  BY <1>2, <1>3, <1>5 DEF Letters
<1> QED BY <1>2, <1>6 DEF Inv

LEMMA InitInv == Init => Inv
<1> SUFFICES ASSUME Init
             PROVE  Inv
  OBVIOUS
<1>1. ASSUME NEW n \in Node
      PROVE  Table(n, rpc[n])
  <2> DEFINE r == rpc[n]
  <2>1. r = NewHandler(n)
    BY DEF Init
  <2>2. /\ r = [f \in Fields |-> r[f]] /\ r.requests = <<>> /\ r.timers = {}
        /\ r.current = 1 /\ r.done = <<>>
    <3> DEFINE c == [m \in Method |-> IF m \in Initial THEN "handler" ELSE Absent]
    <3>1. r = [callbacks |-> c, requests |-> <<>>, timers |-> {}, current |-> 1, done |-> <<>>]
      BY <2>1 DEF NewHandler
    <3> HIDE DEF c, r
    <3> QED BY <3>1 DEF Fields
  <2> HIDE DEF r
  <2>3. Heard(n, r)
    BY <2>2 DEF Heard
  <2>4. /\ r.requests = [i \in DOMAIN r.requests |-> r.requests[i]]
        /\ DOMAIN r.requests = {} /\ Len(r.done) = 0
        /\ r.done = [i \in 1..Len(r.done) |-> r.done[i]]
    BY <2>2
  <2>5. /\ r.current \in Nat /\ Len(r.done) \in Nat
        /\ \A id \in DOMAIN r.requests : FALSE
        /\ \A id \in r.timers : FALSE
    BY <2>2, <2>4
  <2>6. r = [f \in Fields |-> r[f]]
    BY <2>2
  <2>7. Table(n, r)
    BY ONLY <2>3, <2>4, <2>5, <2>6 DEF Table
  <2> QED BY <2>7 DEF r
<1>2. Tables
  BY <1>1 DEF Init, Tables
<1>3. Letters
  BY DEF Init, Letters, Empty
<1>4. Holding
  BY DEF Init, Holding
<1> QED BY <1>2, <1>3, <1>4 DEF Inv

LEMMA NextInv == Inv /\ [Next]_vars => Inv'
<1> SUFFICES ASSUME Inv, [Next]_vars
             PROVE  Inv'
  OBVIOUS
<1>1. ASSUME NEW n \in Node, NEW m \in Others(n),
             \/ CallRequest(n, m) \/ CallNotification(n, m) \/ HandleData(n, m) \/ Lose(n, m)
      PROVE  Inv'
  <2>1. m \in Node
    BY DEF Others
  <2> QED BY <1>1, <2>1, CallKeeps, DataKeeps, LoseKeeps
<1>2. ASSUME NEW n \in Node,
             \/ \E id \in 1..MaxId : CancelRequest(n, id) \/ Timeout(n, id)
             \/ \E m \in Method : Register(n, m) \/ Unregister(n, m)
      PROVE  Inv'
  BY <1>2, LocalKeeps
<1>3. ASSUME NEW n \in Node, NEW q \in held[n], Respond(n, q)
      PROVE  Inv'
  BY <1>3, RespondKeeps
<1>4. CASE UNCHANGED vars
  BY <1>4 DEF vars, Inv, Tables, Letters, Holding, Mail
<1> QED BY <1>1, <1>2, <1>3, <1>4 DEF Next

THEOREM Invariant == Spec => []Inv
<1>1. Init => Inv
  BY InitInv
<1>2. Inv /\ [Next]_vars => Inv'
  BY NextInv
<1> QED BY <1>1, <1>2, PTL DEF Spec

\* What a caller is given as the answer to its request answers that request, once:
\* ids are not used again, what waits under an id is a request, and it waits no
\* more when it is completed (IncrementId, SendNotification, HandleResponse).
\* Timeout never reads a null entry of _requests, although HandleResponse inserts
\* one for every answer that comes too late.
THEOREM AnswersAreRight == Spec => []RightAnswer
<1>1. Inv => CompletesOnce
  BY DEF Inv, Tables, Table, Heard, CompletesOnce
<1>2. Inv => TimerHasState
  BY DEF Inv, Tables, Table, Live, TimerHasState
<1>3. Inv => RightAnswer
  BY <1>1, <1>2 DEF Inv, Tables, Table, Heard, RightAnswer
<1> QED BY <1>3, Invariant, PTL
=============================================================================
