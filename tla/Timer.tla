------------------------------- MODULE Timer -------------------------------
(***************************************************************************)
(* Timer and TimerEvent: a queue of events ordered by time, woken by the   *)
(* timers of the Qt event loop or, in tests, run on a virtual clock.       *)
(*                                                                         *)
(* The timer remembers the id of one Qt timer in _next_timer.  An event    *)
(* that is queued while the queue runs starts another, so more than one    *)
(* may live; the ids of killed timers are given out again.                 *)
(* At the end: why it does what AlarmClock promises.                       *)
(***************************************************************************)
EXTENDS Naturals, FiniteSets, FiniteSetsExt, TLC, WellFoundedInduction, TLAPS

CONSTANTS
  Event,     \* the uids of events, in the order they are made
  Delays,    \* due times that callers ask for
  Periods,   \* periods, 0 for an event that runs once
  MaxTime    \* bound: the clock

VARIABLES
  now,      \* Time::MSecsSinceEpoch
  real,     \* _real_time
  queue,    \* _queue
  ev,       \* ev[u]: the TimerEventData of u
  made,     \* _uid_count
  qt,       \* the Qt timers of this object: id -> when it fires
  next,     \* _next_timer: an id, of a timer that may be gone, or 0
  running,  \* who is in Run: "timer" (timerEvent), "virtual", "no"
  ran       \* ran[u]: how often u was invoked

vars == <<now, real, queue, ev, made, qt, next, running, ran>>

NoTimer == 0
QtId == 1..(2 * Cardinality(Event) + 2)

Before(u, v) == ev[u].next < ev[v].next \/ (ev[u].next = ev[v].next /\ u < v)
Top(q) == CHOOSE u \in q : \A v \in q \ {u} : Before(u, v)

killTimer(ts, id) == [i \in DOMAIN ts \ {id} |-> ts[i]]
FreeId(ts) == Min(QtId \ DOMAIN ts)
startTimer(ts, at) == (FreeId(ts) :> at) @@ ts

-----------------------------------------------------------------------------
(* A new event e in a state s of the queue and the Qt timers *)

State == [queue |-> queue, ev |-> ev, made |-> made, qt |-> qt, next |-> next]

QueueCallback(s, d, p) ==
  LET u == s.made + 1
      e == [s.ev EXCEPT ![u] = [next |-> now + d, period |-> p, stopped |-> FALSE]]
      q == s.queue \cup {u}
      first == \A v \in s.queue : e[u].next < e[v].next
      ts == killTimer(s.qt, s.next)
  IN [queue |-> q, ev |-> e, made |-> u,
      qt |-> IF first /\ real THEN startTimer(ts, now) ELSE s.qt,
      next |-> IF first /\ real THEN FreeId(ts) ELSE s.next]

Become(s) == /\ queue' = s.queue /\ ev' = s.ev /\ made' = s.made
             /\ qt' = s.qt /\ next' = s.next

\* What a caller may do: nothing, queue an event, stop an event.
Calls(s) ==
  {s} \cup {QueueCallback(s, d, p) : d \in {d \in Delays : s.made < Cardinality(Event)},
                                     p \in Periods}
      \cup {[s EXCEPT !.ev[u].stopped = TRUE] : u \in 1..s.made}

Call ==
  /\ running = "no"
  /\ \E s \in Calls(State) \ {State} : Become(s)
  /\ UNCHANGED <<now, real, running, ran>>

-----------------------------------------------------------------------------
(* Running the queue *)

timerEvent(id) ==
  /\ running = "no" /\ id \in DOMAIN qt /\ qt[id] <= now
  /\ qt' = killTimer(qt, id) /\ running' = "timer"
  /\ UNCHANGED <<now, real, queue, ev, made, next, ran>>
VirtualRun ==
  /\ running = "no" /\ ~real /\ running' = "virtual"
  /\ UNCHANGED <<now, real, queue, ev, made, qt, next, ran>>

RunsStopped(u) ==   \* mutant: a stopped event is invoked all the same
  [s |-> [State EXCEPT !.queue = @ \ {u}, !.ev[u].next = @ + ev[u].period,
                       !.ev[u].stopped = @ \/ ev[u].period = 0],
   invoked |-> TRUE]
\* TimerEvent::Run, up to the callback.
RunEvent(u) ==
  [s |-> IF ev[u].stopped THEN [State EXCEPT !.queue = @ \ {u}, !.ev[u].period = 0]
         ELSE [State EXCEPT !.queue = @ \ {u}, !.ev[u].next = @ + ev[u].period,
                            !.ev[u].stopped = ev[u].period = 0],
   invoked |-> ~ev[u].stopped]

\* One event of the loop: it runs, and goes back if it has a period.
Run ==
  /\ running # "no" /\ \E u \in queue : ev[u].next <= now
  /\ LET u == Top(queue)
         e == RunEvent(u)
     IN \E t \in IF e.invoked THEN Calls(e.s) ELSE {e.s} :
          /\ Become([t EXCEPT !.queue = IF t.ev[u].period > 0 THEN @ \cup {u} ELSE @])
          /\ ran' = [ran EXCEPT ![u] = @ + (IF e.invoked THEN 1 ELSE 0)]
  /\ UNCHANGED <<now, real, running>>

NotRearmed ==   \* mutant: timerEvent forgets to start the next Qt timer
  /\ running # "no" /\ \A u \in queue : ev[u].next > now
  /\ running' = "no"
  /\ UNCHANGED <<now, real, queue, ev, made, qt, next, ran>>
RunDone ==
  /\ running # "no" /\ \A u \in queue : ev[u].next > now
  /\ running' = "no"
  /\ IF queue = {} \/ running = "virtual" THEN UNCHANGED <<qt, next>>
     ELSE qt' = startTimer(qt, ev[Top(queue)].next) /\ next' = FreeId(qt)
  /\ UNCHANGED <<now, real, queue, ev, made, ran>>

\* UseVirtualTime and UseRealTime clear the queue.
Switch ==
  /\ running = "no" /\ real' = ~real
  /\ qt' = killTimer(qt, next) /\ next' = NoTimer /\ queue' = {}
  /\ UNCHANGED <<now, ev, made, running, ran>>

Tick == now < MaxTime /\ now' = now + 1
        /\ UNCHANGED <<real, queue, ev, made, qt, next, running, ran>>

Init ==
  /\ now = 0 /\ real \in BOOLEAN /\ queue = {} /\ made = 0
  /\ ev = [u \in Event |-> [next |-> 0, period |-> 0, stopped |-> FALSE]]
  /\ qt = <<>> /\ next = NoTimer /\ running = "no" /\ ran = [u \in Event |-> 0]

Next == \/ Call \/ VirtualRun \/ Run \/ RunDone \/ Switch \/ Tick
        \/ \E id \in QtId : timerEvent(id)

Spec == Init /\ [][Next]_vars
-----------------------------------------------------------------------------
(* Properties *)

\* Events run as AlarmClock says: when due, in the order of their times, once
\* per period and never after Stop.
Waiting == {u \in queue : ~ev[u].stopped}
Alarms == [u \in Waiting |-> [due |-> ev[u].next, period |-> ev[u].period]]
Alarm == INSTANCE AlarmClock WITH alarm <- Alarms
AlarmStep == Alarm!AlarmNext \/ UNCHANGED <<now, Alarms, ran>>

\* In real time an event that waits runs or is stopped, once its time comes.
Due(u) == real /\ u \in Waiting /\ ev[u].next <= MaxTime /\ ev[u].period = 0
EventsRun == \A u \in Event : Due(u) ~> (u \notin Waiting)

-----------------------------------------------------------------------------
(* Timer implements AlarmClock *)

\* Events are numbered from 1, as _uid_count numbers them, and times are not negative.
Counting ==
  /\ Cardinality(Event) \in Nat /\ Event = 1..Cardinality(Event)
  /\ Delays \subseteq Nat /\ Periods \subseteq Nat

EventData == [next : Nat, period : Nat, stopped : BOOLEAN]

\* What is in the queue has been made.
Queued(s) ==
  /\ {"queue", "ev", "made"} \subseteq DOMAIN s
  /\ s.made \in Nat /\ s.made <= Cardinality(Event) /\ s.queue \subseteq 1..s.made
  /\ s.ev \in [Event -> EventData]

\* Only events that have been made have run.
Sane ==
  /\ now \in Nat /\ Queued(State)
  /\ ran \in [Event -> Nat] /\ \A u \in Event : u > made => ran[u] = 0

\* What calls have made of s: no event has changed, but for being stopped, and a new
\* one is due now or later.
Called(s, t) ==
  /\ s.made <= t.made
  /\ \A u \in 1..s.made :
       /\ t.ev[u].next = s.ev[u].next /\ t.ev[u].period = s.ev[u].period
       /\ s.ev[u].stopped => t.ev[u].stopped
  /\ \/ t.queue = s.queue
     \/ t.made = s.made + 1 /\ t.queue = s.queue \cup {t.made} /\ t.ev[t.made].next >= now

LEMMA QueueCalled ==
  ASSUME Counting, now \in Nat, NEW s, Queued(s), NEW d \in Delays, NEW p \in Periods,
         s.made < Cardinality(Event)
  PROVE  Queued(QueueCallback(s, d, p)) /\ Called(s, QueueCallback(s, d, p))
<1> DEFINE t == QueueCallback(s, d, p)
           u == s.made + 1
           item == [next |-> now + d, period |-> p, stopped |-> FALSE]
<1>1. t.queue = s.queue \cup {u} /\ t.made = u /\ t.ev = [s.ev EXCEPT ![u] = item]
  BY DEF QueueCallback
<1>2. u \in Event /\ u \in Nat /\ s.made \in Nat /\ 1..s.made \subseteq Event
      /\ \A v \in 1..s.made : v # u
  BY DEF Counting, Queued
<1>3. item \in EventData /\ item.next = now + d
  BY DEF Counting, EventData
<1> HIDE DEF item, t
<1>4. t.ev \in [Event -> EventData]
  BY <1>1, <1>2, <1>3 DEF Queued
<1>5. t.ev[u] = item /\ \A v \in 1..s.made : t.ev[v] = s.ev[v]
  BY <1>1, <1>2 DEF Queued
<1>6. now + d >= now
  BY DEF Counting
<1>7. Queued(t)
  <2>1. s.queue \cup {u} \subseteq 1..u /\ u <= Cardinality(Event)
    BY <1>2 DEF Queued, Counting
  <2>2. {"queue", "ev", "made"} \subseteq DOMAIN t
    BY DEF t, QueueCallback
  <2> QED
    BY <1>1, <1>2, <1>4, <2>1, <2>2 DEF Queued
<1>8. Called(s, t)
  BY <1>1, <1>2, <1>3, <1>5, <1>6 DEF Called
<1> QED
  BY <1>7, <1>8 DEF t

LEMMA StopCalled ==
  ASSUME Counting, NEW s, Queued(s), NEW u \in 1..s.made,
         NEW t, t = [s EXCEPT !.ev[u].stopped = TRUE]
  PROVE  Queued(t) /\ Called(s, t)
<1>0. u \in Event /\ s.made \in Nat
  BY DEF Counting, Queued
<1> DEFINE item == [s.ev[u] EXCEPT !.stopped = TRUE]
<1>1. /\ t.queue = s.queue /\ t.made = s.made /\ t.ev = [s.ev EXCEPT ![u] = item]
      /\ DOMAIN t = DOMAIN s
  BY DEF Queued
<1>2. item \in EventData /\ item.next = s.ev[u].next /\ item.period = s.ev[u].period /\ item.stopped
  <2>1. s.ev[u] \in EventData
    BY <1>0 DEF Queued
  <2> QED
    BY <2>1 DEF EventData
<1> HIDE DEF item
<1>3. /\ t.ev \in [Event -> EventData]
      /\ \A v \in 1..s.made : (v = u /\ t.ev[v] = item) \/ t.ev[v] = s.ev[v]
  <2>1. 1..s.made \subseteq Event
    BY <1>0 DEF Queued, Counting
  <2> QED
    BY <1>0, <1>1, <1>2, <2>1 DEF Queued
<1>4. Queued(t)
  BY <1>1, <1>3 DEF Queued
<1>5. \A v \in 1..s.made :
        /\ t.ev[v].next = s.ev[v].next /\ t.ev[v].period = s.ev[v].period
        /\ s.ev[v].stopped => t.ev[v].stopped
  BY <1>2, <1>3, Zenon
<1>6. s.made <= t.made
  BY <1>0, <1>1
<1> QED
  BY <1>1, <1>4, <1>5, <1>6 DEF Called

LEMMA CallsCalled ==
  ASSUME Counting, now \in Nat, NEW s, Queued(s), NEW t \in Calls(s)
  PROVE  Queued(t) /\ Called(s, t)
<1>1. CASE t = s
  BY <1>1 DEF Called, Queued
<1>2. CASE \E d \in {d \in Delays : s.made < Cardinality(Event)}, p \in Periods :
             t = QueueCallback(s, d, p)
  BY <1>2, QueueCalled
<1>3. CASE \E u \in 1..s.made : t = [s EXCEPT !.ev[u].stopped = TRUE]
  BY <1>3, StopCalled
<1> QED
  BY <1>1, <1>2, <1>3 DEF Calls

LEMMA LeastTime ==
  ASSUME NEW S \in SUBSET Nat, S # {}
  PROVE  \E n \in S : \A m \in S : n <= m
<1> DEFINE R == {p \in Nat \X Nat : p[1] < p[2]}
<1>1. R = OpToRel(<, Nat)
  BY DEF OpToRel
<1>2. IsWellFoundedOn(R, Nat)
  BY <1>1, NatLessThanWellFounded
<1>3. \A m, n \in Nat : <<m, n>> \notin R => n <= m
  OBVIOUS
<1> HIDE DEF R
<1>4. PICK n \in S : \A m \in S : <<m, n>> \notin R
  BY <1>2, WFMin
<1> QED
  BY <1>3, <1>4

\* The first event of the queue is due if any is.
LEMMA TopIsFirst ==
  ASSUME Counting, Queued(State), queue # {}
  PROVE  /\ Top(queue) \in queue
         /\ \A v \in queue \ {Top(queue)} : Before(Top(queue), v)
<1>1. \A v \in queue : v \in Nat /\ ev[v].next \in Nat
  <2>1. queue \subseteq 1..made /\ made \in Nat /\ queue \subseteq Event
        /\ ev \in [Event -> EventData]
    BY DEF Queued, State, Counting
  <2> QED
    BY <2>1 DEF EventData
<1> DEFINE times == {ev[v].next : v \in queue}
<1>2. PICK t \in times : \A m \in times : t <= m
  <2>1. times \in SUBSET Nat /\ times # {}
    BY <1>1
  <2> HIDE DEF times
  <2> QED
    BY <2>1, LeastTime
<1> DEFINE early == {v \in queue : ev[v].next = t}
<1>3. PICK u \in early : \A v \in early : u <= v
  <2>1. early \in SUBSET Nat /\ early # {}
    BY <1>1, <1>2
  <2> HIDE DEF early
  <2> QED
    BY <2>1, LeastTime
<1>4. u \in queue /\ \A v \in queue \ {u} : Before(u, v)
  BY <1>1, <1>2, <1>3 DEF Before
<1> QED
  BY <1>4 DEF Top

-----------------------------------------------------------------------------
(* The alarms of a state *)

Waits(s) ==
  [u \in {v \in s.queue : ~s.ev[v].stopped} |-> [due |-> s.ev[u].next, period |-> s.ev[u].period]]

\* Calls cancel alarms and set one that is due now or later.
LEMMA CallsWaits ==
  ASSUME Counting, now \in Nat, NEW s, NEW t, Queued(s), Queued(t), Called(s, t)
  PROVE  /\ \A u \in DOMAIN Waits(t) \cap DOMAIN Waits(s) : Waits(t)[u] = Waits(s)[u]
         /\ \A u \in DOMAIN Waits(t) \ DOMAIN Waits(s) :
              Waits(t)[u].due >= now /\ u \in Event /\ u > s.made
<1>1. s.queue \subseteq 1..s.made /\ t.queue \subseteq 1..t.made
      /\ s.made \in Nat /\ t.made \in Nat /\ 1..t.made \subseteq Event
  BY DEF Queued, Counting
<1>2. ASSUME NEW u \in DOMAIN Waits(t), u \in s.queue
      PROVE  u \in DOMAIN Waits(s) /\ Waits(t)[u] = Waits(s)[u]
  <2>1. u \in 1..s.made
    BY <1>1, <1>2
  <2>2. /\ t.ev[u].next = s.ev[u].next /\ t.ev[u].period = s.ev[u].period
        /\ ~s.ev[u].stopped /\ u \in t.queue /\ ~t.ev[u].stopped
    BY <1>2, <2>1 DEF Called, Waits
  <2> QED
    BY <1>2, <2>2 DEF Waits
<1>3. ASSUME NEW u \in DOMAIN Waits(t), u \notin s.queue
      PROVE  Waits(t)[u].due >= now /\ u \in Event /\ u > s.made
  <2>1. u \in t.queue
    BY <1>3 DEF Waits
  <2>2. u = t.made /\ t.made = s.made + 1 /\ t.ev[u].next >= now
    BY <1>3, <2>1 DEF Called
  <2> QED
    BY <1>1, <1>3, <2>1, <2>2 DEF Waits
<1>4. DOMAIN Waits(s) \subseteq s.queue
  BY DEF Waits
<1> QED
  BY <1>2, <1>3, <1>4

LEMMA AlarmsWait ==
  ASSUME NEW s, queue = s.queue, ev = s.ev
  PROVE  Alarms = Waits(s)
BY DEF Alarms, Waiting, Waits

LEMMA BecomeSane ==
  ASSUME Counting, NEW t, Queued(t), Become(t)
  PROVE  Queued(State)' /\ Alarms' = Waits(t)
<1>1. queue' = t.queue /\ ev' = t.ev /\ made' = t.made
  BY DEF Become
<1>2. Queued(State)'
  BY <1>1 DEF Queued, State
<1>3. Alarms' = Waits(t)
  BY <1>1 DEF Alarms, Waiting, Waits
<1> QED
  BY <1>2, <1>3

-----------------------------------------------------------------------------
(* The steps *)

LEMMA CallStep ==
  ASSUME Counting, Sane, Call
  PROVE  Sane' /\ Alarm!Calls(Alarms) /\ UNCHANGED <<now, ran>>
<1>1. PICK t \in Calls(State) : Become(t)
  BY DEF Call
<1>2. now \in Nat /\ Queued(State) /\ UNCHANGED <<now, ran>>
  BY DEF Sane, Call
<1>3. Queued(t) /\ Called(State, t)
  BY <1>2, CallsCalled
<1>4. Queued(State)' /\ Alarms' = Waits(t) /\ Alarms = Waits(State) /\ made' = t.made
  BY <1>1, <1>3, BecomeSane, AlarmsWait DEF State, Become
<1>5. State.made = made /\ made \in Nat /\ t.made \in Nat /\ made <= t.made
  BY <1>2, <1>3 DEF State, Queued, Called
<1>6. Sane'
  <2>1. Event \subseteq Nat
    BY DEF Counting
  <2> QED
    BY <1>2, <1>4, <1>5, <2>1 DEF Sane
<1>7. Alarm!Calls(Alarms)
  <2>1. \A u \in DOMAIN Alarms' \cap DOMAIN Alarms : Alarms'[u] = Alarms[u]
    BY <1>2, <1>3, <1>4, CallsWaits
  <2>2. \A u \in DOMAIN Alarms' \ DOMAIN Alarms : Alarms'[u].due >= now /\ ran[u] = 0
    BY <1>2, <1>3, <1>4, <1>5, CallsWaits DEF Sane
  <2> QED
    BY <2>1, <2>2 DEF Alarm!Calls
<1> QED
  BY <1>2, <1>6, <1>7

\* What Run has made of the queue before the callback of the first event u.
Popped(u) ==
  [State EXCEPT !.queue = @ \ {u}, !.ev[u].next = @ + ev[u].period,
                !.ev[u].stopped = ev[u].period = 0]

LEMMA PoppedIs ==
  ASSUME Counting, Sane, NEW u \in queue, ~ev[u].stopped
  PROVE  /\ Queued(Popped(u)) /\ Popped(u).queue = queue \ {u} /\ Popped(u).made = made
         /\ Popped(u).ev \in [Event -> EventData]
         /\ \A v \in Event \ {u} : Popped(u).ev[v] = ev[v]
         /\ Popped(u).ev[u].next = ev[u].next + ev[u].period
         /\ Popped(u).ev[u].period = ev[u].period
         /\ Popped(u).ev[u].stopped <=> ev[u].period = 0
<1> DEFINE s == Popped(u)
           item == [ev[u] EXCEPT !.next = @ + ev[u].period, !.stopped = ev[u].period = 0]
<1>1. /\ ev \in [Event -> EventData] /\ queue \subseteq 1..made /\ made \in Nat
      /\ made <= Cardinality(Event) /\ u \in Event
  BY DEF Sane, Queued, State, Counting
<1>2. ev[u] \in EventData
  BY <1>1
<1>3. /\ item \in EventData /\ item.next = ev[u].next + ev[u].period /\ item.period = ev[u].period
      /\ item.stopped = (ev[u].period = 0)
  <2> DEFINE n == ev[u].next + ev[u].period
             b == ev[u].period = 0
  <2>1. n \in Nat /\ ev[u].period \in Nat /\ DOMAIN ev[u] = {"next", "period", "stopped"}
    BY <1>2 DEF EventData
  <2>2. b \in BOOLEAN
    OBVIOUS
  <2>3. item = [ev[u] EXCEPT !.next = n, !.stopped = b]
    OBVIOUS
  <2> HIDE DEF n, b, item
  <2>4. item \in EventData /\ item.next = n /\ item.period = ev[u].period
    BY <1>2, <2>1, <2>2, <2>3 DEF EventData
  <2>5. item.stopped = b
    BY <2>1, <2>3, Zenon
  <2> QED
    BY <2>4, <2>5, Zenon DEF n, b
<1>4. /\ s.queue = queue \ {u} /\ s.made = made /\ s.ev = [ev EXCEPT ![u] = item]
      /\ DOMAIN s = DOMAIN State
  BY <1>1, <1>2 DEF Popped, State, EventData
<1>5. {"queue", "ev", "made"} \subseteq DOMAIN State
  BY DEF State
<1> HIDE DEF s, item
<1>6. s.ev \in [Event -> EventData] /\ s.ev[u] = item /\ \A v \in Event \ {u} : s.ev[v] = ev[v]
  BY <1>1, <1>3, <1>4
<1>7. Queued(s)
  BY <1>1, <1>4, <1>5, <1>6 DEF Queued
<1> QED
  BY <1>3, <1>4, <1>6, <1>7 DEF s

\* An event with a period goes back into the queue.
Back(u, t) == [t EXCEPT !.queue = IF t.ev[u].period > 0 THEN @ \cup {u} ELSE @]

\* The alarm that rings is set again or gone.
Rung(u) == IF Alarms[u].period = 0 THEN [d \in DOMAIN Alarms \ {u} |-> Alarms[d]]
           ELSE [Alarms EXCEPT ![u].due = @ + Alarms[u].period]

LEMMA BackIs ==
  ASSUME Counting, NEW s, NEW u \in 1..s.made, Queued(s), u \notin s.queue,
         NEW t \in Calls(s), now \in Nat
  PROVE  /\ Queued(Back(u, t)) /\ Queued(Back(u, s)) /\ Called(Back(u, s), Back(u, t))
         /\ Back(u, t).made = t.made /\ Back(u, s).made = s.made
         /\ Back(u, s).ev = s.ev
         /\ Back(u, s).queue = IF s.ev[u].period > 0 THEN s.queue \cup {u} ELSE s.queue
         /\ Back(u, s).queue = s.queue => u \notin DOMAIN Waits(Back(u, t))
<1>1. Queued(t) /\ Called(s, t)
  BY CallsCalled
<1>2. s.made <= t.made /\ t.ev[u].period = s.ev[u].period /\ s.made \in Nat /\ t.made \in Nat
  BY <1>1 DEF Called, Queued
<1> DEFINE more == IF s.ev[u].period > 0 THEN {u} ELSE {}
           a == Back(u, s)
           b == Back(u, t)
<1>3. /\ a.queue = s.queue \cup more /\ a.ev = s.ev /\ a.made = s.made /\ DOMAIN a = DOMAIN s
      /\ b.queue = t.queue \cup more /\ b.ev = t.ev /\ b.made = t.made /\ DOMAIN b = DOMAIN t
  BY <1>1, <1>2 DEF Back, Queued
<1>4. more \subseteq {u} /\ (s.ev[u].period > 0 <=> more = {u})
  OBVIOUS
<1> HIDE DEF more, a, b
<1>5. Queued(a) /\ Queued(b)
  <2>1. more \subseteq 1..s.made /\ more \subseteq 1..t.made
    BY <1>2, <1>4
  <2>2. Queued(a)
    BY <1>3, <2>1 DEF Queued
  <2>3. Queued(b)
    BY <1>1, <1>3, <2>1 DEF Queued
  <2> QED
    BY <2>2, <2>3
<1>6. Called(a, b)
  <2>1. CASE t.queue = s.queue
    BY <1>1, <1>3, <2>1 DEF Called
  <2>2. CASE t.made = s.made + 1 /\ t.queue = s.queue \cup {t.made} /\ t.ev[t.made].next >= now
    BY <1>1, <1>3, <2>2 DEF Called
  <2> QED
    BY <1>1, <2>1, <2>2 DEF Called
<1>7. a.queue = IF s.ev[u].period > 0 THEN s.queue \cup {u} ELSE s.queue
  BY <1>3 DEF more
<1>8. ASSUME a.queue = s.queue  PROVE u \notin DOMAIN Waits(b)
  <2>1. more = {}
    BY <1>3, <1>4, <1>8
  <2>2. u \notin t.queue
    BY <1>1, <1>2 DEF Called
  <2> QED
    BY <1>3, <2>1, <2>2 DEF Waits
<1> QED
  BY <1>3, <1>5, <1>6, <1>7, <1>8 DEF a, b

\* Before the callback the alarms are those that AlarmClock starts from.
LEMMA RungWaits ==
  ASSUME Counting, Sane, NEW u \in queue, ~ev[u].stopped
  PROVE  /\ Waits(Back(u, Popped(u))) = Rung(u)
         /\ Back(u, Popped(u)).queue = Popped(u).queue <=> Alarms[u].period = 0
<1> DEFINE s == Popped(u)
           a == Back(u, s)
           p == ev[u].period
<1>1. /\ ev \in [Event -> EventData] /\ queue \subseteq Event /\ made \in Nat /\ now \in Nat
  BY DEF Sane, Queued, State, Counting
<1>2. p \in Nat /\ ev[u].next \in Nat
  BY <1>1 DEF EventData
<1>3. /\ Queued(s) /\ s.queue = queue \ {u} /\ s.made = made
      /\ \A v \in Event \ {u} : s.ev[v] = ev[v]
      /\ s.ev[u].next = ev[u].next + p /\ s.ev[u].period = p
      /\ s.ev[u].stopped <=> p = 0
  BY PoppedIs
<1>4. u \in 1..s.made
  BY <1>3 DEF Sane, Queued, State
<1>5. s \in Calls(s)
  BY DEF Calls
<1>6. a.ev = s.ev /\ a.queue = IF p > 0 THEN s.queue \cup {u} ELSE s.queue
  BY <1>1, <1>3, <1>4, <1>5, BackIs
<1>7. /\ DOMAIN Alarms = {v \in queue : ~ev[v].stopped}
      /\ Alarms[u] = [due |-> ev[u].next, period |-> p]
      /\ \A v \in DOMAIN Alarms : Alarms[v] = [due |-> ev[v].next, period |-> ev[v].period]
  BY DEF Alarms, Waiting
<1> HIDE DEF s, a, p
<1>8. Alarms[u].period = p
  BY <1>7
<1>9. CASE p = 0
  <2>1. a.queue = queue \ {u}
    BY <1>3, <1>6, <1>9
  <2>2. {v \in a.queue : ~a.ev[v].stopped} = DOMAIN Alarms \ {u}
    BY <1>1, <1>3, <1>6, <1>7, <2>1
  <2>3. \A v \in DOMAIN Alarms \ {u} : [due |-> a.ev[v].next, period |-> a.ev[v].period] = Alarms[v]
    BY <1>1, <1>3, <1>6, <1>7
  <2>4. Rung(u) = [v \in DOMAIN Alarms \ {u} |-> Alarms[v]]
    BY <1>8, <1>9 DEF Rung
  <2>5. Waits(a) = Rung(u)
    BY <2>2, <2>3, <2>4 DEF Waits
  <2> QED
    BY <1>3, <1>6, <1>8, <1>9, <2>5 DEF a, s
<1>10. CASE p # 0
  <2>1. a.queue = queue /\ a.queue # s.queue
    BY <1>2, <1>3, <1>6, <1>10
  <2>2. {v \in a.queue : ~a.ev[v].stopped} = DOMAIN Alarms
    BY <1>1, <1>3, <1>6, <1>7, <1>10, <2>1
  <2>3. Rung(u) = [Alarms EXCEPT ![u] = [due |-> ev[u].next + p, period |-> p]]
    <3> DEFINE item == [Alarms[u] EXCEPT !.due = @ + Alarms[u].period]
    <3>1. item = [due |-> ev[u].next + p, period |-> p]
      BY <1>7, <1>8
    <3>2. Rung(u) = [Alarms EXCEPT ![u] = item]
      BY <1>8, <1>10 DEF Rung
    <3> HIDE DEF item
    <3> QED
      BY <3>1, <3>2
  <2>4. \A v \in DOMAIN Alarms :
          [due |-> a.ev[v].next, period |-> a.ev[v].period] = Rung(u)[v]
    BY <1>1, <1>3, <1>6, <1>7, <2>3
  <2>5. Waits(a) = [v \in DOMAIN Alarms |-> Rung(u)[v]]
    BY <2>2, <2>4 DEF Waits
  <2>6. Rung(u) = [v \in DOMAIN Alarms |-> Rung(u)[v]]
    BY <2>3
  <2> QED
    BY <1>8, <1>10, <2>1, <2>5, <2>6 DEF a, s
<1> QED
  BY <1>9, <1>10

\* A stopped event is taken out and forgotten; another rings.
LEMMA SilentRun ==
  ASSUME Counting, Sane, Run, ev[Top(queue)].stopped
  PROVE  Sane' /\ UNCHANGED <<now, Alarms, ran>>
<1> DEFINE u == Top(queue)
           s == [State EXCEPT !.queue = @ \ {u}, !.ev[u].period = 0]
           item == [ev[u] EXCEPT !.period = 0]
<1>1. /\ u \in queue /\ queue \subseteq Event /\ ev \in [Event -> EventData] /\ Queued(State)
      /\ ran \in [Event -> Nat] /\ UNCHANGED now
  BY TopIsFirst DEF Run, Sane, Queued, State, Counting
<1>2. RunEvent(u).s = s /\ ~RunEvent(u).invoked
  BY DEF RunEvent
<1>3. /\ Become([s EXCEPT !.queue = IF s.ev[u].period > 0 THEN @ \cup {u} ELSE @])
      /\ ran' = [ran EXCEPT ![u] = @ + 0]
  <2> HIDE DEF s
  <2> QED
    BY <1>2 DEF Run, u
<1>4. ev[u] \in EventData /\ ev[u].stopped
  BY <1>1
<1>5. item \in EventData /\ item.period = 0 /\ item.stopped
  BY <1>4 DEF EventData
<1>6. /\ s.queue = queue \ {u} /\ s.ev = [ev EXCEPT ![u] = item] /\ s.made = made
      /\ DOMAIN s = DOMAIN State
  BY <1>1 DEF State
<1>7. {"queue", "ev", "made"} \subseteq DOMAIN State
  BY DEF State
<1> HIDE DEF u, s, item
<1>8. s.ev \in [Event -> EventData] /\ s.ev[u] = item /\ \A v \in Event \ {u} : s.ev[v] = ev[v]
  BY <1>1, <1>5, <1>6
<1>9. queue' = queue \ {u} /\ ev' = s.ev /\ made' = made
  <2>1. ~(s.ev[u].period > 0)
    BY <1>5, <1>8
  <2> QED
    BY <1>3, <1>6, <1>7, <2>1 DEF Become
<1>10. ran' = ran
  BY <1>1, <1>3
<1>11. Queued(State)'
  BY <1>1, <1>8, <1>9 DEF Queued, State
<1>12. Sane'
  BY <1>1, <1>9, <1>10, <1>11 DEF Sane
<1>13. Waiting' = Waiting /\ \A v \in Waiting : v \in Event \ {u}
  BY <1>1, <1>4, <1>5, <1>8, <1>9 DEF Waiting
<1>14. Alarms' = Alarms
  <2>1. \A v \in Waiting : ev'[v] = ev[v]
    BY <1>8, <1>9, <1>13
  <2> QED
    BY <1>13, <2>1 DEF Alarms
<1> QED
  BY <1>1, <1>10, <1>12, <1>14

LEMMA RingingRun ==
  ASSUME Counting, Sane, Run, NEW u, u = Top(queue), ~ev[u].stopped
  PROVE  Sane' /\ \E e \in Event : Alarm!Fire(e)
<1> DEFINE s == Popped(u)
<1>1. /\ u \in queue /\ queue \subseteq Event /\ queue \subseteq 1..made /\ made \in Nat
      /\ made <= Cardinality(Event) /\ ev \in [Event -> EventData] /\ Queued(State)
      /\ ran \in [Event -> Nat] /\ now \in Nat /\ UNCHANGED now
      /\ \A v \in queue \ {u} : Before(u, v)
  BY TopIsFirst DEF Run, Sane, Queued, State, Counting
<1>2. RunEvent(u).s = s /\ RunEvent(u).invoked
  BY DEF RunEvent, Popped
<1>3. /\ Queued(s) /\ s.queue = queue \ {u} /\ s.made = made
  BY <1>1, PoppedIs
<1>4. PICK t \in Calls(s) : Become(Back(u, t)) /\ ran' = [ran EXCEPT ![u] = @ + 1]
  <2> HIDE DEF s
  <2> QED
    BY <1>2 DEF Run, Back
<1> DEFINE a == Back(u, s)
           b == Back(u, t)
<1>5. /\ Queued(b) /\ Queued(a) /\ Called(a, b) /\ a.made = made /\ b.made = t.made
      /\ a.queue = s.queue => u \notin DOMAIN Waits(b)
  <2>1. u \in 1..s.made /\ u \notin s.queue
    BY <1>1, <1>3
  <2>2. t \in Calls(s) /\ Queued(s) /\ now \in Nat
    BY <1>1, <1>3, <1>4
  <2> HIDE DEF s
  <2>3. /\ Queued(Back(u, t)) /\ Queued(Back(u, s)) /\ Called(Back(u, s), Back(u, t))
        /\ Back(u, t).made = t.made /\ Back(u, s).made = s.made
        /\ Back(u, s).queue = s.queue => u \notin DOMAIN Waits(Back(u, t))
    BY <2>1, <2>2, BackIs, Zenon
  <2> QED
    BY <1>3, <2>3
<1>6. Waits(a) = Rung(u) /\ (a.queue = s.queue <=> Alarms[u].period = 0)
  BY <1>1, RungWaits
<1>7. Queued(State)' /\ Alarms' = Waits(b) /\ made' = b.made
  BY <1>4, <1>5, BecomeSane DEF Become
<1>8. b.made \in Nat /\ made <= b.made
  BY <1>5 DEF Queued, Called
<1>9. Alarms[u] = [due |-> ev[u].next, period |-> ev[u].period]
      /\ u \in DOMAIN Alarms /\ DOMAIN Alarms \subseteq queue
      /\ \A v \in DOMAIN Alarms : Alarms[v].due = ev[v].next
  BY <1>1 DEF Alarms, Waiting
<1>10. \A v \in queue : ev[v].next \in Nat
  BY <1>1 DEF EventData
<1>11. ev[u].next <= now
  BY <1>1, <1>10 DEF Run, Before
<1> HIDE DEF s, a, b
<1>12. Sane'
  <2>1. Event \subseteq Nat /\ u \in Event /\ u <= made
    BY <1>1 DEF Counting
  <2>2. ran' \in [Event -> Nat] /\ \A v \in Event : v # u => ran'[v] = ran[v]
    BY <1>1, <1>4
  <2>3. \A v \in Event : v > made' => ran'[v] = 0
    BY <1>1, <1>7, <1>8, <2>1, <2>2 DEF Sane
  <2> QED
    BY <1>1, <1>7, <2>2, <2>3 DEF Sane
<1>13. Alarm!Calls(Rung(u))
  <2>1. \A v \in DOMAIN Alarms' \cap DOMAIN Rung(u) : Alarms'[v] = Rung(u)[v]
    BY <1>1, <1>5, <1>6, <1>7, CallsWaits
  <2>2. \A v \in DOMAIN Alarms' \ DOMAIN Rung(u) : Alarms'[v].due >= now /\ ran[v] = 0
    BY <1>1, <1>5, <1>6, <1>7, CallsWaits DEF Sane
  <2> QED
    BY <2>1, <2>2 DEF Alarm!Calls
<1>14. \A v \in DOMAIN Alarms : ~Alarm!Earlier(v, u)
  <2> SUFFICES ASSUME NEW v \in DOMAIN Alarms, v # u  PROVE ~Alarm!Earlier(v, u)
    <3>1. ~(Alarms[u].due < Alarms[u].due) /\ ~(u < u)
      BY <1>1, <1>9, <1>10
    <3> QED
      BY <3>1 DEF Alarm!Earlier
  <2>1. Before(u, v) /\ u \in Nat /\ v \in Nat /\ ev[u].next \in Nat /\ ev[v].next \in Nat
    BY <1>1, <1>9, <1>10
  <2> QED
    BY <1>9, <2>1 DEF Before, Alarm!Earlier
<1>15. u \in DOMAIN Alarms' => Alarms[u].period > 0
  <2>1. ev[u].period \in Nat
    BY <1>1 DEF EventData
  <2> QED
    BY <1>5, <1>6, <1>7, <1>9, <2>1
<1>16. Alarm!Fire(u)
  BY <1>1, <1>4, <1>9, <1>11, <1>13, <1>14, <1>15 DEF Alarm!Fire, Rung
<1> QED
  BY <1>1, <1>12, <1>16

LEMMA AlarmInitially ==
  ASSUME Counting, Init
  PROVE  Sane /\ Alarm!AlarmInit
<1>1. Queued(State) /\ now \in Nat
  <2>1. [next |-> 0, period |-> 0, stopped |-> FALSE] \in EventData
    BY DEF EventData
  <2>2. /\ made = 0 /\ queue = {} /\ now = 0
        /\ ev = [u \in Event |-> [next |-> 0, period |-> 0, stopped |-> FALSE]]
    BY DEF Init
  <2> QED
    BY <2>1, <2>2 DEF Queued, State, Counting
<1>2. ran \in [Event -> Nat] /\ \A u \in Event : ran[u] = 0
  BY DEF Init
<1>3. Alarms = <<>>
  <2>1. Waiting = {}
    BY DEF Waiting, Init
  <2> QED
    BY <2>1 DEF Alarms
<1> QED
  BY <1>1, <1>2, <1>3 DEF Sane, Alarm!AlarmInit, Init

\* The steps that AlarmClock does not see.
LEMMA Unseen ==
  ASSUME Sane, UNCHANGED <<queue, ev, made, ran>>
  PROVE  UNCHANGED Alarms /\ (now' \in Nat => Sane')
BY DEF Sane, Alarms, Waiting, Queued, State

LEMMA AlarmNextStep ==
  ASSUME Counting, Sane, [Next]_vars
  PROVE  Sane' /\ [Alarm!AlarmNext]_<<now, Alarms, ran>>
<1>0. now \in Nat
  BY DEF Sane
<1>1. CASE Call
  BY <1>1, CallStep DEF Alarm!AlarmNext
<1>2. CASE Run
  BY <1>2, SilentRun, RingingRun DEF Alarm!AlarmNext
<1>3. CASE VirtualRun
  BY <1>0, <1>3, Unseen DEF VirtualRun
<1>4. CASE RunDone
  BY <1>0, <1>4, Unseen DEF RunDone
<1>5. CASE Tick
  BY <1>0, <1>5, Unseen DEF Tick, Alarm!AlarmNext
<1>6. CASE \E id \in QtId : timerEvent(id)
  BY <1>0, <1>6, Unseen DEF timerEvent
<1>7. CASE Switch
  <2>1. queue' = {} /\ UNCHANGED <<now, ev, made, ran>>
    BY <1>7 DEF Switch
  <2>2. Sane'
    BY <2>1 DEF Sane, Queued, State
  <2>3. DOMAIN Alarms' = {}
    BY <2>1 DEF Alarms, Waiting
  <2> QED
    BY <2>1, <2>2, <2>3 DEF Alarm!AlarmNext, Alarm!Calls
<1>8. CASE UNCHANGED vars
  BY <1>0, <1>8, Unseen DEF vars
<1> QED
  BY <1>1, <1>2, <1>3, <1>4, <1>5, <1>6, <1>7, <1>8 DEF Next

\* Timer implements AlarmClock: an event that is queued and not stopped runs once per
\* period, never before it is due and never while another waits that was due earlier,
\* whatever callbacks queue and stop and whichever Qt timers fire
\* (Timer::Run, TimerEvent::Run).
THEOREM ImplementsAlarmClock == Counting => (Spec => Alarm!AlarmSpec)
<1> SUFFICES ASSUME Counting  PROVE Spec => Alarm!AlarmSpec
  OBVIOUS
<1>1. Init => Sane /\ Alarm!AlarmInit
  BY AlarmInitially
<1>2. Sane /\ [Next]_vars => Sane' /\ [Alarm!AlarmNext]_<<now, Alarms, ran>>
  BY AlarmNextStep
<1> QED
  BY <1>1, <1>2, PTL DEF Spec, Alarm!AlarmSpec
=============================================================================
