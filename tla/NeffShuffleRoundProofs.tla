----------------------- MODULE NeffShuffleRoundProofs -----------------------
(***************************************************************************)
(* Why all who end a shuffle have its signatures and the same text, until   *)
(* a verification overlaps another.                                         *)
(***************************************************************************)
EXTENDS NeffShuffleRound, SequenceTheorems, WellFoundedInduction, TLAPS

-----------------------------------------------------------------------------
(* The invariant *)

Groups == SUBSET Client
Batch == [msgs : Groups, layers : Int]
Early == {"OFFLINE", "KEY_GENERATION", "WAITING_FOR_KEYS", "WAITING_FOR_KEY_SIGNATURES",
          "WAITING_FOR_MSGS"}
Turning == {"WAITING_FOR_SHUFFLES_BEFORE_TURN", "WAITING_FOR_SHUFFLES_AFTER_TURN"}
Ended == {"WAITING_FOR_SIGNATURES", "PUSH_OUTPUT"}
After == Ended \cup {"WAITING_FOR_SHUFFLES_AFTER_TURN"}

\* The batch M with k layers removed, and what server j says of its turn.
Text(M, k) == [msgs |-> M, layers |-> k]
Told(M, j) == Shuffled(j, Text(M, j), Text(M, j + 1))

ShuffleMessage == [type : {"SHUFFLE"}, from : Server, in : Batch, out : Batch]
Plain == [type : {"KEY_EXCH", "KEY_SIGNATURE"}, from : Server]
         \cup [type : {"SUBMIT"}, from : Client]
         \cup [type : {"SIGNATURE"}, from : Server, text : Batch]
VerifyTasks == [kind : {"verify"}, step : {"queued", "loop"}, idx : Int, in : Batch, keys : Int]

States == Early \cup Turning \cup Ended \cup {"SHUFFLING"}
State ==
  [st : States, keys : SUBSET Server, ksigs : SUBSET Server, input : Batch,
   proofs : [Server -> ShuffleMessage \cup {NoBatch}],
   owned : Batch, own : Batch, vin : Batch, vidx : 0..N, vkeys : Int,
   end : 0..N, newEnd : 0..N, clear : Batch, sigs : SUBSET Server]

\* One task at a time: p is on the pool, the signals d have not been handled.
KeyTask(s, p, d) ==
  \/ p = <<[kind |-> "keygen"]>> /\ d = <<>>
  \/ p = <<>> /\ d = <<"op">>
TurnTask(i, s, p, d, M) ==
  \/ p = <<[kind |-> "shuffle"]>> /\ d = <<>>
  \/ p = <<>> /\ d = <<"op">> /\ s.owned = Text(M, i) /\ s.own = Text(M, i + 1)
Loops(s, t, M) == t.step = "loop" => t.idx \in s.vidx..s.end /\ t.in = Text(M, t.idx)
Proving(s, p, d, M) ==
  \/ p = <<>> /\ d \in {<<>>, <<"verify">>} /\ s.vidx = s.end
  \/ d = <<>> /\ s.vidx < s.end /\ p # <<>> /\ p = <<p[1]>> /\ p[1] \in VerifyTasks /\ Loops(s, p[1], M)

\* What a server does in each state, one task at a time.
Works(i, s, p, d, M) ==
  /\ s.st \in (Early \ {"KEY_GENERATION"}) \cup Ended => p = <<>> /\ d = <<>>
  /\ s.st = "KEY_GENERATION" => KeyTask(s, p, d)
  /\ s.st = "SHUFFLING" => TurnTask(i, s, p, d, M)
  /\ s.st \in Turning => Proving(s, p, d, M)

\* How far it has come with the proofs.
Place(i, s, p, d) ==
  /\ s.newEnd = s.end
  /\ s.st \in Early => s.end = 0 /\ s.vidx = 0
  /\ s.st = "WAITING_FOR_MSGS" => i = 0
  /\ s.st = "WAITING_FOR_SHUFFLES_BEFORE_TURN" =>
       i # 0 /\ s.end <= i /\ (p = <<>> /\ d = <<>> => s.end < i)
  /\ s.st = "SHUFFLING" => s.end = i /\ s.vidx = i
  /\ s.st = "WAITING_FOR_SHUFFLES_AFTER_TURN" =>
       s.end >= i /\ (p # <<>> \/ d # <<>> => s.end > i)
  /\ s.st \in Ended => s.end = N /\ s.vidx = N
  /\ \A j \in Server : j < s.end => s.proofs[j] # NoBatch

\* What it holds.
Holds(i, s, M) ==
  /\ i = 0 => s.input = Text(M, 0)
  /\ s.end > 0 \/ (i = 0 /\ s.st \notin Early) => s.vin = Text(M, s.vidx)
  /\ s.vidx = N => s.clear = Text(M, N)
  /\ s.st = "PUSH_OUTPUT" => s.sigs = Server

Local(i, s, p, d, M) ==
  s \in State /\ Works(i, s, p, d, M) /\ Place(i, s, p, d) /\ Holds(i, s, M)

M0 == srv[0].input.msgs
Sent(j) == srv[j].st \in After
Letters(j) == Plain \cup {m \in {Told(M0, j)} : Sent(j)}
Mail == UNION {Letters(j) : j \in Server}
Pushes == {[type |-> "KEY_DIST"]} \cup
  {m \in [type : {"OUTPUT"}, text : {Text(M0, N)}, sigs : SUBSET Server] : Sent(0)}
Clients == [st : {"WAITING_FOR_SERVER_KEYS", "WAITING_FOR_OUTPUT"}, text : {NoBatch}] \cup
  {k \in [st : {"FINISHED"}, text : {Text(M0, N)}] : Sent(0)}

Locals == \A i \in Server : Local(i, srv[i], pool[i], done[i], M0)
Proved == \A i, j \in Server : srv[i].proofs[j] # NoBatch => Sent(j) /\ srv[i].proofs[j] = Told(M0, j)
Boxes ==
  /\ log \in [Server -> Seq(Mail)] /\ todo \in [Server -> Seq(Mail)]
  /\ chan = [i \in Server |-> chan[i]]
  /\ \A i \in Server : chan[i] \in [Server -> Seq(Letters(i))]
  /\ push \in [Client -> Seq(Pushes)]
  /\ cli \in [Client -> Clients] /\ sub \subseteq Client
Shape == srv = [i \in Server |-> srv[i]] /\ pool = [i \in Server |-> pool[i]]
         /\ done = [i \in Server |-> done[i]]
IInv == Shape /\ Locals /\ Proved /\ Boxes

-----------------------------------------------------------------------------
(* What a handler of server i may leave, in a record of six fields *)

Left(s, l, q, o, u, k) == [s |-> s, log |-> l, todo |-> q, out |-> o, push |-> u, tasks |-> k]
Bench(s, l, q) == Left(s, l, q, <<>>, <<>>, <<>>)

Outs(i, s, M) == Plain \cup {m \in {Told(M, i)} : s.st \in After}
Sheets(s, M) == {[type |-> "KEY_DIST"]} \cup
  {m \in [type : {"OUTPUT"}, text : {Text(M, N)}, sigs : SUBSET Server] : s.st \in After}

\* The messages at the first server, when server i is left in state s.
Input(i, s, M) == IF i = 0 THEN s.input.msgs ELSE M

\* What server i, found in state s, has become when it is left in state t.
Fits(i, s, t, p, d, M) ==
  /\ Local(i, t, p, d, Input(i, t, M))
  /\ Input(i, t, M) = M \/ s.st \notin After
  /\ s.st \in After => t.st \in After
Result(i, s, v, p, d, M, X) ==
  /\ Fits(i, s, v.s, p \o v.tasks, d, M)
  /\ v.log \in Seq(X) /\ v.todo \in Seq(X)
  /\ v.out \in Seq(Outs(i, v.s, Input(i, v.s, M)))
  /\ v.push \in Seq(Sheets(v.s, Input(i, v.s, M)))

LEMMA EnterBench ==
  ASSUME NEW s \in State, NEW l, NEW q, NEW o, NEW u, NEW k, NEW x
  PROVE  Enter(Left(s, l, q, o, u, k), x) = Left([s EXCEPT !.st = x], <<>>, l \o q, o, u, k)
<1> DEFINE w == Left(s, l, q, o, u, k)
<1> DEFINE e == Enter(w, x)
<1> DEFINE t == [s EXCEPT !.st = x]
<1>0. /\ w.s = s /\ w.log = l /\ w.todo = q /\ w.out = o /\ w.push = u /\ w.tasks = k
  BY DEF Left
<1>1. e = [w EXCEPT !.s = t, !.log = <<>>, !.todo = l \o q]
  BY <1>0 DEF Enter
<1>2. w = [s |-> s, log |-> l, todo |-> q, out |-> o, push |-> u, tasks |-> k]
  BY DEF Left
<1> HIDE DEF w, t, e
<1>3. e = [s |-> t, log |-> <<>>, todo |-> l \o q, out |-> o, push |-> u, tasks |-> k]
  BY <1>1, <1>2
<1> QED
  BY <1>3 DEF Left, e, t, w

\* A handler changes the state, or what it sends, of a bench of its own.
LEMMA MendState ==
  ASSUME NEW s, NEW l, NEW q, NEW o, NEW u, NEW k, NEW t, NEW w, w = Left(s, l, q, o, u, k)
  PROVE  [w EXCEPT !.s = t] = Left(t, l, q, o, u, k)
BY DEF Left

LEMMA MendLog ==
  ASSUME NEW s, NEW l, NEW q, NEW o, NEW u, NEW k, NEW x, NEW w, w = Left(s, l, q, o, u, k)
  PROVE  [w EXCEPT !.log = x] = Left(s, x, q, o, u, k)
BY DEF Left

LEMMA MendTodo ==
  ASSUME NEW s, NEW l, NEW q, NEW o, NEW u, NEW k, NEW x, NEW w, w = Left(s, l, q, o, u, k)
  PROVE  [w EXCEPT !.todo = x] = Left(s, l, x, o, u, k)
BY DEF Left

LEMMA MendOut ==
  ASSUME NEW s, NEW l, NEW q, NEW o, NEW u, NEW k, NEW x, NEW w, w = Left(s, l, q, o, u, k)
  PROVE  [w EXCEPT !.out = x] = Left(s, l, q, x, u, k)
BY DEF Left

LEMMA MendPush ==
  ASSUME NEW s, NEW l, NEW q, NEW o, NEW u, NEW k, NEW x, NEW w, w = Left(s, l, q, o, u, k)
  PROVE  [w EXCEPT !.push = x] = Left(s, l, q, o, x, k)
BY DEF Left

LEMMA MendTasks ==
  ASSUME NEW s, NEW l, NEW q, NEW o, NEW u, NEW k, NEW x, NEW w, w = Left(s, l, q, o, u, k)
  PROVE  [w EXCEPT !.tasks = x] = Left(s, l, q, o, u, x)
BY DEF Left

LEMMA MendStatePush ==
  ASSUME NEW s, NEW l, NEW q, NEW o, NEW u, NEW k, NEW t, NEW x,
         NEW w, w = Left(s, l, q, o, u, k), NEW e, e = [w EXCEPT !.s = t, !.push = x]
  PROVE  e = Left(t, l, q, o, x, k)
BY DEF Left

LEMMA MendStateTasks ==
  ASSUME NEW s, NEW l, NEW q, NEW o, NEW u, NEW k, NEW t, NEW x,
         NEW w, w = Left(s, l, q, o, u, k), NEW e, e = [w EXCEPT !.s = t, !.tasks = x]
  PROVE  e = Left(t, l, q, o, u, x)
BY DEF Left

LEMMA Fields ==
  ASSUME NEW s, NEW l, NEW q, NEW o, NEW u, NEW k
  PROVE  LET w == Left(s, l, q, o, u, k)
         IN /\ w.s = s /\ w.log = l /\ w.todo = q /\ w.out = o /\ w.push = u /\ w.tasks = k
BY DEF Left

\* The clauses of StateComplete on a bench.
LEMMA BenchFields ==
  ASSUME NEW s, NEW l, NEW q, NEW w, w = Bench(s, l, q)
  PROVE  /\ w.s = s /\ w.log = l /\ w.todo = q /\ w.out = <<>> /\ w.push = <<>> /\ w.tasks = <<>>
         /\ w = Left(s, l, q, <<>>, <<>>, <<>>)
BY DEF Bench, Left

LEMMA BroadcastLeaves ==
  ASSUME NEW s, NEW l, NEW q, NEW m, NEW w, w = Left(s, l, q, <<>>, <<>>, <<>>)
  PROVE  Broadcast(w, m) = Left(s, l, q, <<m>>, <<>>, <<>>)
<1>1. Append(w.out, m) = <<m>>
  <2>1. w.out = <<>>
    BY DEF Left
  <2>2. Append(<<>>, m) = <<m>>
    OBVIOUS
  <2> QED
    BY <2>1, <2>2
<1>2. Broadcast(w, m) = [w EXCEPT !.out = <<m>>]
  BY <1>1 DEF Broadcast
<1> QED
  BY <1>2, MendOut

LEMMA SubmitKeyLeaves ==
  ASSUME NEW s \in State, NEW l, NEW q, NEW i \in Server, s.st = "KEY_GENERATION"
  PROVE  StateComplete(Bench(s, l, q), i)
           = Left([s EXCEPT !.st = "WAITING_FOR_KEYS"], <<>>, l \o q, <<Key(i)>>, <<>>, <<>>)
<1> DEFINE w == Bench(s, l, q) r == l \o q
<1>0. /\ w.s = s /\ w.log = l /\ w.todo = q /\ w.out = <<>> /\ w.push = <<>> /\ w.tasks = <<>>
      /\ w = Left(s, l, q, <<>>, <<>>, <<>>)
  BY BenchFields
<1> HIDE DEF w
<1>1. StateComplete(w, i) = SubmitKey(w, i)
  BY <1>0 DEF StateComplete
<1>2. Broadcast(w, Key(i)) = Left(s, l, q, <<Key(i)>>, <<>>, <<>>)
  BY <1>0, BroadcastLeaves
<1> QED
  BY <1>1, <1>2, EnterBench DEF SubmitKey, w

LEMMA SubmitKeySignatureLeaves ==
  ASSUME NEW s \in State, NEW l, NEW q, NEW i \in Server, s.st = "WAITING_FOR_KEYS"
  PROVE  StateComplete(Bench(s, l, q), i)
           = Left([s EXCEPT !.st = "WAITING_FOR_KEY_SIGNATURES"], <<>>, l \o q,
                  <<KeySignature(i)>>, <<>>, <<>>)
<1> DEFINE w == Bench(s, l, q) r == l \o q
<1>0. /\ w.s = s /\ w.log = l /\ w.todo = q /\ w.out = <<>> /\ w.push = <<>> /\ w.tasks = <<>>
      /\ w = Left(s, l, q, <<>>, <<>>, <<>>)
  BY BenchFields
<1> HIDE DEF w
<1>1. StateComplete(w, i) = SubmitKeySignature(w, i)
  BY <1>0 DEF StateComplete
<1>2. Broadcast(w, KeySignature(i)) = Left(s, l, q, <<KeySignature(i)>>, <<>>, <<>>)
  BY <1>0, BroadcastLeaves
<1> QED
  BY <1>1, <1>2, EnterBench DEF SubmitKeySignature, w

LEMMA PushServerKeysLeaves ==
  ASSUME NEW s \in State, NEW l, NEW q, NEW i \in Server, s.st = "WAITING_FOR_KEY_SIGNATURES"
  PROVE  StateComplete(Bench(s, l, q), i)
           = Left([s EXCEPT !.vkeys = N, !.st = IF i = 0 THEN "WAITING_FOR_MSGS"
                                   ELSE "WAITING_FOR_SHUFFLES_BEFORE_TURN"],
                  <<>>, l \o q, <<>>, <<[type |-> "KEY_DIST"]>>, <<>>)
<1> DEFINE w == Bench(s, l, q) r == l \o q
<1>0. /\ w.s = s /\ w.log = l /\ w.todo = q /\ w.out = <<>> /\ w.push = <<>> /\ w.tasks = <<>>
      /\ w = Left(s, l, q, <<>>, <<>>, <<>>)
  BY BenchFields
<1> HIDE DEF w
<1> DEFINE t == [s EXCEPT !.vkeys = N]
           x == IF i = 0 THEN "WAITING_FOR_MSGS" ELSE "WAITING_FOR_SHUFFLES_BEFORE_TURN"
           a == <<[type |-> "KEY_DIST"]>>
           f == [w EXCEPT !.s = t, !.push = a]
<1>1. StateComplete(w, i) = PushServerKeys(w, i)
  BY <1>0 DEF StateComplete
<1>2. PushServerKeys(w, i) = Enter(f, x)
  <2>1. Append(w.push, [type |-> "KEY_DIST"]) = a
    BY <1>0
  <2> QED
    BY <1>0, <2>1 DEF PushServerKeys
<1>3. f = Left(t, l, q, <<>>, a, <<>>)
  <2> HIDE DEF a, t
  <2>1. f = [w EXCEPT !.s = t, !.push = a] /\ w = Left(s, l, q, <<>>, <<>>, <<>>)
    BY <1>0
  <2> HIDE DEF f
  <2> QED
    BY <2>1 DEF Left
<1>4. t \in State
  BY CountAssumption DEF State
<1>5. [t EXCEPT !.st = x] = [s EXCEPT !.vkeys = N, !.st = x]
  BY DEF State
<1> HIDE DEF f, t, x
<1>6. Enter(f, x) = Left([t EXCEPT !.st = x], <<>>, r, <<>>, <<[type |-> "KEY_DIST"]>>, <<>>)
  BY <1>3, <1>4, EnterBench
<1> QED
  BY <1>1, <1>2, <1>5, <1>6 DEF w, x

LEMMA ShuffleMessagesLeaves ==
  ASSUME NEW s \in State, NEW l, NEW q, NEW i \in Server, s.st \in {"WAITING_FOR_MSGS", "WAITING_FOR_SHUFFLES_BEFORE_TURN"}
  PROVE  StateComplete(Bench(s, l, q), i)
           = Left([s EXCEPT !.st = "SHUFFLING"], <<>>, l \o q, <<>>, <<>>,
                  <<[kind |-> "shuffle"]>>)
<1> DEFINE w == Bench(s, l, q) r == l \o q
<1>0. /\ w.s = s /\ w.log = l /\ w.todo = q /\ w.out = <<>> /\ w.push = <<>> /\ w.tasks = <<>>
      /\ w = Left(s, l, q, <<>>, <<>>, <<>>)
  BY BenchFields
<1> HIDE DEF w
<1>1. StateComplete(w, i) = ShuffleMessages(w, i)
  BY <1>0 DEF StateComplete
<1>2. Enter(w, "SHUFFLING") = Left([s EXCEPT !.st = "SHUFFLING"], <<>>, r, <<>>, <<>>, <<>>)
  BY <1>0, EnterBench
<1> QED
  BY <1>1, <1>2, MendTasks DEF ShuffleMessages, w

LEMMA TransmitShuffleLeaves ==
  ASSUME NEW s \in State, NEW l, NEW q, NEW i \in Server, s.st = "SHUFFLING"
  PROVE  StateComplete(Bench(s, l, q), i)
           = Left([s EXCEPT !.own = NoBatch, !.st = "WAITING_FOR_SHUFFLES_AFTER_TURN"],
                  <<>>, l \o q, <<Shuffled(i, s.owned, s.own)>>, <<>>, <<>>)
<1> DEFINE w == Bench(s, l, q) r == l \o q
<1>0. /\ w.s = s /\ w.log = l /\ w.todo = q /\ w.out = <<>> /\ w.push = <<>> /\ w.tasks = <<>>
      /\ w = Left(s, l, q, <<>>, <<>>, <<>>)
  BY BenchFields
<1> HIDE DEF w
<1> DEFINE t == [s EXCEPT !.own = NoBatch] m == Shuffled(i, s.owned, s.own)
           f == [w EXCEPT !.s = t]
<1>1. StateComplete(w, i) = TransmitShuffle(w, i)
  BY <1>0 DEF StateComplete
<1>2. TransmitShuffle(w, i) = Enter(Broadcast(f, m), "WAITING_FOR_SHUFFLES_AFTER_TURN")
  BY <1>0 DEF TransmitShuffle
<1>3. f = Left(t, l, q, <<>>, <<>>, <<>>)
  BY <1>0, MendState
<1>4. t \in State
  <2>1. NoBatch \in Batch
    BY DEF NoBatch, Batch, Groups
  <2> QED
    BY <2>1 DEF State
<1>5. [t EXCEPT !.st = "WAITING_FOR_SHUFFLES_AFTER_TURN"] =
      [s EXCEPT !.own = NoBatch, !.st = "WAITING_FOR_SHUFFLES_AFTER_TURN"]
  BY DEF State
<1> HIDE DEF f, t, m
<1>6. Broadcast(f, m) = Left(t, l, q, <<m>>, <<>>, <<>>)
  <2>1. Append(f.out, m) = <<m>>
    <3>1. f.out = <<>>
      BY <1>3 DEF Left
    <3> QED
      BY <3>1
  <2>2. Broadcast(f, m) = [f EXCEPT !.out = <<m>>]
    BY <2>1 DEF Broadcast
  <2> QED
    BY <1>3, <2>2, MendOut
<1>7. Enter(Broadcast(f, m), "WAITING_FOR_SHUFFLES_AFTER_TURN") =
      Left([t EXCEPT !.st = "WAITING_FOR_SHUFFLES_AFTER_TURN"], <<>>, r, <<m>>, <<>>, <<>>)
  BY <1>4, <1>6, EnterBench
<1> QED
  BY <1>1, <1>2, <1>5, <1>7 DEF w, m

LEMMA SubmitSignatureLeaves ==
  ASSUME NEW s \in State, NEW l, NEW q, NEW i \in Server, s.st = "WAITING_FOR_SHUFFLES_AFTER_TURN"
  PROVE  StateComplete(Bench(s, l, q), i)
           = Left([s EXCEPT !.st = "WAITING_FOR_SIGNATURES"], <<>>, l \o q,
                  <<Signature(i, s.clear)>>, <<>>, <<>>)
<1> DEFINE w == Bench(s, l, q) r == l \o q
<1>0. /\ w.s = s /\ w.log = l /\ w.todo = q /\ w.out = <<>> /\ w.push = <<>> /\ w.tasks = <<>>
      /\ w = Left(s, l, q, <<>>, <<>>, <<>>)
  BY BenchFields
<1> HIDE DEF w
<1>1. StateComplete(w, i) = SubmitSignature(w, i)
  BY <1>0 DEF StateComplete
<1> QED
  BY <1>0, BroadcastLeaves, <1>1, EnterBench DEF SubmitSignature, w

LEMMA PushMessagesLeaves ==
  ASSUME NEW s \in State, NEW l, NEW q, NEW i \in Server, s.st = "WAITING_FOR_SIGNATURES"
  PROVE  StateComplete(Bench(s, l, q), i)
           = Left([s EXCEPT !.st = "PUSH_OUTPUT"], <<>>, l \o q, <<>>,
                  <<[type |-> "OUTPUT", text |-> s.clear, sigs |-> s.sigs]>>, <<>>)
<1> DEFINE w == Bench(s, l, q) r == l \o q
<1>0. /\ w.s = s /\ w.log = l /\ w.todo = q /\ w.out = <<>> /\ w.push = <<>> /\ w.tasks = <<>>
      /\ w = Left(s, l, q, <<>>, <<>>, <<>>)
  BY BenchFields
<1> HIDE DEF w
<1> DEFINE m == [type |-> "OUTPUT", text |-> s.clear, sigs |-> s.sigs]
           f == [w EXCEPT !.push = <<m>>]
<1>1. StateComplete(w, i) = PushMessages(w, i)
  BY <1>0 DEF StateComplete
<1>2. PushMessages(w, i) = Enter(f, "PUSH_OUTPUT")
  <2>1. Append(w.push, m) = <<m>>
    BY <1>0
  <2> QED
    BY <1>0, <2>1 DEF PushMessages
<1>3. f = Left(s, l, q, <<>>, <<m>>, <<>>)
  BY <1>0, MendPush
<1> QED
  BY <1>1, <1>2, <1>3, EnterBench DEF w

-----------------------------------------------------------------------------
(* StateComplete keeps the invariant *)

\* The states in which a server may complete, and when.
Ready(i, s, d, K) ==
  /\ s.st \in {"KEY_GENERATION", "WAITING_FOR_KEYS", "WAITING_FOR_KEY_SIGNATURES",
               "WAITING_FOR_MSGS", "SHUFFLING", "WAITING_FOR_SIGNATURES"} \cup Turning
  /\ s.st = "WAITING_FOR_MSGS" => s.vin = Text(K, 0)
  /\ s.st = "WAITING_FOR_SHUFFLES_BEFORE_TURN" => s.end = i
  /\ s.st = "SHUFFLING" => d = <<"op">>
  /\ s.st = "WAITING_FOR_SHUFFLES_AFTER_TURN" => s.end = N
  /\ s.st = "WAITING_FOR_SIGNATURES" => s.sigs = Server

LEMMA StateChanged ==
  ASSUME NEW s \in State, NEW x \in States
  PROVE  LET t == [s EXCEPT !.st = x]
         IN /\ t \in State /\ t.st = x /\ t.input = s.input /\ t.proofs = s.proofs
            /\ t.owned = s.owned /\ t.own = s.own /\ t.vin = s.vin /\ t.vidx = s.vidx
            /\ t.end = s.end /\ t.newEnd = s.newEnd /\ t.clear = s.clear /\ t.sigs = s.sigs
<1> DEFINE t == [s EXCEPT !.st = x]
<1>1. t \in State
  BY DEF State
<1>2. t.st = x /\ t.input = s.input /\ t.proofs = s.proofs
  BY DEF State
<1>3. t.owned = s.owned /\ t.own = s.own /\ t.vin = s.vin /\ t.vidx = s.vidx
  BY DEF State
<1>4. t.end = s.end /\ t.newEnd = s.newEnd /\ t.clear = s.clear /\ t.sigs = s.sigs
  BY DEF State
<1> QED
  BY <1>1, <1>2, <1>3, <1>4

LEMMA SequenceOfOne ==
  ASSUME NEW S, NEW m \in S
  PROVE  <<m>> \in Seq(S)
OBVIOUS

LEMMA Joined ==
  ASSUME NEW S, NEW l \in Seq(S), NEW q \in Seq(S)
  PROVE  l \o q \in Seq(S)
OBVIOUS

LEMMA CompletesLocal ==
  ASSUME NEW i \in Server, NEW s \in State, NEW d, NEW K,
         Local(i, s, <<>>, d, K), Ready(i, s, d, K),
         NEW t \in State, NEW k,
         t.input = s.input, t.proofs = s.proofs, t.vin = s.vin, t.vidx = s.vidx,
         t.end = s.end, t.newEnd = s.newEnd, t.clear = s.clear, t.sigs = s.sigs,
         \/ s.st = "KEY_GENERATION" /\ t.st = "WAITING_FOR_KEYS" /\ k = <<>>
         \/ s.st = "WAITING_FOR_KEYS" /\ t.st = "WAITING_FOR_KEY_SIGNATURES" /\ k = <<>>
         \/ s.st = "WAITING_FOR_KEY_SIGNATURES" /\ k = <<>>
            /\ t.st = IF i = 0 THEN "WAITING_FOR_MSGS" ELSE "WAITING_FOR_SHUFFLES_BEFORE_TURN"
         \/ s.st \in {"WAITING_FOR_MSGS", "WAITING_FOR_SHUFFLES_BEFORE_TURN"}
            /\ t.st = "SHUFFLING" /\ k = <<[kind |-> "shuffle"]>>
         \/ s.st = "SHUFFLING" /\ t.st = "WAITING_FOR_SHUFFLES_AFTER_TURN" /\ k = <<>>
         \/ s.st = "WAITING_FOR_SHUFFLES_AFTER_TURN" /\ t.st = "WAITING_FOR_SIGNATURES" /\ k = <<>>
         \/ s.st = "WAITING_FOR_SIGNATURES" /\ t.st = "PUSH_OUTPUT" /\ k = <<>>
  PROVE  Local(i, t, k, <<>>, K)
<1>0. i \in Int /\ i >= 0 /\ i < N /\ N \in Int /\ s.end \in 0..N /\ s.vidx \in 0..N
  BY CountAssumption DEF State, Server
<1>1. CASE s.st = "KEY_GENERATION" /\ t.st = "WAITING_FOR_KEYS" /\ k = <<>>
  BY <1>0, <1>1 DEF Local, Works, Place, Holds, Early, Turning, Ended
<1>2. CASE s.st = "WAITING_FOR_KEYS" /\ t.st = "WAITING_FOR_KEY_SIGNATURES" /\ k = <<>>
  BY <1>0, <1>2 DEF Local, Works, Place, Holds, Early, Turning, Ended
<1>3. CASE s.st = "WAITING_FOR_KEY_SIGNATURES" /\ k = <<>>
           /\ t.st = IF i = 0 THEN "WAITING_FOR_MSGS" ELSE "WAITING_FOR_SHUFFLES_BEFORE_TURN"
  BY <1>0, <1>3 DEF Local, Works, Place, Holds, Early, Turning, Ended, Proving
<1>4. CASE s.st \in {"WAITING_FOR_MSGS", "WAITING_FOR_SHUFFLES_BEFORE_TURN"}
           /\ t.st = "SHUFFLING" /\ k = <<[kind |-> "shuffle"]>>
  BY <1>0, <1>4 DEF Local, Works, Place, Holds, Early, Turning, Ended, Proving, TurnTask, Ready
<1>5. CASE s.st = "SHUFFLING" /\ t.st = "WAITING_FOR_SHUFFLES_AFTER_TURN" /\ k = <<>>
  BY <1>0, <1>5 DEF Local, Works, Place, Holds, Early, Turning, Ended, Proving, TurnTask, Ready
<1>6. CASE s.st = "WAITING_FOR_SHUFFLES_AFTER_TURN" /\ t.st = "WAITING_FOR_SIGNATURES" /\ k = <<>>
  BY <1>0, <1>6 DEF Local, Works, Place, Holds, Early, Turning, Ended, Proving, Ready
<1>7. CASE s.st = "WAITING_FOR_SIGNATURES" /\ t.st = "PUSH_OUTPUT" /\ k = <<>>
  BY <1>0, <1>7 DEF Local, Works, Place, Holds, Early, Turning, Ended, Ready
<1> QED
  BY <1>1, <1>2, <1>3, <1>4, <1>5, <1>6, <1>7

LEMMA Completes ==
  ASSUME NEW i \in Server, NEW s0, NEW s \in State, NEW d, NEW M, NEW K,
         s0.st = s.st, K = Input(i, s, M), K = M \/ s0.st \notin After,
         Local(i, s, <<>>, d, K), Ready(i, s, d, K),
         NEW X, NEW l \in Seq(X), NEW q \in Seq(X)
  PROVE  /\ Result(i, s0, StateComplete(Bench(s, l, q), i), <<>>, <<>>, M, X)
         /\ StateComplete(Bench(s, l, q), i).s.proofs = s.proofs
<1> DEFINE v == StateComplete(Bench(s, l, q), i) r == l \o q
<1> SUFFICES Result(i, s0, v, <<>>, <<>>, M, X) /\ v.s.proofs = s.proofs
  OBVIOUS
<1>1. r \in Seq(X)
  BY Joined
<1>2. \A t, o, u, k :
         /\ v = Left(t, <<>>, r, o, u, k) /\ Local(i, t, k, <<>>, K) /\ k \in Seq({[kind |-> "shuffle"]})
         /\ t.input = s.input /\ t.proofs = s.proofs /\ (s0.st \in After => t.st \in After)
         /\ o \in Seq(Outs(i, t, K)) /\ u \in Seq(Sheets(t, K))
         => Result(i, s0, v, <<>>, <<>>, M, X) /\ v.s.proofs = s.proofs
  <2> SUFFICES ASSUME NEW t, NEW o, NEW u, NEW k, v = Left(t, <<>>, r, o, u, k),
                      Local(i, t, k, <<>>, K), k \in Seq({[kind |-> "shuffle"]}),
                      t.input = s.input, t.proofs = s.proofs, s0.st \in After => t.st \in After,
                      o \in Seq(Outs(i, t, K)), u \in Seq(Sheets(t, K))
               PROVE  Result(i, s0, v, <<>>, <<>>, M, X) /\ v.s.proofs = s.proofs
    OBVIOUS
  <2> HIDE DEF v, r
  <2>1. /\ v.s = t /\ v.log = <<>> /\ v.todo = r /\ v.out = o /\ v.push = u /\ v.tasks = k
    BY DEF Left
  <2>2. <<>> \o v.tasks = k
    BY <2>1
  <2>3. Input(i, v.s, M) = K
    BY <2>1 DEF Input
  <2>4. <<>> \in Seq(X)
    OBVIOUS
  <2>5. Fits(i, s0, v.s, <<>> \o v.tasks, <<>>, M)
    BY <2>1, <2>2, <2>3 DEF Fits
  <2> QED
    BY <1>1, <2>1, <2>2, <2>3, <2>4, <2>5 DEF Result
<1> HIDE DEF v, r
<1>e. /\ \A S : <<>> \in Seq(S)
      /\ \A S, m : m \in S => <<m>> \in Seq(S)
  OBVIOUS
<1>k. <<[kind |-> "shuffle"]>> \in Seq({[kind |-> "shuffle"]}) /\ <<>> \in Seq({[kind |-> "shuffle"]})
  OBVIOUS
<1>0. /\ i \in Int /\ i >= 0 /\ i < N /\ N \in Int /\ s.clear \in Batch
  BY CountAssumption DEF State, Server
<1>3. CASE s.st = "KEY_GENERATION"
  <2> DEFINE x == "WAITING_FOR_KEYS" t == [s EXCEPT !.st = x]
  <2>1. v = Left(t, <<>>, r, <<Key(i)>>, <<>>, <<>>)
    BY <1>3, SubmitKeyLeaves DEF v, r
  <2>2. x \in States
    BY DEF States, Early
  <2>3. /\ t \in State /\ t.st = x /\ t.input = s.input /\ t.proofs = s.proofs /\ t.vin = s.vin
        /\ t.vidx = s.vidx /\ t.end = s.end /\ t.newEnd = s.newEnd /\ t.clear = s.clear
        /\ t.sigs = s.sigs
    BY <2>2, StateChanged
  <2> HIDE DEF t
  <2>4. Local(i, t, <<>>, <<>>, K)
    BY <1>3, <2>3, CompletesLocal
  <2>5. Key(i) \in Outs(i, t, K)
    BY DEF Outs, Key, Plain
  <2>6. s0.st \notin After
    BY <1>3 DEF After, Ended
  <2>8. <<Key(i)>> \in Seq(Outs(i, t, K)) /\ <<>> \in Seq(Sheets(t, K))
    BY <1>e, <2>5
  <2> QED
    BY <1>2, <1>k, <2>1, <2>3, <2>4, <2>6, <2>8
<1>4. CASE s.st = "WAITING_FOR_KEYS"
  <2> DEFINE x == "WAITING_FOR_KEY_SIGNATURES" t == [s EXCEPT !.st = x]
  <2>1. v = Left(t, <<>>, r, <<KeySignature(i)>>, <<>>, <<>>)
    BY <1>4, SubmitKeySignatureLeaves DEF v, r
  <2>2. x \in States
    BY DEF States, Early
  <2>3. /\ t \in State /\ t.st = x /\ t.input = s.input /\ t.proofs = s.proofs /\ t.vin = s.vin
        /\ t.vidx = s.vidx /\ t.end = s.end /\ t.newEnd = s.newEnd /\ t.clear = s.clear
        /\ t.sigs = s.sigs
    BY <2>2, StateChanged
  <2> HIDE DEF t
  <2>4. Local(i, t, <<>>, <<>>, K)
    BY <1>4, <2>3, CompletesLocal
  <2>5. KeySignature(i) \in Outs(i, t, K)
    BY DEF Outs, KeySignature, Plain
  <2>6. s0.st \notin After
    BY <1>4 DEF After, Ended
  <2>8. <<KeySignature(i)>> \in Seq(Outs(i, t, K)) /\ <<>> \in Seq(Sheets(t, K))
    BY <1>e, <2>5
  <2> QED
    BY <1>2, <1>k, <2>1, <2>3, <2>4, <2>6, <2>8
<1>5. CASE s.st = "WAITING_FOR_KEY_SIGNATURES"
  <2> DEFINE x == IF i = 0 THEN "WAITING_FOR_MSGS" ELSE "WAITING_FOR_SHUFFLES_BEFORE_TURN"
             t == [s EXCEPT !.vkeys = N, !.st = x]
  <2>1. v = Left(t, <<>>, r, <<>>, <<[type |-> "KEY_DIST"]>>, <<>>)
    BY <1>5, PushServerKeysLeaves DEF v, r
  <2>2. x \in States
    BY DEF States, Early, Turning
  <2>3. /\ t \in State /\ t.st = x /\ t.input = s.input /\ t.proofs = s.proofs /\ t.vin = s.vin
        /\ t.vidx = s.vidx /\ t.end = s.end /\ t.newEnd = s.newEnd /\ t.clear = s.clear
        /\ t.sigs = s.sigs
    <3> HIDE DEF x
    <3> QED
      BY <1>0, <2>2 DEF State
  <2>7. t.st = IF i = 0 THEN "WAITING_FOR_MSGS" ELSE "WAITING_FOR_SHUFFLES_BEFORE_TURN"
    BY <2>3
  <2> HIDE DEF t, x
  <2>4. Local(i, t, <<>>, <<>>, K)
    BY <1>5, <2>3, <2>7, CompletesLocal
  <2>5. [type |-> "KEY_DIST"] \in Sheets(t, K)
    BY DEF Sheets
  <2>6. s0.st \notin After
    BY <1>5 DEF After, Ended
  <2>8. <<>> \in Seq(Outs(i, t, K)) /\ <<[type |-> "KEY_DIST"]>> \in Seq(Sheets(t, K))
    BY <1>e, <2>5
  <2> QED
    BY <1>2, <1>k, <2>1, <2>3, <2>4, <2>6, <2>8
<1>6. CASE s.st \in {"WAITING_FOR_MSGS", "WAITING_FOR_SHUFFLES_BEFORE_TURN"}
  <2> DEFINE x == "SHUFFLING" t == [s EXCEPT !.st = x]
  <2>1. v = Left(t, <<>>, r, <<>>, <<>>, <<[kind |-> "shuffle"]>>)
    BY <1>6, ShuffleMessagesLeaves DEF v, r
  <2>2. x \in States
    BY DEF States
  <2>3. /\ t \in State /\ t.st = x /\ t.input = s.input /\ t.proofs = s.proofs /\ t.vin = s.vin
        /\ t.vidx = s.vidx /\ t.end = s.end /\ t.newEnd = s.newEnd /\ t.clear = s.clear
        /\ t.sigs = s.sigs
    BY <2>2, StateChanged
  <2> HIDE DEF t
  <2>4. Local(i, t, <<[kind |-> "shuffle"]>>, <<>>, K)
    BY <1>6, <2>3, CompletesLocal
  <2>6. s0.st \notin After
    BY <1>6 DEF After, Ended
  <2>8. <<>> \in Seq(Outs(i, t, K)) /\ <<>> \in Seq(Sheets(t, K))
    BY <1>e, <2>3
  <2> QED
    BY <1>2, <1>k, <2>1, <2>3, <2>4, <2>6, <2>8
<1>7. CASE s.st = "SHUFFLING"
  <2> DEFINE x == "WAITING_FOR_SHUFFLES_AFTER_TURN" t == [s EXCEPT !.own = NoBatch, !.st = x]
             m == Shuffled(i, s.owned, s.own)
  <2>1. v = Left(t, <<>>, r, <<m>>, <<>>, <<>>)
    BY <1>7, TransmitShuffleLeaves DEF v, r
  <2>2. x \in States /\ NoBatch \in Batch
    BY DEF States, Turning, NoBatch, Batch, Groups
  <2>3. /\ t \in State /\ t.st = x /\ t.input = s.input /\ t.proofs = s.proofs /\ t.vin = s.vin
        /\ t.vidx = s.vidx /\ t.end = s.end /\ t.newEnd = s.newEnd /\ t.clear = s.clear
        /\ t.sigs = s.sigs
    BY <2>2 DEF State
  <2> HIDE DEF t
  <2>4. Local(i, t, <<>>, <<>>, K)
    BY <1>7, <2>3, CompletesLocal
  <2>5. m = Told(K, i)
    <3>1. d = <<"op">> /\ TurnTask(i, s, <<>>, d, K)
      BY <1>7 DEF Ready, Local, Works
    <3>2. s.owned = Text(K, i) /\ s.own = Text(K, i + 1)
      BY <3>1 DEF TurnTask
    <3> QED
      BY <3>2 DEF Told
  <2>6. t.st \in After
    BY <2>3 DEF After
  <2>7. m \in Outs(i, t, K)
    BY <2>5, <2>6 DEF Outs
  <2> HIDE DEF m
  <2>8. <<m>> \in Seq(Outs(i, t, K)) /\ <<>> \in Seq(Sheets(t, K))
    BY <1>e, <2>7
  <2> QED
    BY <1>2, <1>k, <2>1, <2>3, <2>4, <2>6, <2>8
<1>8. CASE s.st = "WAITING_FOR_SHUFFLES_AFTER_TURN"
  <2> DEFINE x == "WAITING_FOR_SIGNATURES" t == [s EXCEPT !.st = x]
  <2>1. v = Left(t, <<>>, r, <<Signature(i, s.clear)>>, <<>>, <<>>)
    BY <1>8, SubmitSignatureLeaves DEF v, r
  <2>2. x \in States
    BY DEF States, Ended
  <2>3. /\ t \in State /\ t.st = x /\ t.input = s.input /\ t.proofs = s.proofs /\ t.vin = s.vin
        /\ t.vidx = s.vidx /\ t.end = s.end /\ t.newEnd = s.newEnd /\ t.clear = s.clear
        /\ t.sigs = s.sigs
    BY <2>2, StateChanged
  <2> HIDE DEF t
  <2>4. Local(i, t, <<>>, <<>>, K)
    BY <1>8, <2>3, CompletesLocal
  <2>5. Signature(i, s.clear) \in Outs(i, t, K)
    BY <1>0 DEF Outs, Signature, Plain
  <2>6. t.st \in After
    BY <2>3 DEF After, Ended
  <2>8. <<Signature(i, s.clear)>> \in Seq(Outs(i, t, K)) /\ <<>> \in Seq(Sheets(t, K))
    BY <1>e, <2>5
  <2> QED
    BY <1>2, <1>k, <2>1, <2>3, <2>4, <2>6, <2>8
<1>9. CASE s.st = "WAITING_FOR_SIGNATURES"
  <2> DEFINE x == "PUSH_OUTPUT" t == [s EXCEPT !.st = x]
             m == [type |-> "OUTPUT", text |-> s.clear, sigs |-> s.sigs]
  <2>1. v = Left(t, <<>>, r, <<>>, <<m>>, <<>>)
    BY <1>9, PushMessagesLeaves DEF v, r
  <2>2. x \in States
    BY DEF States, Ended
  <2>3. /\ t \in State /\ t.st = x /\ t.input = s.input /\ t.proofs = s.proofs /\ t.vin = s.vin
        /\ t.vidx = s.vidx /\ t.end = s.end /\ t.newEnd = s.newEnd /\ t.clear = s.clear
        /\ t.sigs = s.sigs
    BY <2>2, StateChanged
  <2> HIDE DEF t
  <2>4. Local(i, t, <<>>, <<>>, K)
    BY <1>9, <2>3, CompletesLocal
  <2>5. t.st \in After
    BY <2>3 DEF After, Ended
  <2>6. m \in Sheets(t, K)
    <3>1. s.clear = Text(K, N)
      BY <1>9 DEF Local, Place, Holds, Ended
    <3>2. s.sigs \in SUBSET Server
      BY DEF State
    <3> QED
      BY <2>5, <3>1, <3>2 DEF Sheets
  <2> HIDE DEF m
  <2>8. <<>> \in Seq(Outs(i, t, K)) /\ <<m>> \in Seq(Sheets(t, K))
    BY <1>e, <2>6
  <2> QED
    BY <1>2, <1>k, <2>1, <2>3, <2>4, <2>5, <2>8
<1> QED
  BY <1>3, <1>4, <1>5, <1>6, <1>7, <1>8, <1>9 DEF Ready, Turning

-----------------------------------------------------------------------------
(* Handlers of messages other than shuffles keep the invariant *)

LEMMA OneTask ==
  ASSUME NEW i, NEW s \in State, NEW p, NEW d, NEW K, Local(i, s, p, d, K)
  PROVE  p \o <<>> = p
<1>1. p = <<>> \/ p = <<p[1]>>
  BY DEF Local, Works, KeyTask, TurnTask, Proving, State, States, Turning, Early, Ended
<1>2. CASE p = <<>>
  BY <1>2
<1>3. CASE p = <<p[1]>>
  <2> DEFINE a == p[1]
  <2>1. <<a>> \o <<>> = <<a>>
    OBVIOUS
  <2> QED
    BY <1>3, <2>1
<1> QED
  BY <1>1, <1>2, <1>3

\* A handler that sends nothing and starts nothing.
LEMMA Stays ==
  ASSUME NEW i \in Server, NEW s, NEW t \in State, NEW p, NEW d, NEW M, NEW K,
         t.st = s.st, K = Input(i, t, M), K = M \/ s.st \notin After, Local(i, t, p, d, K),
         NEW X, NEW l \in Seq(X), NEW q \in Seq(X)
  PROVE  Result(i, s, Bench(t, l, q), p, d, M, X) /\ Bench(t, l, q).s.proofs = t.proofs
<1> DEFINE v == Bench(t, l, q)
<1>1. /\ v.s = t /\ v.log = l /\ v.todo = q /\ v.out = <<>> /\ v.push = <<>> /\ v.tasks = <<>>
  BY BenchFields
<1> HIDE DEF v
<1>2. p \o v.tasks = p
  BY <1>1, OneTask
<1>3. v.out \in Seq(Outs(i, v.s, Input(i, v.s, M))) /\ v.push \in Seq(Sheets(v.s, Input(i, v.s, M)))
  BY <1>1
<1>4. Fits(i, s, v.s, p \o v.tasks, d, M)
  BY <1>1, <1>2 DEF Fits
<1> QED
  BY <1>1, <1>3, <1>4 DEF Result, v

LEMMA SameLocal ==
  ASSUME NEW i, NEW s \in State, NEW t \in State, NEW p, NEW d, NEW K, Local(i, s, p, d, K),
         t.st = s.st, t.input = s.input, t.proofs = s.proofs, t.owned = s.owned, t.own = s.own,
         t.vin = s.vin, t.vidx = s.vidx, t.end = s.end, t.newEnd = s.newEnd, t.clear = s.clear,
         t.st = "PUSH_OUTPUT" => t.sigs = s.sigs
  PROVE  Local(i, t, p, d, K)
<1>1. Works(i, t, p, d, K)
  <2>1. \A a : Loops(t, a, K) <=> Loops(s, a, K)
    BY DEF Loops
  <2>2. Proving(t, p, d, K) <=> Proving(s, p, d, K)
    BY <2>1 DEF Proving
  <2> QED
    BY <2>2 DEF Local, Works, KeyTask, TurnTask
<1>2. Place(i, t, p, d)
  BY DEF Local, Place
<1>3. Holds(i, t, K)
  BY DEF Local, Holds
<1> QED
  BY <1>1, <1>2, <1>3 DEF Local

LEMMA HandleKeyWorks ==
  ASSUME NEW i \in Server, NEW s \in State, NEW p, NEW d, NEW M, Local(i, s, p, d, M),
         i = 0 => M = s.input.msgs, NEW X, NEW l \in Seq(X), NEW q \in Seq(X),
         NEW m, m.from \in Server, s.st = "WAITING_FOR_KEYS"
  PROVE  LET v == HandleKey(Bench(s, l, q), i, m)
         IN Result(i, s, v, p, d, M, X) /\ v.s.proofs = s.proofs
<1> DEFINE w == Bench(s, l, q) h == s.keys \cup {m.from} t == [s EXCEPT !.keys = h]
           b == [w EXCEPT !.s = t] v == HandleKey(w, i, m)
<1>0. p = <<>> /\ d = <<>>
  BY DEF Local, Works, Early
<1>1. w.s = s /\ w = Left(s, l, q, <<>>, <<>>, <<>>)
  BY BenchFields
<1>2. b = Bench(t, l, q)
  <2> HIDE DEF w, t
  <2> QED
    BY <1>1, MendState DEF Bench
<1>3. v = IF b.s.keys = Server THEN StateComplete(b, i) ELSE b
  <2> HIDE DEF w
  <2> QED
    BY <1>1 DEF HandleKey
<1>4. /\ t \in State /\ t.st = s.st /\ t.input = s.input /\ t.proofs = s.proofs
      /\ t.owned = s.owned /\ t.own = s.own /\ t.vin = s.vin /\ t.vidx = s.vidx
      /\ t.end = s.end /\ t.newEnd = s.newEnd /\ t.clear = s.clear /\ t.sigs = s.sigs
  BY DEF State
<1> HIDE DEF w, t, b, v
<1>5. Local(i, t, p, d, M) /\ M = Input(i, t, M)
  BY <1>4, SameLocal DEF Input
<1>6. Ready(i, t, d, M)
  BY <1>4 DEF Ready
<1>7. Result(i, s, Bench(t, l, q), p, d, M, X) /\ Bench(t, l, q).s.proofs = t.proofs
  BY <1>4, <1>5, Stays
<1>8. /\ Result(i, s, StateComplete(Bench(t, l, q), i), <<>>, <<>>, M, X)
      /\ StateComplete(Bench(t, l, q), i).s.proofs = t.proofs
  BY <1>0, <1>4, <1>5, <1>6, Completes
<1> QED
  BY <1>0, <1>2, <1>3, <1>4, <1>7, <1>8 DEF v, w

LEMMA HandleKeySignatureWorks ==
  ASSUME NEW i \in Server, NEW s \in State, NEW p, NEW d, NEW M, Local(i, s, p, d, M),
         i = 0 => M = s.input.msgs, NEW X, NEW l \in Seq(X), NEW q \in Seq(X),
         NEW m, m.from \in Server, s.st = "WAITING_FOR_KEY_SIGNATURES"
  PROVE  LET v == HandleKeySignature(Bench(s, l, q), i, m)
         IN Result(i, s, v, p, d, M, X) /\ v.s.proofs = s.proofs
<1> DEFINE w == Bench(s, l, q) h == s.ksigs \cup {m.from} t == [s EXCEPT !.ksigs = h]
           b == [w EXCEPT !.s = t] v == HandleKeySignature(w, i, m)
<1>0. p = <<>> /\ d = <<>>
  BY DEF Local, Works, Early
<1>1. w.s = s /\ w = Left(s, l, q, <<>>, <<>>, <<>>)
  BY BenchFields
<1>2. b = Bench(t, l, q)
  <2> HIDE DEF w, t
  <2> QED
    BY <1>1, MendState DEF Bench
<1>3. v = IF b.s.ksigs = Server THEN StateComplete(b, i) ELSE b
  <2> HIDE DEF w
  <2> QED
    BY <1>1 DEF HandleKeySignature
<1>4. /\ t \in State /\ t.st = s.st /\ t.input = s.input /\ t.proofs = s.proofs
      /\ t.owned = s.owned /\ t.own = s.own /\ t.vin = s.vin /\ t.vidx = s.vidx
      /\ t.end = s.end /\ t.newEnd = s.newEnd /\ t.clear = s.clear /\ t.sigs = s.sigs
  BY DEF State
<1> HIDE DEF w, t, b, v
<1>5. Local(i, t, p, d, M) /\ M = Input(i, t, M)
  BY <1>4, SameLocal DEF Input
<1>6. Ready(i, t, d, M)
  BY <1>4 DEF Ready
<1>7. Result(i, s, Bench(t, l, q), p, d, M, X) /\ Bench(t, l, q).s.proofs = t.proofs
  BY <1>4, <1>5, Stays
<1>8. /\ Result(i, s, StateComplete(Bench(t, l, q), i), <<>>, <<>>, M, X)
      /\ StateComplete(Bench(t, l, q), i).s.proofs = t.proofs
  BY <1>0, <1>4, <1>5, <1>6, Completes
<1> QED
  BY <1>0, <1>2, <1>3, <1>4, <1>7, <1>8 DEF v, w

LEMMA HandleSignatureWorks ==
  ASSUME NEW i \in Server, NEW s \in State, NEW p, NEW d, NEW M, Local(i, s, p, d, M),
         i = 0 => M = s.input.msgs, NEW X, NEW l \in Seq(X), NEW q \in Seq(X),
         NEW m, m.from \in Server, s.st = "WAITING_FOR_SIGNATURES"
  PROVE  LET v == HandleSignature(Bench(s, l, q), i, m)
         IN Result(i, s, v, p, d, M, X) /\ v.s.proofs = s.proofs
<1> DEFINE w == Bench(s, l, q) h == s.sigs \cup {m.from} t == [s EXCEPT !.sigs = h]
           b == [w EXCEPT !.s = t] v == HandleSignature(w, i, m)
<1>0. p = <<>> /\ d = <<>>
  BY DEF Local, Works, Ended
<1>1. w.s = s /\ w = Left(s, l, q, <<>>, <<>>, <<>>)
  BY BenchFields
<1>2. b = Bench(t, l, q)
  <2> HIDE DEF w, t
  <2> QED
    BY <1>1, MendState DEF Bench
<1>3. v = IF m.from \in s.sigs \/ m.text # s.clear THEN w
          ELSE IF b.s.sigs = Server THEN StateComplete(b, i) ELSE b
  <2> HIDE DEF w
  <2> QED
    BY <1>1 DEF HandleSignature, AllSigned
<1>4. /\ t \in State /\ t.st = s.st /\ t.input = s.input /\ t.proofs = s.proofs
      /\ t.owned = s.owned /\ t.own = s.own /\ t.vin = s.vin /\ t.vidx = s.vidx
      /\ t.end = s.end /\ t.newEnd = s.newEnd /\ t.clear = s.clear /\ t.sigs = h
  BY DEF State
<1> HIDE DEF w, t, b, v
<1>5. Local(i, t, p, d, M) /\ M = Input(i, t, M)
  BY <1>4, SameLocal DEF Input
<1>6. t.sigs = Server => Ready(i, t, d, M)
  BY <1>4 DEF Ready
<1>7. Result(i, s, Bench(t, l, q), p, d, M, X) /\ Bench(t, l, q).s.proofs = t.proofs
  BY <1>4, <1>5, Stays
<1>c. b.s = t
  BY <1>2, BenchFields
<1>9. Result(i, s, w, p, d, M, X) /\ w.s.proofs = s.proofs
  <2>1. M = Input(i, s, M)
    BY DEF Input
  <2> QED
    BY <2>1, Stays DEF w
<1>8. ASSUME t.sigs = Server
      PROVE  /\ Result(i, s, StateComplete(Bench(t, l, q), i), <<>>, <<>>, M, X)
             /\ StateComplete(Bench(t, l, q), i).s.proofs = t.proofs
  BY <1>0, <1>4, <1>5, <1>6, <1>8, Completes
<1> QED
  BY <1>0, <1>2, <1>3, <1>4, <1>7, <1>8, <1>9, <1>c DEF v, w

\* The first server collects: what it holds is what it will shuffle.
LEMMA Collects ==
  ASSUME NEW i \in Server, NEW s \in State, NEW M, Local(i, s, <<>>, <<>>, M),
         s.st = "WAITING_FOR_MSGS", NEW B \in Groups,
         NEW t \in State, t.st = s.st, t.input = Text(B, 0), t.proofs = s.proofs, t.vidx = s.vidx,
         t.end = s.end, t.newEnd = s.newEnd
  PROVE  i = 0 /\ Local(i, t, <<>>, <<>>, B)
<1>1. i = 0 /\ s.end = 0 /\ s.vidx = 0 /\ s.newEnd = 0
  BY DEF Local, Place, Early
<1>2. Works(i, t, <<>>, <<>>, B)
  BY DEF Works, Early, Turning, Ended
<1>3. Place(i, t, <<>>, <<>>)
  BY <1>1 DEF Place, Early, Ended, Local
<1>4. Holds(i, t, B)
  BY <1>1, CountAssumption DEF Holds, Early
<1> QED
  BY <1>1, <1>2, <1>3, <1>4 DEF Local

LEMMA HandleMessageSubmissionWorks ==
  ASSUME NEW i \in Server, NEW s \in State, NEW p, NEW d, NEW M, Local(i, s, p, d, M),
         i = 0 => M = s.input.msgs, NEW X, NEW l \in Seq(X), NEW q \in Seq(X),
         NEW m, m.from \in Client, s.st = "WAITING_FOR_MSGS"
  PROVE  LET v == HandleMessageSubmission(Bench(s, l, q), i, m)
         IN Result(i, s, v, p, d, M, X) /\ v.s.proofs = s.proofs
<1> DEFINE w == Bench(s, l, q) B == s.input.msgs \cup {m.from}
           h == [s.input EXCEPT !.msgs = B] t == [s EXCEPT !.input = h]
           u == [t EXCEPT !.vin = h]
           b == [w EXCEPT !.s = t] c == [b EXCEPT !.s = u]
           v == HandleMessageSubmission(w, i, m)
<1>0. p = <<>> /\ d = <<>>
  BY DEF Local, Works, Early
<1>1. w.s = s /\ w = Left(s, l, q, <<>>, <<>>, <<>>)
  BY BenchFields
<1>2. b = Bench(t, l, q) /\ c = Bench(u, l, q)
  <2> HIDE DEF w, t, u
  <2>1. b = Left(t, l, q, <<>>, <<>>, <<>>)
    BY <1>1, MendState
  <2> HIDE DEF b
  <2>2. c = Left(u, l, q, <<>>, <<>>, <<>>)
    BY <2>1, MendState
  <2> QED
    BY <2>1, <2>2 DEF Bench
<1>a. i = 0 /\ s.input = Text(M, 0) /\ B \in Groups
  <2>1. i = 0 /\ s.input = Text(M, 0)
    BY DEF Local, Place, Holds
  <2>2. s.input \in Batch
    BY DEF State
  <2>3. s.input.msgs \in Groups
    BY <2>2 DEF Batch
  <2> QED
    BY <2>1, <2>3 DEF Groups
<1>b. h = Text(B, 0) /\ h.msgs = B /\ h \in Batch
  <2> HIDE DEF B
  <2>1. h = Text(B, 0)
    BY <1>a DEF Text
  <2> QED
    BY <1>a, <2>1 DEF Text, Batch
<1>c. b.s = t /\ t.input = h
  <2>1. t.input = h
    BY DEF State
  <2> QED
    BY <1>2, <2>1, BenchFields
<1>3. v = IF h.msgs = Client THEN StateComplete(c, i) ELSE b
  <2> DEFINE e == [w EXCEPT !.s.input.msgs = @ \cup {m.from}]
  <2>1. e = b
    <3> HIDE DEF w
    <3> QED
      BY <1>1
  <2>2. [b EXCEPT !.s.vin = b.s.input] = c
    <3> HIDE DEF b, t
    <3> QED
      BY <1>c
  <2>3. v = IF e.s.input.msgs = Client THEN StateComplete([e EXCEPT !.s.vin = e.s.input], i) ELSE e
    <3> HIDE DEF w
    <3> QED
      BY DEF HandleMessageSubmission
  <2> HIDE DEF w, b, c, t, u, h, v, e
  <2> QED
    BY <1>c, <2>1, <2>2, <2>3
<1>4. /\ t \in State /\ t.st = s.st /\ t.input = h /\ t.proofs = s.proofs /\ t.vidx = s.vidx
      /\ t.end = s.end /\ t.newEnd = s.newEnd
  <2> HIDE DEF h
  <2> QED
    BY <1>b DEF State
<1>5. /\ u \in State /\ u.st = s.st /\ u.input = h /\ u.proofs = s.proofs /\ u.vidx = s.vidx
      /\ u.end = s.end /\ u.newEnd = s.newEnd /\ u.vin = h
  <2> HIDE DEF h, t
  <2> QED
    BY <1>b, <1>4 DEF State
<1> HIDE DEF w, h, t, u, b, c, v, B
<1>6. Local(i, t, <<>>, <<>>, B) /\ B = Input(i, t, M)
  BY <1>0, <1>a, <1>b, <1>4, Collects DEF Input
<1>7. Local(i, u, <<>>, <<>>, B) /\ B = Input(i, u, M)
  BY <1>0, <1>a, <1>b, <1>5, Collects DEF Input
<1>8. s.st \notin After
  BY DEF After, Ended
<1>9. Result(i, s, Bench(t, l, q), p, d, M, X) /\ Bench(t, l, q).s.proofs = t.proofs
  BY <1>0, <1>4, <1>6, <1>8, Stays
<1>10. Ready(i, u, <<>>, B)
  BY <1>5, <1>b DEF Ready
<1>11. /\ Result(i, s, StateComplete(Bench(u, l, q), i), <<>>, <<>>, M, X)
       /\ StateComplete(Bench(u, l, q), i).s.proofs = u.proofs
  BY <1>5, <1>7, <1>8, <1>10, Completes
<1> QED
  BY <1>0, <1>2, <1>3, <1>4, <1>5, <1>9, <1>11 DEF v, w

\* Handle, for everything but a shuffle.
LEMMA HandleWorks ==
  ASSUME NEW i \in Server, NEW s \in State, NEW p, NEW d, NEW M, Local(i, s, p, d, M),
         i = 0 => M = s.input.msgs, NEW X, NEW l \in Seq(X), NEW q \in Seq(X),
         NEW m \in Plain, m \in X
  PROVE  LET v == Handle(Bench(s, l, q), i, m)
         IN Result(i, s, v, p, d, M, X) /\ v.s.proofs = s.proofs
<1> DEFINE w == Bench(s, l, q) v == Handle(w, i, m)
<1>1. w.s = s /\ w.log = l /\ w = Left(s, l, q, <<>>, <<>>, <<>>)
  BY BenchFields
<1>2. M = Input(i, s, M)
  BY DEF Input
<1>3. Result(i, s, w, p, d, M, X) /\ w.s.proofs = s.proofs
  BY <1>2, Stays
<1>4. /\ m.type \in {"KEY_EXCH", "KEY_SIGNATURE", "SUBMIT", "SIGNATURE"}
      /\ m.type = "SUBMIT" => m.from \in Client
      /\ m.type # "SUBMIT" => m.from \in Server
  BY DEF Plain
<1>5. CASE m.type # Takes(s.st)
  <2> DEFINE n == Append(l, m)
  <2>1. n \in Seq(X)
    OBVIOUS
  <2> HIDE DEF n
  <2>2. [w EXCEPT !.log = n] = Bench(s, n, q)
    BY <1>1, MendLog DEF Bench
  <2>3. v = Bench(s, n, q)
    <3> HIDE DEF w
    <3> QED
      BY <1>1, <1>5, <2>2 DEF Handle, n
  <2> QED
    BY <1>2, <2>1, <2>3, Stays
<1>6. CASE m.type = Takes(s.st) /\ m.type = "KEY_EXCH"
  <2>1. s.st = "WAITING_FOR_KEYS"
    BY <1>6 DEF Takes, State, States, Early, Turning, Ended
  <2>2. v = HandleKey(w, i, m)
    <3> HIDE DEF w
    <3> QED
      BY <1>1, <1>6 DEF Handle
  <2> QED
    BY <1>4, <1>6, <2>1, <2>2, HandleKeyWorks
<1>7. CASE m.type = Takes(s.st) /\ m.type = "KEY_SIGNATURE"
  <2>1. s.st = "WAITING_FOR_KEY_SIGNATURES"
    BY <1>7 DEF Takes, State, States, Early, Turning, Ended
  <2>2. v = HandleKeySignature(w, i, m)
    <3> HIDE DEF w
    <3> QED
      BY <1>1, <1>7 DEF Handle
  <2> QED
    BY <1>4, <1>7, <2>1, <2>2, HandleKeySignatureWorks
<1>8. CASE m.type = Takes(s.st) /\ m.type = "SUBMIT"
  <2>1. s.st = "WAITING_FOR_MSGS"
    BY <1>8 DEF Takes, State, States, Early, Turning, Ended
  <2>2. v = w \/ v = HandleMessageSubmission(w, i, m)
    <3> HIDE DEF w
    <3> QED
      BY <1>1, <1>8 DEF Handle
  <2>3. /\ Result(i, s, HandleMessageSubmission(w, i, m), p, d, M, X)
        /\ HandleMessageSubmission(w, i, m).s.proofs = s.proofs
    BY <1>4, <1>8, <2>1, HandleMessageSubmissionWorks
  <2> QED
    BY <1>3, <2>2, <2>3
<1>9. CASE m.type = Takes(s.st) /\ m.type = "SIGNATURE"
  <2>1. s.st = "WAITING_FOR_SIGNATURES"
    BY <1>9 DEF Takes, State, States, Early, Turning, Ended
  <2>2. v = HandleSignature(w, i, m)
    <3> HIDE DEF w
    <3> QED
      BY <1>1, <1>9 DEF Handle
  <2> QED
    BY <1>4, <1>9, <2>1, <2>2, HandleSignatureWorks
<1> QED
  BY <1>4, <1>5, <1>6, <1>7, <1>8, <1>9

-----------------------------------------------------------------------------
(* Finished signals *)

LEMMA SignalWorks ==
  ASSUME NEW i \in Server, NEW s \in State, NEW p, NEW d, NEW M, Local(i, s, p, d, M),
         i = 0 => M = s.input.msgs, NEW X, NEW l \in Seq(X), NEW q \in Seq(X), d # <<>>
  PROVE  LET w == Bench(s, l, q)
             v == IF Head(d) = "verify" THEN VerifyShufflesDone(w, i) ELSE StateComplete(w, i)
         IN Tail(d) = <<>> /\ Result(i, s, v, p, <<>>, M, X) /\ v.s.proofs = s.proofs
<1> DEFINE w == Bench(s, l, q)
           v == IF Head(d) = "verify" THEN VerifyShufflesDone(w, i) ELSE StateComplete(w, i)
<1>1. w.s = s /\ w = Left(s, l, q, <<>>, <<>>, <<>>)
  BY BenchFields
<1>2. M = Input(i, s, M)
  BY DEF Input
<1>3. /\ p = <<>>
      /\ \/ d = <<"op">> /\ s.st \in {"KEY_GENERATION", "SHUFFLING"}
         \/ d = <<"verify">> /\ s.st \in Turning
  BY DEF Local, Works, KeyTask, TurnTask, Proving, State, States, Early, Turning, Ended
<1>4. Tail(d) = <<>>
  <2>1. Tail(<<"op">>) = <<>> /\ Tail(<<"verify">>) = <<>>
    OBVIOUS
  <2> QED
    BY <1>3, <2>1
<1>5. CASE d = <<"op">>
  <2>1. Head(d) = "op"
    BY <1>5
  <2>2. v = StateComplete(w, i)
    BY <2>1
  <2>3. Ready(i, s, d, M)
    BY <1>3, <1>5 DEF Ready, Turning
  <2>4. Local(i, s, <<>>, d, M)
    BY <1>3
  <2>5. Result(i, s, StateComplete(w, i), <<>>, <<>>, M, X) /\ StateComplete(w, i).s.proofs = s.proofs
    BY <1>2, <2>3, <2>4, Completes
  <2> QED
    BY <1>3, <1>4, <2>2, <2>5
<1>6. CASE d = <<"verify">>
  <2>0. i \in Int /\ i < N /\ N \in Int /\ s.end \in Int /\ s.newEnd = s.end
    BY CountAssumption DEF Server, Local, Place, State
  <2>1. s.st \in Turning /\ p = <<>>
    BY <1>3, <1>6
  <2>2. v = IF s.end \in {i, N} THEN StateComplete(w, i) ELSE w
    <3>1. Head(d) = "verify"
      BY <1>6
    <3> HIDE DEF w
    <3> QED
      BY <1>1, <2>0, <3>1 DEF VerifyShufflesDone
  <2>3. CASE s.end \in {i, N}
    <3>1. Ready(i, s, d, M)
      BY <1>6, <2>0, <2>1, <2>3 DEF Ready, Turning, Local, Place
    <3>2. Local(i, s, <<>>, d, M)
      BY <1>3
    <3>3. Result(i, s, StateComplete(w, i), <<>>, <<>>, M, X) /\ StateComplete(w, i).s.proofs = s.proofs
      BY <1>2, <3>1, <3>2, Completes
    <3> QED
      BY <1>3, <1>4, <2>2, <2>3, <3>3
  <2>4. CASE s.end \notin {i, N}
    <3>1. Local(i, s, <<>>, <<>>, M)
      <4>1. Works(i, s, <<>>, <<>>, M)
        <5>1. s.vidx = s.end
          BY <1>6, <2>1 DEF Local, Works, Proving
        <5> QED
          BY <2>1, <5>1 DEF Works, Proving, Turning, Early, Ended
      <4>2. Place(i, s, <<>>, <<>>)
        BY <1>6, <2>0, <2>1, <2>4 DEF Local, Place, Turning, Early, Ended
      <4> QED
        BY <4>1, <4>2 DEF Local
    <3>2. Result(i, s, w, <<>>, <<>>, M, X) /\ w.s.proofs = s.proofs
      BY <1>2, <3>1, Stays
    <3> QED
      BY <1>3, <1>4, <2>2, <2>4, <3>2
  <2> QED
    BY <2>3, <2>4
<1> QED
  BY <1>3, <1>5, <1>6

-----------------------------------------------------------------------------
(* The proofs that are here without a gap *)

LEMMA LeastNat ==
  ASSUME NEW S \in SUBSET Nat, S # {}
  PROVE  \E n \in S : \A m \in S : n <= m
<1> DEFINE R == OpToRel(<, Nat)
<1>1. R = {p \in Nat \X Nat : p[1] < p[2]}
  BY DEF OpToRel
<1>2. IsWellFoundedOn(R, Nat)
  BY NatLessThanWellFounded
<1> HIDE DEF R
<1>3. PICK n \in S : \A m \in S : ~(<<m, n>> \in R)
  BY <1>2, WFMin
<1>4. ASSUME NEW m \in S  PROVE n <= m
  <2>1. ~(m < n)
    <3>1. <<m, n>> \in Nat \X Nat /\ <<m, n>>[1] = m /\ <<m, n>>[2] = n
      OBVIOUS
    <3> QED
      BY <1>1, <1>3, <1>4, <3>1
  <2> QED
    BY <2>1
<1> QED
  BY <1>4

LEMMA EndOfGap ==
  ASSUME NEW e \in 0..N, NEW have
  PROVE  /\ EndOf(e, have) \in e..N
         /\ \A j \in e..(EndOf(e, have) - 1) : j \in have
         /\ EndOf(e, have) = N \/ EndOf(e, have) \notin have
<1> DEFINE S == {k \in e..N : k = N \/ k \notin have}
<1>0. N \in Nat /\ e \in Nat
  BY CountAssumption
<1>1. S \in SUBSET Nat /\ N \in S
  BY <1>0
<1>2. PICK n \in S : \A k \in S : n <= k
  <2> HIDE DEF S
  <2> QED
    BY <1>1, LeastNat
<1>3. \A j \in e..(n - 1) : j \in have
  BY <1>0, <1>2
<1>4. n \in e..N /\ (n = N \/ n \notin have)
  BY <1>2
<1> HIDE DEF S
<1> DEFINE P(k) == /\ \A j \in e..(k - 1) : j \in have
                   /\ k = N \/ k \notin have
<1>5. \E k \in e..N : P(k)
  BY <1>3, <1>4
<1>6. EndOf(e, have) = CHOOSE k \in e..N : P(k)
  BY DEF EndOf
<1> HIDE DEF P
<1>7. EndOf(e, have) \in e..N /\ P(EndOf(e, have))
  BY <1>5, <1>6
<1> QED
  BY <1>7 DEF P

-----------------------------------------------------------------------------
(* HandleShuffle keeps the invariant *)

LEMMA ToldFields ==
  ASSUME NEW M, NEW j, NEW m, m = Told(M, j)
  PROVE  /\ m # NoBatch /\ m.type = "SHUFFLE" /\ m.from = j
         /\ m.in = Text(M, j) /\ m.out = Text(M, j + 1)
<1>1. m.type = "SHUFFLE" /\ m.from = j /\ m.in = Text(M, j) /\ m.out = Text(M, j + 1)
  BY DEF Told, Shuffled
<1>2. "type" \in DOMAIN m /\ "type" \notin DOMAIN NoBatch
  BY DEF Told, Shuffled, NoBatch
<1> QED
  BY <1>1, <1>2

LEMMA ToldType ==
  ASSUME NEW M \in Groups, NEW j \in Server
  PROVE  Told(M, j) \in ShuffleMessage /\ Text(M, j) \in Batch
<1>1. j \in Int /\ j + 1 \in Int
  BY CountAssumption DEF Server
<1>2. Text(M, j) \in Batch /\ Text(M, j + 1) \in Batch
  BY <1>1 DEF Text, Batch
<1> QED
  BY <1>2 DEF Told, Shuffled, ShuffleMessage

\* What the server knows once the shuffle of server j is here.
Received(s, j, m) ==
  [s EXCEPT !.proofs = [s.proofs EXCEPT ![j] = m],
            !.input = IF j = 0 THEN m.in ELSE s.input, !.vin = IF j = 0 THEN m.in ELSE s.vin]

Here(t) == {k \in Server : t.proofs[k] # NoBatch}
Advanced(t, e) == [t EXCEPT !.newEnd = e, !.end = e]

LEMMA ReceivedFields ==
  ASSUME NEW s \in State, NEW M \in Groups, NEW j \in Server, NEW m, m = Told(M, j),
         NEW t, t = Received(s, j, m)
  PROVE  /\ t \in State /\ t.st = s.st /\ t.proofs = [s.proofs EXCEPT ![j] = m]
         /\ t.input = IF j = 0 THEN Text(M, 0) ELSE s.input
         /\ t.vin = IF j = 0 THEN Text(M, 0) ELSE s.vin
         /\ t.owned = s.owned /\ t.own = s.own /\ t.vidx = s.vidx /\ t.end = s.end
         /\ t.newEnd = s.newEnd /\ t.clear = s.clear /\ t.sigs = s.sigs
<1> DEFINE a == [s.proofs EXCEPT ![j] = m]
           b == IF j = 0 THEN m.in ELSE s.input
           c == IF j = 0 THEN m.in ELSE s.vin
<1>1. m \in ShuffleMessage /\ m.in = Text(M, j) /\ Text(M, j) \in Batch
  BY ToldType, ToldFields
<1>2. a \in [Server -> ShuffleMessage \cup {NoBatch}]
  BY <1>1 DEF State
<1>3. b = (IF j = 0 THEN Text(M, 0) ELSE s.input) /\ c = (IF j = 0 THEN Text(M, 0) ELSE s.vin)
  BY <1>1
<1>4. b \in Batch /\ c \in Batch
  BY <1>1 DEF State
<1>5. t = [s EXCEPT !.proofs = a, !.input = b, !.vin = c]
  BY DEF Received
<1> HIDE DEF a, b, c
<1>6. /\ t \in State /\ t.st = s.st /\ t.proofs = a /\ t.input = b /\ t.vin = c
      /\ t.owned = s.owned /\ t.own = s.own /\ t.vidx = s.vidx /\ t.end = s.end
      /\ t.newEnd = s.newEnd /\ t.clear = s.clear /\ t.sigs = s.sigs
  BY <1>2, <1>4, <1>5 DEF State
<1> QED
  BY <1>3, <1>6 DEF a

\* HandleShuffle on a bench: it waits for earlier proofs, or starts to verify.
LEMMA HandleShuffleLeaves ==
  ASSUME NEW s \in State, NEW l, NEW q, NEW i \in Server, NEW M \in Groups,
         NEW j \in Server, NEW m, m = Told(M, j), NEW t, t = Received(s, j, m),
         NEW e \in Int, e = EndOf(s.newEnd, Here(t)), s.newEnd = s.end,
         NEW u, u = Advanced(t, e),
         NEW v, v = HandleShuffle(Bench(s, l, q), i, m)
  PROVE  /\ j # s.newEnd => v = Bench(t, l, q)
         /\ j = s.newEnd => v = Left(u, l, q, <<>>, <<>>, <<VerifyTask(i)>>)
<1> DEFINE w == Bench(s, l, q)
           a == [w EXCEPT !.s.proofs[m.from] = m,
                          !.s.input = IF m.from = 0 THEN m.in ELSE @,
                          !.s.vin = IF m.from = 0 THEN m.in ELSE @]
           b == [w EXCEPT !.s = t]
           more == e - s.newEnd
           c == [b EXCEPT !.s.newEnd = @ + more, !.s.end = @ + more, !.tasks = <<VerifyTask(i)>>]
<1>1. w.s = s /\ w = Left(s, l, q, <<>>, <<>>, <<>>)
  BY BenchFields
<1>2. m.from = j
  BY ToldFields
<1>3. a = b
  <2> HIDE DEF w
  <2> QED
    BY <1>1, <1>2 DEF Received
<1>4. b = Bench(t, l, q) /\ b.s = t
  <2> HIDE DEF w
  <2>1. b = Left(t, l, q, <<>>, <<>>, <<>>)
    BY <1>1, MendState
  <2> HIDE DEF b
  <2> QED
    BY <2>1 DEF Bench, Left
<1>5. t.newEnd = s.newEnd /\ t.end = s.end
  BY DEF Received, State
<1>u. t.newEnd + more = e /\ t.end + more = e
  BY <1>5 DEF State
<1>6. c = Left(u, l, q, <<>>, <<>>, <<VerifyTask(i)>>)
  <2> DEFINE k == <<VerifyTask(i)>>
  <2> HIDE DEF b, k, more
  <2>1. c = [b EXCEPT !.s = u, !.tasks = k]
    BY <1>4, <1>u DEF k, Advanced
  <2> HIDE DEF c
  <2>2. b = Left(t, l, q, <<>>, <<>>, <<>>)
    BY <1>4 DEF Bench
  <2>3. c = Left(u, l, q, <<>>, <<>>, k)
    BY <2>1, <2>2 DEF Left
  <2> QED
    BY <2>3 DEF k
<1>7. v = IF m.from # a.s.newEnd THEN a
          ELSE [a EXCEPT !.s.newEnd = @ + (EndOf(a.s.newEnd, {k \in Server : a.s.proofs[k] # NoBatch}) - a.s.newEnd),
                         !.s.end = @ + (EndOf(a.s.newEnd, {k \in Server : a.s.proofs[k] # NoBatch}) - a.s.newEnd),
                         !.tasks = <<VerifyTask(i)>>]
  <2> HIDE DEF w
  <2> QED
    BY DEF HandleShuffle, w
<1> HIDE DEF a, b, w
<1>8. v = IF j # s.newEnd THEN b ELSE c
  BY <1>2, <1>3, <1>4, <1>5, <1>7 DEF Here
<1> HIDE DEF c
<1> QED
  BY <1>4, <1>6, <1>8

LEMMA HandleShuffleWorks ==
  ASSUME NEW i \in Server, NEW s \in State, NEW M \in Groups, NEW p, NEW d,
         Local(i, s, p, d, M), i = 0 => M = s.input.msgs,
         NEW X, NEW l \in Seq(X), NEW q \in Seq(X),
         NEW j \in Server, NEW m, m = Told(M, j), s.st \in Turning, s.proofs[j] = NoBatch,
         s.st = "WAITING_FOR_SHUFFLES_BEFORE_TURN" => s.proofs[i] = NoBatch /\ j # i,
         HandleShuffle(Bench(s, l, q), i, m).tasks = <<>> \/ (p = <<>> /\ d = <<>>)
  PROVE  LET v == HandleShuffle(Bench(s, l, q), i, m)
         IN Result(i, s, v, p, d, M, X) /\ v.s.proofs = [s.proofs EXCEPT ![j] = m]
<1> DEFINE t == Received(s, j, m)
           have == Here(t)
           e == EndOf(s.newEnd, have)
           u == Advanced(t, e)
           v == HandleShuffle(Bench(s, l, q), i, m)
<1>0. /\ i \in Int /\ i >= 0 /\ i < N /\ j \in Int /\ j >= 0 /\ j < N /\ N \in Int /\ N > 0
      /\ s.newEnd = s.end /\ s.end \in 0..N /\ s.vidx \in 0..N
      /\ \A k \in Server : k < s.end => s.proofs[k] # NoBatch
  <2>1. i \in Int /\ i >= 0 /\ i < N /\ j \in Int /\ j >= 0 /\ j < N /\ N \in Int /\ N > 0
    BY CountAssumption DEF Server
  <2>2. s.end \in 0..N /\ s.vidx \in 0..N
    BY DEF State
  <2>3. s.newEnd = s.end /\ \A k \in Server : k < s.end => s.proofs[k] # NoBatch
    BY DEF Local, Place
  <2> QED
    BY <2>1, <2>2, <2>3
<1>1. /\ t \in State /\ t.st = s.st /\ t.proofs = [s.proofs EXCEPT ![j] = m]
      /\ t.input = (IF j = 0 THEN Text(M, 0) ELSE s.input)
      /\ t.vin = (IF j = 0 THEN Text(M, 0) ELSE s.vin)
      /\ t.owned = s.owned /\ t.own = s.own /\ t.vidx = s.vidx /\ t.end = s.end
      /\ t.newEnd = s.newEnd /\ t.clear = s.clear /\ t.sigs = s.sigs
  <2>1. t = Received(s, j, m)
    OBVIOUS
  <2> HIDE DEF t
  <2> QED
    BY <2>1, ReceivedFields
<1>e. /\ e \in s.newEnd..N
      /\ \A x \in s.newEnd..(e - 1) : x \in have
      /\ e = N \/ e \notin have
  BY <1>0, EndOfGap
<1>2. /\ j # s.newEnd => v = Bench(t, l, q)
      /\ j = s.newEnd => v = Left(u, l, q, <<>>, <<>>, <<VerifyTask(i)>>)
  <2>1. t = Received(s, j, m) /\ have = Here(t)
    OBVIOUS
  <2>2. /\ e = EndOf(s.newEnd, have) /\ v = HandleShuffle(Bench(s, l, q), i, m)
        /\ u = Advanced(t, e)
    OBVIOUS
  <2>3. e \in Int /\ s.newEnd = s.end
    BY <1>0, <1>e
  <2> HIDE DEF t, have, e, v, u
  <2> QED
    BY <2>1, <2>2, <2>3, HandleShuffleLeaves
<1>3. \A k \in Server : t.proofs[k] # NoBatch <=> (k = j \/ s.proofs[k] # NoBatch)
  <2>1. m # NoBatch
    BY ToldFields
  <2>2. s.proofs \in [Server -> ShuffleMessage \cup {NoBatch}]
    BY DEF State
  <2> QED
    BY <1>1, <2>1, <2>2
<1>4. s.end <= j
  BY <1>0
<1>5. t.input.msgs = s.input.msgs \/ i # 0 \/ t.input.msgs = M
  BY <1>1 DEF Text
<1>6. Input(i, t, M) = M
  BY <1>1 DEF Input, Text
<1> HIDE DEF t, have, v, u
<1>7. CASE j # s.newEnd
  <2>1. v = Bench(t, l, q) /\ j # 0 /\ t.input = s.input /\ t.vin = s.vin
    BY <1>0, <1>1, <1>2, <1>4, <1>7
  <2>2. Works(i, t, p, d, M)
    <3>1. Proving(s, p, d, M)
      BY DEF Local, Works
    <3>2. Proving(t, p, d, M)
      BY <1>1, <3>1 DEF Proving, Loops
    <3> QED
      BY <1>1, <3>2 DEF Works, Turning, Early, Ended
  <2>3. Place(i, t, p, d)
    BY <1>0, <1>1, <1>3 DEF Local, Place, Turning, Early, Ended
  <2>4. Holds(i, t, M)
    BY <1>1, <2>1 DEF Local, Holds
  <2>5. Local(i, t, p, d, M)
    BY <1>1, <2>2, <2>3, <2>4 DEF Local
  <2>6. Result(i, s, Bench(t, l, q), p, d, M, X) /\ Bench(t, l, q).s.proofs = t.proofs
    BY <1>1, <1>6, <2>5, Stays
  <2> QED
    BY <1>1, <2>1, <2>6 DEF v
<1>8. CASE j = s.newEnd
  <2> DEFINE k == <<VerifyTask(i)>>
  <2>1. p = <<>> /\ d = <<>> /\ s.vidx = s.end
    <3>1. v.tasks = k /\ k # <<>>
      BY <1>2, <1>8 DEF Left
    <3>2. p = <<>> /\ d = <<>>
      BY <3>1 DEF v
    <3> QED
      BY <3>2 DEF Local, Works, Proving
  <2>2. j \in have
    BY <1>3 DEF have, Here
  <2>3. e \in Int /\ e > j /\ e <= N 
    BY <1>0, <1>8, <1>e, <2>2
  <2> HIDE DEF e
  <2>4. /\ u \in State /\ u.st = s.st /\ u.proofs = t.proofs /\ u.input = t.input /\ u.vin = t.vin
        /\ u.owned = t.owned /\ u.own = t.own /\ u.vidx = s.vidx /\ u.end = e
        /\ u.newEnd = e /\ u.clear = t.clear /\ u.sigs = t.sigs
    <3>1. u = [t EXCEPT !.newEnd = e, !.end = e] /\ e \in 0..N
      BY <1>0, <2>3 DEF u, Advanced
    <3>2. /\ u \in State /\ u.st = t.st /\ u.proofs = t.proofs /\ u.input = t.input
          /\ u.vin = t.vin /\ u.owned = t.owned /\ u.own = t.own /\ u.vidx = t.vidx /\ u.end = e
          /\ u.newEnd = e /\ u.clear = t.clear /\ u.sigs = t.sigs
      BY <1>1, <3>1 DEF State
    <3> QED
      BY <1>1, <3>2
  <2>5. Works(i, u, k, <<>>, M)
    <3>1. VerifyTask(i) \in VerifyTasks /\ VerifyTask(i).step = "queued"
      <4>1. NoBatch \in Batch
        BY DEF NoBatch, Batch, Groups
      <4> QED
        BY <4>1 DEF VerifyTask, VerifyTasks
    <3>2. k # <<>> /\ k = <<k[1]>> /\ k[1] = VerifyTask(i)
      OBVIOUS
    <3>3. Loops(u, VerifyTask(i), M)
      BY <3>1 DEF Loops
    <3>4. u.vidx < u.end
      BY <1>0, <1>8, <2>1, <2>3, <2>4
    <3> HIDE DEF k
    <3>5. Proving(u, k, <<>>, M)
      BY <3>1, <3>2, <3>3, <3>4 DEF Proving
    <3> QED
      BY <2>4, <3>5 DEF Works, Turning, Early, Ended
  <2>6. Place(i, u, k, <<>>)
    <3>1. \A x \in Server : x < e => u.proofs[x] # NoBatch
      <4> SUFFICES ASSUME NEW x \in Server, x < e  PROVE u.proofs[x] # NoBatch
        OBVIOUS
      <4>1. x \in Int /\ x >= 0
        BY DEF Server
      <4>2. CASE x < s.end
        BY <1>0, <1>3, <2>4, <4>2
      <4>3. CASE x >= s.end
        <5>1. x \in s.newEnd..(e - 1)
          BY <1>0, <2>3, <4>1, <4>3
        <5>2. x \in have
          BY <1>e, <5>1
        <5> QED
          BY <2>4, <5>2 DEF have, Here
      <4> QED
        BY <1>0, <4>1, <4>2, <4>3
    <3>2. s.st = "WAITING_FOR_SHUFFLES_BEFORE_TURN" => i # 0 /\ e <= i
      <4> SUFFICES ASSUME s.st = "WAITING_FOR_SHUFFLES_BEFORE_TURN", i = 0 \/ e > i  PROVE FALSE
        BY <1>0, <2>3
      <4>1. i # 0 /\ s.end <= i
        BY DEF Local, Place
      <4>2. t.proofs[i] = NoBatch
        BY <1>3
      <4>3. i \in s.newEnd..(e - 1)
        BY <1>0, <2>3, <4>1
      <4>4. i \in have
        BY <1>e, <4>3
      <4> QED
        BY <4>2, <4>4 DEF have, Here
    <3>3. s.st = "WAITING_FOR_SHUFFLES_AFTER_TURN" => s.end >= i
      BY DEF Local, Place
    <3>4. k # <<>>
      OBVIOUS
    <3> HIDE DEF k
    <3> QED
      BY <1>0, <1>8, <2>3, <2>4, <3>1, <3>2, <3>3, <3>4 DEF Place, Turning, Early, Ended
  <2>7. Holds(i, u, M)
    <3>1. i = 0 => u.input = Text(M, 0)
      BY <1>1, <2>4 DEF Local, Holds
    <3>2. u.vin = Text(M, u.vidx)
      <4>1. CASE j = 0
        BY <1>0, <1>1, <1>8, <2>1, <2>4, <4>1
      <4>2. CASE j # 0
        <5>1. s.end > 0
          BY <1>0, <1>8, <4>2
        <5> QED
          BY <1>1, <2>1, <2>4, <4>2, <5>1 DEF Local, Holds
      <4> QED
        BY <4>1, <4>2
    <3>3. u.vidx # N
      BY <1>0, <1>8, <2>1, <2>4
    <3>4. u.st # "PUSH_OUTPUT"
      BY <2>4 DEF Turning
    <3> QED
      BY <3>1, <3>2, <3>3, <3>4 DEF Holds
  <2>8. Local(i, u, k, <<>>, M)
    BY <2>4, <2>5, <2>6, <2>7 DEF Local
  <2>9. Input(i, u, M) = M
    BY <1>6, <2>4 DEF Input
  <2>10. v = Left(u, l, q, <<>>, <<>>, k)
    BY <1>2, <1>8
  <2> HIDE DEF k
  <2>11. /\ v.s = u /\ v.log = l /\ v.todo = q /\ v.out = <<>> /\ v.push = <<>> /\ v.tasks = k
    BY <2>10 DEF Left
  <2>12. <<>> \o v.tasks = k
    BY <2>11 DEF k
  <2>13. Fits(i, s, v.s, <<>> \o v.tasks, <<>>, M)
    BY <2>4, <2>8, <2>9, <2>11, <2>12 DEF Fits
  <2>14. v.out \in Seq(Outs(i, v.s, Input(i, v.s, M))) /\ v.push \in Seq(Sheets(v.s, Input(i, v.s, M)))
    BY <2>11
  <2>15. Result(i, s, v, <<>>, <<>>, M, X)
    BY <2>11, <2>13, <2>14 DEF Result
  <2> QED
    BY <1>1, <2>1, <2>4, <2>11, <2>15 DEF v
<1> QED
  BY <1>7, <1>8

-----------------------------------------------------------------------------
(* Tasks on the pool keep the invariant *)

LEMMA TaskKinds ==
  ASSUME NEW i, NEW s \in State, NEW p, NEW d, NEW M, Local(i, s, p, d, M), NEW k \in DOMAIN p
  PROVE  /\ k = 1 /\ p = <<p[1]>> /\ d = <<>>
         /\ \/ s.st = "KEY_GENERATION" /\ p[1] = [kind |-> "keygen"]
            \/ s.st = "SHUFFLING" /\ p[1] = [kind |-> "shuffle"]
            \/ /\ s.st \in Turning /\ s.vidx < s.end
               /\ p[1] \in VerifyTasks /\ Loops(s, p[1], M)
         /\ p[1].kind = "keygen" => s.st = "KEY_GENERATION"
         /\ p[1].kind = "shuffle" => s.st = "SHUFFLING"
         /\ p[1].kind = "verify" => s.st \in Turning
<1>1. p # <<>>
  OBVIOUS
<1>2. /\ p = <<p[1]>> /\ d = <<>>
      /\ \/ s.st = "KEY_GENERATION" /\ p[1] = [kind |-> "keygen"]
         \/ s.st = "SHUFFLING" /\ p[1] = [kind |-> "shuffle"]
         \/ /\ s.st \in Turning /\ s.vidx < s.end
            /\ p[1] \in VerifyTasks /\ Loops(s, p[1], M)
  BY <1>1 DEF Local, Works, KeyTask, TurnTask, Proving, State, States, Early, Turning, Ended
<1>3. k = 1
  <2> DEFINE a == p[1]
  <2>1. DOMAIN <<a>> = {1}
    OBVIOUS
  <2> QED
    BY <1>2, <2>1
<1>4. /\ p[1].kind = "keygen" => s.st = "KEY_GENERATION"
      /\ p[1].kind = "shuffle" => s.st = "SHUFFLING"
      /\ p[1].kind = "verify" => s.st \in Turning
  BY <1>2 DEF VerifyTasks, Turning
<1> QED
  BY <1>2, <1>3, <1>4

LEMMA RemoveOne ==
  ASSUME NEW p, p = <<p[1]>>, NEW x
  PROVE  RemoveAt(p, 1) = <<>> /\ Append(<<>>, x) = <<x>> /\ [p EXCEPT ![1] = x] = <<x>>
<1> DEFINE a == p[1]
<1>1. RemoveAt(<<a>>, 1) = <<>>
  BY DEF RemoveAt
<1>2. [<<a>> EXCEPT ![1] = x] = <<x>>
  OBVIOUS
<1> QED
  BY <1>1, <1>2

LEMMA KeyGenerationWorks ==
  ASSUME NEW i, NEW s \in State, NEW p, NEW d, NEW M, Local(i, s, p, d, M), NEW k \in DOMAIN p,
         p[k].kind = "keygen"
  PROVE  Local(i, s, RemoveAt(p, k), Append(d, "op"), M)
<1>1. k = 1 /\ p = <<p[1]>> /\ d = <<>> /\ s.st = "KEY_GENERATION"
  BY TaskKinds
<1>2. RemoveAt(p, k) = <<>> /\ Append(d, "op") = <<"op">>
  BY <1>1, RemoveOne
<1>3. Works(i, s, <<>>, <<"op">>, M)
  BY <1>1 DEF Works, KeyTask, Early, Turning, Ended
<1>4. Place(i, s, <<>>, <<"op">>)
  BY <1>1 DEF Local, Place, Early, Turning, Ended
<1> QED
  BY <1>2, <1>3, <1>4 DEF Local

\* What the tasks leave: the server after its shuffle and after a verification x,
\* and a verification x after a turn of its loop.
Peeled(s) == [s EXCEPT !.owned = s.vin,
                       !.own = [msgs |-> s.vin.msgs, layers |-> s.vin.layers + 1]]
Verified(s, x) == [s EXCEPT !.vkeys = x.keys, !.vin = x.in, !.vidx = s.end,
                            !.clear = IF s.end = N THEN x.in ELSE s.clear]
Looped(s, x) == [x EXCEPT !.idx = @ + 1, !.keys = @ - 1, !.in = s.proofs[x.idx].out]

LEMMA ShuffleTaskWorks ==
  ASSUME NEW i \in Server, NEW s \in State, NEW p, NEW d, NEW M, Local(i, s, p, d, M),
         NEW k \in DOMAIN p, p[k].kind = "shuffle",
         NEW t, t = Peeled(s)
  PROVE  /\ Local(i, t, RemoveAt(p, k), Append(d, "op"), M)
         /\ t.st = s.st /\ t.input = s.input /\ t.proofs = s.proofs
<1>1. k = 1 /\ p = <<p[1]>> /\ d = <<>> /\ s.st = "SHUFFLING"
  BY TaskKinds
<1>2. RemoveAt(p, k) = <<>> /\ Append(d, "op") = <<"op">>
  BY <1>1, RemoveOne
<1>3. s.vidx = i /\ s.end = i /\ i \in Int /\ i >= 0
  BY <1>1, CountAssumption DEF Local, Place, Server
<1>4. s.vin = Text(M, i)
  BY <1>1, <1>3 DEF Local, Holds, Early
<1> DEFINE b == [msgs |-> s.vin.msgs, layers |-> s.vin.layers + 1]
<1>5. b = Text(M, i + 1) /\ b \in Batch
  <2>1. s.vin \in Batch
    BY DEF State
  <2> QED
    BY <1>3, <1>4, <2>1 DEF Text, Batch
<1> HIDE DEF b
<1>6. t = [s EXCEPT !.owned = s.vin, !.own = b]
  BY DEF b, Peeled
<1>7. /\ t \in State /\ t.st = s.st /\ t.input = s.input /\ t.proofs = s.proofs
      /\ t.owned = s.vin /\ t.own = b /\ t.vin = s.vin /\ t.vidx = s.vidx
      /\ t.end = s.end /\ t.newEnd = s.newEnd /\ t.clear = s.clear /\ t.sigs = s.sigs
  BY <1>5, <1>6 DEF State
<1>8. Works(i, t, <<>>, <<"op">>, M)
  BY <1>1, <1>4, <1>5, <1>7 DEF Works, TurnTask, Early, Turning, Ended
<1>9. Place(i, t, <<>>, <<"op">>)
  BY <1>1, <1>7 DEF Local, Place, Early, Turning, Ended
<1>10. Holds(i, t, M)
  BY <1>7 DEF Local, Holds
<1> QED
  BY <1>2, <1>7, <1>8, <1>9, <1>10 DEF Local

\* A verification that goes on leaves its server where it is.
LEMMA StillBusy ==
  ASSUME NEW i, NEW s, NEW p, NEW d, NEW M, Local(i, s, p, d, M), p = <<p[1]>>,
         s.st \in Turning, NEW x, x # <<>>
  PROVE  Place(i, s, x, d)
<1> DEFINE a == p[1]
<1>1. <<a>> # <<>>
  OBVIOUS
<1>2. p # <<>>
  BY <1>1
<1> QED
  BY <1>2 DEF Local, Place, Early, Turning, Ended

LEMMA VerifyBeginWorks ==
  ASSUME NEW i \in Server, NEW s \in State, NEW p, NEW d, NEW M, Local(i, s, p, d, M),
         NEW k \in DOMAIN p, p[k].kind = "verify",
         NEW x, x = [kind |-> "verify", step |-> "loop", idx |-> s.vidx, in |-> s.vin,
                     keys |-> s.vkeys]
  PROVE  Local(i, s, [p EXCEPT ![k] = x], d, M)
<1>1. k = 1 /\ p = <<p[1]>> /\ d = <<>> /\ s.st \in Turning /\ s.vidx < s.end
  BY TaskKinds DEF Turning
<1>2. [p EXCEPT ![k] = x] = <<x>>
  BY <1>1, RemoveOne
<1>3. N \in Int /\ s.vidx \in Int /\ s.vidx >= 0 /\ s.end \in Int
  BY CountAssumption DEF State
<1>4. s.vin = Text(M, s.vidx)
  BY <1>1, <1>3 DEF Local, Holds
<1>5. x \in VerifyTasks
  BY <1>3 DEF VerifyTasks, State
<1>6. Loops(s, x, M)
  BY <1>1, <1>3, <1>4 DEF Loops
<1>7. <<x>> # <<>> /\ <<x>>[1] = x
  OBVIOUS
<1>8. Works(i, s, <<x>>, <<>>, M)
  <2>1. Proving(s, <<x>>, <<>>, M)
    BY <1>1, <1>5, <1>6, <1>7 DEF Proving
  <2> QED
    BY <1>1, <2>1 DEF Works, Early, Turning, Ended
<1>9. Place(i, s, <<x>>, <<>>)
  BY <1>1, <1>7, StillBusy
<1> QED
  BY <1>1, <1>2, <1>8, <1>9 DEF Local

Turned(a, n, k, y) == [a EXCEPT !.idx = n, !.keys = k, !.in = y]

LEMMA VerifyLoopWorks ==
  ASSUME NEW i \in Server, NEW s \in State, NEW p, NEW d, NEW M, Local(i, s, p, d, M),
         NEW k \in DOMAIN p, p[k].kind = "verify", p[k].step = "loop", p[k].idx < s.end,
         \A j \in Server : s.proofs[j] # NoBatch => s.proofs[j] = Told(M, j), M \in Groups,
         NEW x, x = Looped(s, p[k])
  PROVE  Local(i, s, [p EXCEPT ![k] = x], d, M)
<1> DEFINE a == p[1] j == a.idx
<1>1. k = 1 /\ p = <<a>> /\ d = <<>> /\ s.st \in Turning /\ s.vidx < s.end
      /\ a \in VerifyTasks /\ Loops(s, a, M)
  BY TaskKinds DEF Turning
<1>2. [p EXCEPT ![k] = x] = <<x>>
  BY <1>1, RemoveOne
<1>3. N \in Int /\ s.vidx \in Int /\ s.vidx >= 0 /\ s.end \in Int /\ s.end <= N
  BY CountAssumption DEF State
<1>4. j \in Int /\ j >= s.vidx /\ j < s.end /\ a.step = "loop"
  BY <1>1, <1>3 DEF Loops
<1>5. j \in Server
  BY <1>3, <1>4 DEF Server
<1>6. s.proofs[j].out = Text(M, j + 1) /\ Text(M, j + 1) \in Batch
  <2>1. s.proofs[j] = Told(M, j)
    BY <1>4, <1>5 DEF Local, Place
  <2>2. s.proofs[j].out = Text(M, j + 1)
    BY <2>1, ToldFields
  <2>3. Text(M, j + 1) \in Batch
    BY <1>4 DEF Text, Batch
  <2> QED
    BY <2>2, <2>3
<1> DEFINE y == s.proofs[j].out
<1>7. x = [a EXCEPT !.idx = j + 1, !.keys = a.keys - 1, !.in = y]
  <2>1. p[k] = a
    BY <1>1
  <2> HIDE DEF a
  <2> QED
    BY <2>1 DEF Looped
<1>b. y = Text(M, j + 1) /\ y \in Batch
  BY <1>6
<1> HIDE DEF a, j, y
<1>8. x \in VerifyTasks /\ x.idx = j + 1 /\ x.in = y /\ x.step = "loop"
  <2> DEFINE n == j + 1 r == a.keys - 1
  <2>1. n \in Int /\ r \in Int
    BY <1>1, <1>4 DEF VerifyTasks
  <2>2. x = Turned(a, n, r, y)
    BY <1>7 DEF Turned
  <2> HIDE DEF n, r
  <2>3. x \in VerifyTasks /\ x.idx = n /\ x.in = y /\ x.step = a.step
    BY ONLY <1>1, <1>b, <2>1, <2>2 DEF VerifyTasks, Turned
  <2> QED
    BY <1>4, <2>3 DEF n
<1>9. Loops(s, x, M)
  BY <1>3, <1>4, <1>8, <1>b DEF Loops
<1>10. <<x>> # <<>> /\ <<x>>[1] = x
  OBVIOUS
<1>11. Works(i, s, <<x>>, <<>>, M)
  <2>1. Proving(s, <<x>>, <<>>, M)
    BY <1>1, <1>8, <1>9, <1>10 DEF Proving
  <2> QED
    BY <1>1, <2>1 DEF Works, Early, Turning, Ended
<1>12. Place(i, s, <<x>>, <<>>)
  BY <1>1, <1>10, StillBusy
<1> QED
  BY <1>1, <1>2, <1>11, <1>12 DEF Local

LEMMA VerifyEndWorks ==
  ASSUME NEW i \in Server, NEW s \in State, NEW p, NEW d, NEW M, Local(i, s, p, d, M),
         NEW k \in DOMAIN p, p[k].kind = "verify", p[k].step = "loop", p[k].idx >= s.end,
         NEW t, t = Verified(s, p[k])
  PROVE  /\ Local(i, t, RemoveAt(p, k), Append(d, "verify"), M)
         /\ t.st = s.st /\ t.input = s.input /\ t.proofs = s.proofs
<1> DEFINE a == p[1] b == a.in
<1>1. k = 1 /\ p = <<a>> /\ d = <<>> /\ s.st \in Turning /\ s.vidx < s.end
      /\ a \in VerifyTasks /\ Loops(s, a, M)
  BY TaskKinds DEF Turning
<1>2. RemoveAt(p, k) = <<>> /\ Append(d, "verify") = <<"verify">>
  BY <1>1, RemoveOne
<1>3. N \in Int /\ s.vidx \in Int /\ s.vidx >= 0 /\ s.end \in 0..N
  BY CountAssumption DEF State
<1>4. b = Text(M, s.end)
  <2>1. a.idx = s.end
    BY <1>1, <1>3 DEF Loops
  <2> QED
    BY <1>1, <2>1 DEF Loops
<1>5. b \in Batch /\ a.keys \in Int
  BY <1>1 DEF VerifyTasks
<1> DEFINE c == IF s.end = N THEN b ELSE s.clear
<1>6. t = [s EXCEPT !.vkeys = a.keys, !.vin = b, !.vidx = s.end, !.clear = c]
  BY <1>1 DEF Verified
<1>7. c \in Batch
  BY <1>5 DEF State
<1>8. s.end = N => c = b
  OBVIOUS
<1> HIDE DEF a, b, c
<1>9. /\ t \in State /\ t.st = s.st /\ t.input = s.input /\ t.proofs = s.proofs
      /\ t.owned = s.owned /\ t.own = s.own /\ t.vin = b /\ t.vidx = s.end
      /\ t.end = s.end /\ t.newEnd = s.newEnd /\ t.clear = c /\ t.sigs = s.sigs
  BY <1>3, <1>5, <1>6, <1>7 DEF State
<1>10. Works(i, t, <<>>, <<"verify">>, M)
  <2>1. Proving(t, <<>>, <<"verify">>, M)
    BY <1>9 DEF Proving
  <2> QED
    BY <1>1, <1>9, <2>1 DEF Works, Early, Turning, Ended
<1>11. Place(i, t, <<>>, <<"verify">>)
  <2>1. p # <<>>
    BY <1>1
  <2> QED
    BY <1>1, <1>9, <2>1 DEF Local, Place, Early, Turning, Ended
<1>12. Holds(i, t, M)
  BY <1>1, <1>4, <1>8, <1>9 DEF Local, Holds, Turning
<1> QED
  BY <1>2, <1>9, <1>10, <1>11, <1>12 DEF Local

-----------------------------------------------------------------------------
(* From a server to the system *)

LEMMA SeqMono ==
  ASSUME NEW S, NEW T, S \subseteq T, NEW l \in Seq(S)
  PROVE  l \in Seq(T)
OBVIOUS

LEMMA ServerFacts ==
  0 \in Server /\ N \in Int /\ N > 0 /\ \A j \in Server : j \in Int /\ j >= 0 /\ j < N
BY CountAssumption DEF Server

LEMMA FirstInput ==
  ASSUME Locals
  PROVE  M0 \in Groups /\ \A i \in Server : srv[i] \in State
<1>1. \A i \in Server : srv[i] \in State
  BY DEF Locals, Local
<1>2. srv[0].input \in Batch
  BY <1>1, ServerFacts DEF State
<1> QED
  BY <1>1, <1>2 DEF M0, Batch

\* Nobody is past the first shuffle before the first server is.
LEMMA SentFirst ==
  ASSUME Locals, Proved, NEW j \in Server, Sent(j) \/ srv[j].end > 0
  PROVE  Sent(0)
<1>1. CASE j = 0 /\ Sent(j)
  BY <1>1
<1>2. CASE srv[j].end > 0
  <2>1. srv[j].proofs[0] # NoBatch
    BY <1>2, ServerFacts DEF Locals, Local, Place
  <2> QED
    BY <2>1, ServerFacts DEF Proved
<1>3. CASE j # 0 /\ Sent(j)
  <2>1. srv[j] \in State /\ Place(j, srv[j], pool[j], done[j])
    BY DEF Locals, Local
  <2>2. srv[j].end > 0
    BY <1>3, <2>1, ServerFacts DEF Place, Sent, After, State
  <2> QED
    BY <1>2, <2>2
<1> QED
  BY <1>1, <1>2, <1>3

LEMMA SentFirstAll ==
  Locals /\ Proved => \A j \in Server : Sent(j) => Sent(0)
BY SentFirst

LEMMA SentFirstNext ==
  Locals' /\ Proved' => \A j \in Server : Sent(j)' => Sent(0)'
<1>1. (Locals /\ Proved => \A j \in Server : Sent(j) => Sent(0))'
  BY SentFirstAll, PTL
<1> QED
  BY <1>1 DEF Server

LEMMA LocalOther ==
  ASSUME NEW k \in Server, k # 0, NEW s \in State, NEW p, NEW d, NEW M, NEW K,
         Local(k, s, p, d, M), ~(s.end > 0)
  PROVE  Local(k, s, p, d, K)
<1>1. s.end = 0 /\ s.vidx \in 0..N /\ k > 0 /\ N > 0
  BY ServerFacts DEF State
<1>2. s.st # "SHUFFLING" /\ ~(s.vidx < s.end) /\ s.vidx # N
  <2>1. s.st # "SHUFFLING"
    BY <1>1 DEF Local, Place
  <2>2. ~(s.vidx < s.end)
    BY <1>1
  <2>3. s.vidx # N
    BY <1>1 DEF Local, Works, Place, Proving, State, States, Early, Turning, Ended
  <2> QED
    BY <2>1, <2>2, <2>3
<1>3. Works(k, s, p, d, K)
  BY <1>2 DEF Local, Works, Proving
<1>4. Holds(k, s, K)
  BY <1>1, <1>2 DEF Local, Holds
<1> QED
  BY <1>3, <1>4 DEF Local

\* One server steps from srv[i] to t: what holds of all servers goes on.
LEMMA Moves ==
  ASSUME IInv, NEW i \in Server, NEW t, NEW p, NEW d,
         srv' = [srv EXCEPT ![i] = t], pool' = [pool EXCEPT ![i] = p],
         done' = [done EXCEPT ![i] = d], Fits(i, srv[i], t, p, d, M0),
         \A j \in Server : t.proofs[j] # NoBatch =>
           t.proofs[j] = srv[i].proofs[j] \/ (Sent(j) /\ t.proofs[j] = Told(M0, j))
  PROVE  /\ Shape' /\ Locals' /\ Proved'
         /\ M0' = Input(i, t, M0) /\ Sent(i)' = (t.st \in After)
         /\ \A j \in Server : Letters(j) \subseteq Letters(j)'
         /\ Pushes \subseteq Pushes' /\ Clients \subseteq Clients' /\ Mail \subseteq Mail'
<1>1. /\ srv = [k \in Server |-> srv[k]] /\ pool = [k \in Server |-> pool[k]]
      /\ done = [k \in Server |-> done[k]] /\ Locals /\ Proved
  BY DEF IInv, Shape
<1>2. /\ srv'[i] = t /\ \A k \in Server : k # i => srv'[k] = srv[k]
      /\ pool'[i] = p /\ \A k \in Server : k # i => pool'[k] = pool[k]
      /\ done'[i] = d /\ \A k \in Server : k # i => done'[k] = done[k]
  BY <1>1
<1>3. Shape'
  <2>1. srv' = [k \in Server |-> srv'[k]]
    BY <1>1
  <2>2. pool' = [k \in Server |-> pool'[k]]
    BY <1>1
  <2>3. done' = [k \in Server |-> done'[k]]
    BY <1>1
  <2> QED
    BY <2>1, <2>2, <2>3 DEF Shape
<1>4. M0' = Input(i, t, M0)
  BY <1>2, ServerFacts DEF M0, Input
<1>5. Sent(0) => M0' = M0
  <2>1. Input(i, t, M0) = M0 \/ srv[i].st \notin After
    BY DEF Fits
  <2> QED
    BY <1>4, <2>1 DEF Sent, Input
<1>6. Sent(i)' = (t.st \in After)
  BY <1>2 DEF Sent
<1>7. \A j \in Server : Sent(j) => Sent(j)'
  <2>1. srv[i].st \in After => t.st \in After
    BY DEF Fits
  <2> QED
    BY <1>2, <2>1 DEF Sent
<1>8. Locals'
  <2> SUFFICES ASSUME NEW k \in Server  PROVE Local(k, srv'[k], pool'[k], done'[k], M0')
    BY DEF Locals
  <2>1. CASE k = i
    BY <1>2, <1>4, <2>1 DEF Fits
  <2>2. CASE k # i
    <3>1. Local(k, srv[k], pool[k], done[k], M0) /\ srv[k] \in State
      BY <1>1 DEF Locals, Local
    <3>2. CASE M0' = M0
      BY <1>2, <2>2, <3>1, <3>2
    <3>3. CASE M0' # M0
      <4>1. k # 0
        BY <1>4, <2>2, <3>3 DEF Input
      <4>2. ~(srv[k].end > 0)
        BY <1>1, <1>5, <3>3, SentFirst
      <4>3. Local(k, srv[k], pool[k], done[k], M0')
        BY <3>1, <4>1, <4>2, LocalOther
      <4> QED
        BY <1>2, <2>2, <4>3
    <3> QED
      BY <3>2, <3>3
  <2> QED
    BY <2>1, <2>2
<1>9. Proved'
  <2> SUFFICES ASSUME NEW k \in Server, NEW j \in Server, srv'[k].proofs[j] # NoBatch
               PROVE  Sent(j)' /\ srv'[k].proofs[j] = Told(M0', j)
    BY DEF Proved
  <2>1. Sent(j) /\ srv'[k].proofs[j] = Told(M0, j)
    BY <1>1, <1>2 DEF Proved
  <2>2. M0' = M0
    BY <1>1, <1>5, <2>1, SentFirst
  <2> QED
    BY <1>7, <2>1, <2>2
<1>10. \A j \in Server : Letters(j) \subseteq Letters(j)'
  <2> SUFFICES ASSUME NEW j \in Server, NEW m \in Letters(j)  PROVE m \in Letters(j)'
    OBVIOUS
  <2>1. CASE m \in Plain
    BY <2>1 DEF Letters
  <2>2. CASE m = Told(M0, j) /\ Sent(j)
    <3>1. M0' = M0 /\ Sent(j)'
      BY <1>1, <1>5, <1>7, <2>2, SentFirst
    <3> QED
      BY <2>2, <3>1 DEF Letters
  <2> QED
    BY <2>1, <2>2 DEF Letters
<1>11. Pushes \subseteq Pushes' /\ Clients \subseteq Clients'
  <2>1. CASE Sent(0)
    <3>1. M0' = M0 /\ Sent(0)'
      BY <1>5, <1>7, <2>1, ServerFacts
    <3> QED
      BY <2>1, <3>1 DEF Pushes, Clients
  <2>2. CASE ~Sent(0)
    BY <2>2 DEF Pushes, Clients
  <2> QED
    BY <2>1, <2>2
<1>12. Mail \subseteq Mail'
  BY <1>10 DEF Mail
<1> QED
  BY <1>3, <1>4, <1>6, <1>8, <1>9, <1>10, <1>11, <1>12

\* A server has handled something: v is what the handler left, c the channels
\* from it before what it sends.
LEMMA Dispatches ==
  ASSUME IInv, NEW i \in Server, NEW v, NEW d,
         Result(i, srv[i], v, pool[i], d, M0, Mail),
         \A j \in Server : v.s.proofs[j] # NoBatch =>
           v.s.proofs[j] = srv[i].proofs[j] \/ (Sent(j) /\ v.s.proofs[j] = Told(M0, j)),
         srv' = [srv EXCEPT ![i] = v.s], pool' = [pool EXCEPT ![i] = pool[i] \o v.tasks],
         done' = [done EXCEPT ![i] = d],
         log' = [log EXCEPT ![i] = v.log], todo' = [todo EXCEPT ![i] = v.todo],
         chan' = [k \in Server |-> chan'[k]],
         NEW c, \A k \in Server : c[k] \in Seq(Letters(i)),
         chan'[i] = [k \in Server |-> c[k] \o v.out],
         \A j \in Server : j # i => chan'[j] \in [Server -> Seq(Letters(j))],
         push' = [x \in Client |-> IF Home[x] = i THEN push[x] \o v.push ELSE push[x]],
         cli' = cli, sub' \subseteq Client
  PROVE  IInv'
<1>1. Fits(i, srv[i], v.s, pool[i] \o v.tasks, d, M0)
  BY DEF Result
<1>2. /\ Shape' /\ Locals' /\ Proved'
      /\ M0' = Input(i, v.s, M0) /\ Sent(i)' = (v.s.st \in After)
      /\ \A j \in Server : Letters(j) \subseteq Letters(j)'
      /\ Pushes \subseteq Pushes' /\ Clients \subseteq Clients' /\ Mail \subseteq Mail'
  BY <1>1, Moves
<1>3. /\ log \in [Server -> Seq(Mail)] /\ todo \in [Server -> Seq(Mail)]
      /\ push \in [Client -> Seq(Pushes)] /\ cli \in [Client -> Clients]
  BY DEF IInv, Boxes
<1>4. log' \in [Server -> Seq(Mail')] /\ todo' \in [Server -> Seq(Mail')]
  <2>1. v.log \in Seq(Mail') /\ v.todo \in Seq(Mail')
    BY <1>2, SeqMono DEF Result
  <2>2. \A k \in Server : log[k] \in Seq(Mail') /\ todo[k] \in Seq(Mail')
    BY <1>2, <1>3, SeqMono
  <2> HIDE DEF Mail
  <2> QED
    BY <1>3, <2>1, <2>2
<1>5. v.out \in Seq(Letters(i)')
  <2>1. v.out \in Seq(Outs(i, v.s, Input(i, v.s, M0)))
    BY DEF Result
  <2>2. Outs(i, v.s, Input(i, v.s, M0)) = Letters(i)'
    BY <1>2 DEF Outs, Letters
  <2> QED
    BY <2>1, <2>2
<1>6. chan'[i] \in [Server -> Seq(Letters(i)')]
  <2> SUFFICES ASSUME NEW k \in Server  PROVE c[k] \o v.out \in Seq(Letters(i)')
    OBVIOUS
  <2>1. c[k] \in Seq(Letters(i)')
    BY <1>2, SeqMono
  <2> QED
    BY <1>5, <2>1, Joined
<1>7. \A j \in Server : chan'[j] \in [Server -> Seq(Letters(j)')]
  <2> SUFFICES ASSUME NEW j \in Server, j # i  PROVE chan'[j] \in [Server -> Seq(Letters(j)')]
    BY <1>6
  <2>1. chan'[j] \in [Server -> Seq(Letters(j))]
    OBVIOUS
  <2>2. \A k \in Server : chan'[j][k] \in Seq(Letters(j)')
    BY <1>2, <2>1, SeqMono
  <2> QED
    BY <2>1, <2>2
<1>8. v.push \in Seq(Pushes')
  <2>1. v.push \in Seq(Sheets(v.s, Input(i, v.s, M0)))
    BY DEF Result
  <2>2. v.s.st \in After => Sent(0)'
    BY <1>2, SentFirstNext
  <2>3. Sheets(v.s, Input(i, v.s, M0)) \subseteq Pushes'
    BY <1>2, <2>2 DEF Sheets, Pushes
  <2> QED
    BY <2>1, <2>3, SeqMono
<1>9. push' \in [Client -> Seq(Pushes')]
  <2> SUFFICES ASSUME NEW x \in Client  PROVE push'[x] \in Seq(Pushes')
    OBVIOUS
  <2>1. push[x] \in Seq(Pushes')
    BY <1>2, <1>3, SeqMono
  <2>2. push[x] \o v.push \in Seq(Pushes')
    BY <1>8, <2>1, Joined
  <2> QED
    BY <2>1, <2>2
<1>10. cli' \in [Client -> Clients']
  BY <1>2, <1>3
<1>11. Boxes'
  BY <1>4, <1>7, <1>9, <1>10 DEF Boxes
<1> QED
  BY <1>2, <1>11 DEF IInv

LEMMA BecomeKeeps ==
  ASSUME IInv, NEW i \in Server, NEW v, NEW d, Result(i, srv[i], v, pool[i], d, M0, Mail),
         \A j \in Server : v.s.proofs[j] # NoBatch =>
           v.s.proofs[j] = srv[i].proofs[j] \/ (Sent(j) /\ v.s.proofs[j] = Told(M0, j)),
         Become(i, v), done' = [done EXCEPT ![i] = d],
         cli' = cli, sub' \subseteq Client
  PROVE  IInv'
<1> DEFINE c == chan[i]
<1>1. /\ chan = [j \in Server |-> chan[j]]
      /\ \A j \in Server : chan[j] \in [Server -> Seq(Letters(j))]
  BY DEF IInv, Boxes
<1>2. chan' = [chan EXCEPT ![i] = [j \in Server |-> chan[i][j] \o v.out]]
  BY DEF Become
<1>3. /\ chan' = [k \in Server |-> chan'[k]]
      /\ chan'[i] = [k \in Server |-> c[k] \o v.out]
      /\ \A j \in Server : j # i => chan'[j] = chan[j]
  BY <1>1, <1>2
<1>4. \A j \in Server : j # i => chan'[j] \in [Server -> Seq(Letters(j))]
  BY <1>1, <1>3
<1>5. \A k \in Server : c[k] \in Seq(Letters(i))
  BY <1>1
<1>6. /\ srv' = [srv EXCEPT ![i] = v.s] /\ pool' = [pool EXCEPT ![i] = pool[i] \o v.tasks]
      /\ log' = [log EXCEPT ![i] = v.log] /\ todo' = [todo EXCEPT ![i] = v.todo]
      /\ push' = [x \in Client |-> IF Home[x] = i THEN push[x] \o v.push ELSE push[x]]
  BY DEF Become
<1> HIDE DEF c
<1> QED
  BY <1>3, <1>4, <1>5, <1>6, Dispatches

\* What the invariant says of the server at work.
LEMMA AtWork ==
  ASSUME IInv, NEW i \in Server
  PROVE  /\ srv[i] \in State /\ Local(i, srv[i], pool[i], done[i], M0)
         /\ i = 0 => M0 = srv[i].input.msgs
         /\ log[i] \in Seq(Mail) /\ todo[i] \in Seq(Mail) /\ sub \subseteq Client
         /\ Work(i) = Bench(srv[i], log[i], todo[i])
         /\ done = [done EXCEPT ![i] = done[i]] /\ M0 \in Groups
<1>1. Locals /\ Shape /\ Boxes
  BY DEF IInv
<1>2. srv[i] \in State /\ Local(i, srv[i], pool[i], done[i], M0) /\ M0 \in Groups
  BY <1>1, FirstInput DEF Locals
<1>3. Work(i) = Bench(srv[i], log[i], todo[i])
  BY DEF Work, Bench, Left
<1>4. done = [done EXCEPT ![i] = done[i]]
  BY <1>1 DEF Shape
<1> QED
  BY <1>1, <1>2, <1>3, <1>4 DEF M0, Boxes

\* Any message that a server takes, from a channel or from its log, as long as it does
\* not start a second verification.
LEMMA MessageWorks ==
  ASSUME IInv, NEW i \in Server, NEW l \in Seq(Mail), NEW q \in Seq(Mail), NEW m \in Mail,
         NEW v, v = Handle(Bench(srv[i], l, q), i, m), ~(Verifying(i) /\ v.tasks # <<>>)
  PROVE  /\ Result(i, srv[i], v, pool[i], done[i], M0, Mail)
         /\ \A k \in Server : v.s.proofs[k] # NoBatch =>
              v.s.proofs[k] = srv[i].proofs[k] \/ (Sent(k) /\ v.s.proofs[k] = Told(M0, k))
<1> DEFINE s == srv[i] w == Bench(s, l, q)
<1>0. /\ s \in State /\ Local(i, s, pool[i], done[i], M0)
      /\ i = 0 => M0 = s.input.msgs
      /\ M0 \in Groups /\ M0 = Input(i, s, M0)
  BY AtWork DEF Input
<1>w. w.s = s /\ w.log = l /\ w = Left(s, l, q, <<>>, <<>>, <<>>)
  BY BenchFields
<1>h. v = Handle(w, i, m)
  OBVIOUS
<1>s. Result(i, s, w, pool[i], done[i], M0, Mail) /\ w.s.proofs = s.proofs
  <2> HIDE DEF s
  <2> QED
    BY <1>0, Stays
<1>1. CASE m \in Plain
  <2>1. Result(i, s, v, pool[i], done[i], M0, Mail) /\ v.s.proofs = s.proofs
    <3> HIDE DEF s
    <3> QED
      BY <1>0, <1>1, <1>h, HandleWorks
  <2> QED
    BY <2>1
<1>2. ASSUME NEW j \in Server, m = Told(M0, j), Sent(j)
      PROVE  /\ Result(i, s, v, pool[i], done[i], M0, Mail)
             /\ \A k \in Server : v.s.proofs[k] # NoBatch =>
                  v.s.proofs[k] = s.proofs[k] \/ (Sent(k) /\ v.s.proofs[k] = Told(M0, k))
  <2>1. m.type = "SHUFFLE" /\ m.from = j
    BY <1>2, ToldFields
  <2>2. CASE Takes(s.st) # "SHUFFLE"
    <3> DEFINE n == Append(l, m)
    <3>1. n \in Seq(Mail)
      OBVIOUS
    <3> HIDE DEF n
    <3>2. v = Bench(s, n, q)
      <4>1. v = [w EXCEPT !.log = n]
        <5> HIDE DEF w
        <5> QED
          BY <1>w, <1>h, <2>1, <2>2 DEF Handle, n
      <4> HIDE DEF w
      <4> QED
        BY <1>w, <4>1, MendLog DEF Bench
    <3>3. Result(i, s, v, pool[i], done[i], M0, Mail) /\ v.s.proofs = s.proofs
      <4> HIDE DEF s
      <4> QED
        BY <1>0, <3>1, <3>2, Stays
    <3> QED
      BY <3>3
  <2>3. CASE Takes(s.st) = "SHUFFLE"
    <3>1. s.st \in Turning
      BY <1>0, <2>3 DEF Takes, State, States, Early, Turning, Ended
    <3>2. v = IF s.proofs[j] # NoBatch THEN w ELSE HandleShuffle(w, i, m)
      <4> HIDE DEF w
      <4> QED
        BY <1>w, <1>h, <2>1, <2>3 DEF Handle
    <3>3. CASE s.proofs[j] # NoBatch
      BY <1>s, <3>2, <3>3
    <3>4. CASE s.proofs[j] = NoBatch
      <4>1. s.st = "WAITING_FOR_SHUFFLES_BEFORE_TURN" => s.proofs[i] = NoBatch /\ j # i
        BY <1>2 DEF IInv, Proved, Sent, After, Ended
      <4>2. v = HandleShuffle(w, i, m)
        BY <3>2, <3>4
      <4>3. v.tasks = <<>> \/ (pool[i] = <<>> /\ done[i] = <<>>)
        BY DEF Verifying
      <4>4. /\ Result(i, s, v, pool[i], done[i], M0, Mail)
            /\ v.s.proofs = [s.proofs EXCEPT ![j] = m]
        <5> HIDE DEF s
        <5> QED
          BY <1>0, <1>2, <3>1, <3>4, <4>1, <4>2, <4>3, HandleShuffleWorks
      <4>5. \A k \in Server : v.s.proofs[k] = s.proofs[k] \/ (k = j /\ v.s.proofs[k] = m)
        <5> HIDE DEF w
        <5>1. s.proofs \in [Server -> ShuffleMessage \cup {NoBatch}]
          BY <1>0 DEF State
        <5> QED
          BY <4>4, <5>1
      <4> QED
        BY <1>2, <4>4, <4>5
    <3> QED
      BY <3>3, <3>4
  <2> QED
    BY <2>2, <2>3
<1>3. m \in Plain \/ \E j \in Server : m = Told(M0, j) /\ Sent(j)
  BY DEF Mail, Letters
<1> QED
  BY <1>1, <1>2, <1>3

LEMMA ReplayKeeps ==
  ASSUME IInv, ~overlapped', NEW i \in Server, Replay(i)
  PROVE  IInv'
<1> DEFINE r == Tail(todo[i]) w == Bench(srv[i], log[i], r) m == Head(todo[i])
           v == Handle(w, i, m)
<1>1. todo[i] # <<>> /\ done' = done /\ cli' = cli /\ sub' = sub
  BY DEF Replay, Idle
<1>2. r \in Seq(Mail) /\ m \in Mail
  BY <1>1, AtWork
<1>3. [Work(i) EXCEPT !.todo = r] = w
  <2> HIDE DEF r
  <2>1. Work(i) = Left(srv[i], log[i], todo[i], <<>>, <<>>, <<>>)
    BY AtWork DEF Bench
  <2>2. [Work(i) EXCEPT !.todo = r] = Left(srv[i], log[i], r, <<>>, <<>>, <<>>)
    BY <2>1, MendTodo
  <2> QED
    BY <2>2 DEF Bench
<1>4. Become(i, v) /\ ~(Verifying(i) /\ v.tasks # <<>>)
  BY <1>3 DEF Replay, Overlap
<1> HIDE DEF m, r
<1>5. /\ Result(i, srv[i], v, pool[i], done[i], M0, Mail)
      /\ \A k \in Server : v.s.proofs[k] # NoBatch =>
           v.s.proofs[k] = srv[i].proofs[k] \/ (Sent(k) /\ v.s.proofs[k] = Told(M0, k))
  BY <1>2, <1>4, AtWork, MessageWorks
<1> HIDE DEF v
<1> QED
  BY <1>1, <1>4, <1>5, AtWork, BecomeKeeps

LEMMA SignalKeeps ==
  ASSUME IInv, NEW i \in Server, Signal(i)
  PROVE  IInv'
<1> DEFINE w == Bench(srv[i], log[i], todo[i])
           v == IF Head(done[i]) = "verify" THEN VerifyShufflesDone(w, i) ELSE StateComplete(w, i)
<1>1. done[i] # <<>> /\ done' = [done EXCEPT ![i] = Tail(done[i])] /\ cli' = cli /\ sub' = sub
  BY DEF Signal
<1>2. Become(i, v)
  <2>1. Work(i) = w
    BY AtWork
  <2> HIDE DEF w
  <2> QED
    BY <2>1 DEF Signal
<1>3. Tail(done[i]) = <<>> /\ Result(i, srv[i], v, pool[i], <<>>, M0, Mail) /\ v.s.proofs = srv[i].proofs
  BY <1>1, AtWork, SignalWorks
<1> HIDE DEF v
<1> QED
  BY <1>1, <1>2, <1>3, AtWork, BecomeKeeps

LEMMA TakeSubmissionKeeps ==
  ASSUME IInv, NEW x \in Client, TakeSubmission(x)
  PROVE  IInv'
<1> DEFINE w == Bench(srv[0], log[0], todo[0]) v == Handle(w, 0, Submit(x))
<1>0. 0 \in Server
  BY ServerFacts
<1>1. done' = done /\ cli' = cli /\ sub' \subseteq sub
  BY DEF TakeSubmission
<1>2. Submit(x) \in Plain /\ Plain \subseteq Mail
  BY <1>0 DEF Submit, Plain, Mail, Letters
<1>3. Become(0, v)
  <2>1. Work(0) = w
    BY <1>0, AtWork
  <2> HIDE DEF w
  <2> QED
    BY <2>1 DEF TakeSubmission
<1>4. Result(0, srv[0], v, pool[0], done[0], M0, Mail) /\ v.s.proofs = srv[0].proofs
  BY <1>0, <1>2, AtWork, HandleWorks
<1> HIDE DEF v
<1>5. sub' \subseteq Client /\ done' = [done EXCEPT ![0] = done[0]]
  BY <1>0, <1>1, AtWork
<1> QED
  BY <1>0, <1>1, <1>3, <1>4, <1>5, BecomeKeeps

LEMMA ConcludeKeeps ==
  ASSUME IInv, ConcludeMessageSubmission
  PROVE  IInv'
<1> DEFINE s == srv[0] w == Bench(s, log[0], todo[0]) t == [s EXCEPT !.vin = s.input]
           v == StateComplete(Bench(t, log[0], todo[0]), 0)
<1>0. 0 \in Server /\ s.st = "WAITING_FOR_MSGS" /\ done' = done /\ cli' = cli /\ sub' = sub
  BY ServerFacts DEF ConcludeMessageSubmission
<1>1. /\ s \in State /\ Local(0, s, pool[0], done[0], M0) /\ M0 = s.input.msgs
      /\ log[0] \in Seq(Mail) /\ todo[0] \in Seq(Mail) /\ Work(0) = w /\ M0 \in Groups
  BY <1>0, AtWork
<1>2. pool[0] = <<>> /\ done[0] = <<>> /\ s.input = Text(M0, 0)
  BY <1>0, <1>1 DEF Local, Works, Holds, Early
<1>3. Become(0, v)
  <2>1. WithInput(w) = Bench(t, log[0], todo[0])
    <3>1. w.s = s /\ w = Left(s, log[0], todo[0], <<>>, <<>>, <<>>)
      BY BenchFields
    <3>2. WithInput(w) = [w EXCEPT !.s = t]
      <4> HIDE DEF w
      <4> QED
        BY <3>1 DEF WithInput
    <3> HIDE DEF w, t
    <3> QED
      BY <3>1, <3>2, MendState DEF Bench
  <2> HIDE DEF w, t
  <2> QED
    BY <1>1, <2>1 DEF ConcludeMessageSubmission
<1>4. /\ t \in State /\ t.st = s.st /\ t.input = s.input /\ t.proofs = s.proofs /\ t.vidx = s.vidx
      /\ t.end = s.end /\ t.newEnd = s.newEnd /\ t.vin = s.input
  BY <1>1 DEF State
<1> HIDE DEF t, s, w
<1>5. Local(0, t, <<>>, <<>>, M0) /\ M0 = Input(0, t, M0)
  <2>1. Local(0, s, <<>>, <<>>, M0)
    BY <1>1, <1>2
  <2>2. t.input = Text(M0, 0)
    BY <1>2, <1>4
  <2>3. Local(0, t, <<>>, <<>>, M0)
    BY <1>0, <1>1, <1>4, <2>1, <2>2, Collects
  <2> QED
    BY <1>1, <1>4, <2>3 DEF Input
<1>6. Ready(0, t, <<>>, M0)
  BY <1>0, <1>2, <1>4 DEF Ready
<1>7. Result(0, s, v, <<>>, <<>>, M0, Mail) /\ v.s.proofs = t.proofs
  BY <1>0, <1>1, <1>4, <1>5, <1>6, Completes
<1> HIDE DEF v
<1> QED
  BY <1>0, <1>2, <1>3, <1>4, <1>7, AtWork, BecomeKeeps DEF s

\* A server takes a message of server j from the channel.
LEMMA DeliverKeeps ==
  ASSUME IInv, ~overlapped', NEW i \in Server, NEW j \in Server, Deliver(i, j)
  PROVE  IInv'
<1> DEFINE s == srv[i] w == Bench(s, log[i], todo[i]) m == Head(chan[j][i]) v == Handle(w, i, m)
           taken == [chan EXCEPT ![j][i] = Tail(chan[j][i])] c == taken[i]
<1>0. /\ s \in State /\ Local(i, s, pool[i], done[i], M0)
      /\ i = 0 => M0 = s.input.msgs
      /\ log[i] \in Seq(Mail) /\ todo[i] \in Seq(Mail) /\ sub \subseteq Client
      /\ Work(i) = w /\ done = [done EXCEPT ![i] = done[i]] /\ M0 \in Groups
  BY AtWork
<1>1. chan[j][i] # <<>> /\ done' = done /\ cli' = cli /\ sub' = sub
  BY DEF Deliver
<1>2. /\ chan = [k \in Server |-> chan[k]]
      /\ \A k \in Server : chan[k] \in [Server -> Seq(Letters(k))]
  BY DEF IInv, Boxes
<1>3. m \in Letters(j) /\ Tail(chan[j][i]) \in Seq(Letters(j))
  BY <1>1, <1>2
<1>4. /\ taken = [k \in Server |-> taken[k]]
      /\ \A k \in Server : taken[k] \in [Server -> Seq(Letters(k))]
  BY <1>2, <1>3
<1>o. ~(Verifying(i) /\ v.tasks # <<>>)
  <2>1. Overlap(i, Handle(Work(i), i, m))
    BY DEF Deliver
  <2> HIDE DEF w, m
  <2> QED
    BY <1>0, <2>1 DEF Overlap
<1>5. /\ srv' = [srv EXCEPT ![i] = v.s] /\ pool' = [pool EXCEPT ![i] = pool[i] \o v.tasks]
      /\ log' = [log EXCEPT ![i] = v.log] /\ todo' = [todo EXCEPT ![i] = v.todo]
      /\ chan' = [taken EXCEPT ![i] = [k \in Server |-> taken[i][k] \o v.out]]
      /\ push' = [x \in Client |-> IF Home[x] = i THEN push[x] \o v.push ELSE push[x]]
  <2> HIDE DEF w
  <2> QED
    BY <1>0 DEF Deliver
<1>6. /\ chan' = [k \in Server |-> chan'[k]]
      /\ chan'[i] = [k \in Server |-> c[k] \o v.out]
      /\ \A k \in Server : k # i => chan'[k] \in [Server -> Seq(Letters(k))]
      /\ \A k \in Server : c[k] \in Seq(Letters(i))
  <2> HIDE DEF taken, v
  <2> QED
    BY <1>4, <1>5
<1> HIDE DEF c, taken, m
<1>7. /\ Result(i, s, v, pool[i], done[i], M0, Mail)
      /\ \A k \in Server : v.s.proofs[k] # NoBatch =>
           v.s.proofs[k] = s.proofs[k] \/ (Sent(k) /\ v.s.proofs[k] = Told(M0, k))
  <2>1. m \in Mail
    BY <1>3 DEF Mail
  <2> QED
    BY <1>0, <1>o, <2>1, MessageWorks
<1> HIDE DEF v, w
<1>8. done' = [done EXCEPT ![i] = done[i]] /\ sub' \subseteq Client /\ cli' = cli
  BY <1>0, <1>1
<1>9. /\ srv' = [srv EXCEPT ![i] = v.s] /\ pool' = [pool EXCEPT ![i] = pool[i] \o v.tasks]
      /\ log' = [log EXCEPT ![i] = v.log] /\ todo' = [todo EXCEPT ![i] = v.todo]
      /\ push' = [x \in Client |-> IF Home[x] = i THEN push[x] \o v.push ELSE push[x]]
  BY <1>5
<1>10. /\ Result(i, srv[i], v, pool[i], done[i], M0, Mail)
       /\ \A k \in Server : v.s.proofs[k] # NoBatch =>
            v.s.proofs[k] = srv[i].proofs[k] \/ (Sent(k) /\ v.s.proofs[k] = Told(M0, k))
  BY <1>7
<1> HIDE DEF s
<1> QED
  BY <1>6, <1>8, <1>9, <1>10, Dispatches

\* A step of one server that sends nothing: only its own part has to be looked at.
LEMMA Tasking ==
  ASSUME IInv, NEW i \in Server, NEW t, NEW p, NEW d,
         srv' = [srv EXCEPT ![i] = t], pool' = [pool EXCEPT ![i] = p],
         done' = [done EXCEPT ![i] = d],
         log' = log, todo' = todo, chan' = chan, cli' = cli, sub' = sub, push' = push,
         Local(i, t, p, d, M0), t.input = srv[i].input, t.proofs = srv[i].proofs,
         srv[i].st \in After => t.st \in After
  PROVE  IInv'
<1>1. Input(i, t, M0) = M0
  BY DEF Input, M0
<1>2. Fits(i, srv[i], t, p, d, M0)
  BY <1>1 DEF Fits
<1>3. /\ Shape' /\ Locals' /\ Proved'
      /\ \A j \in Server : Letters(j) \subseteq Letters(j)'
      /\ Pushes \subseteq Pushes' /\ Clients \subseteq Clients' /\ Mail \subseteq Mail'
  BY <1>2, Moves
<1>4. Boxes
  BY DEF IInv
<1>5. \A j \in Server : chan[j] \in [Server -> Seq(Letters(j)')]
  <2> SUFFICES ASSUME NEW j \in Server  PROVE chan[j] \in [Server -> Seq(Letters(j)')]
    OBVIOUS
  <2>1. chan[j] \in [Server -> Seq(Letters(j))]
    BY <1>4 DEF Boxes
  <2>2. \A k \in Server : chan[j][k] \in Seq(Letters(j)')
    BY <1>3, <2>1, SeqMono
  <2> QED
    BY <2>1, <2>2
<1>6. push \in [Client -> Seq(Pushes')]
  <2>1. push \in [Client -> Seq(Pushes)]
    BY <1>4 DEF Boxes
  <2>2. \A x \in Client : push[x] \in Seq(Pushes')
    BY <1>3, <2>1, SeqMono
  <2> QED
    BY <2>1, <2>2
<1>7. log \in [Server -> Seq(Mail')] /\ todo \in [Server -> Seq(Mail')]
  <2>1. log \in [Server -> Seq(Mail)] /\ todo \in [Server -> Seq(Mail)]
    BY <1>4 DEF Boxes
  <2>2. \A k \in Server : log[k] \in Seq(Mail') /\ todo[k] \in Seq(Mail')
    BY <1>3, <2>1, SeqMono
  <2> HIDE DEF Mail
  <2> QED
    BY <2>1, <2>2
<1>8. Boxes'
  BY <1>3, <1>4, <1>5, <1>6, <1>7 DEF Boxes
<1> QED
  BY <1>3, <1>8 DEF IInv

\* Where a server stands, written as the others write what they change.
LEMMA Same ==
  ASSUME IInv, NEW i \in Server
  PROVE  /\ srv = [srv EXCEPT ![i] = srv[i]] /\ done = [done EXCEPT ![i] = done[i]]
BY DEF IInv, Shape

LEMMA StartKeeps ==
  ASSUME IInv, NEW i \in Server, Start(i)
  PROVE  IInv'
<1> DEFINE s == srv[i] t == [s EXCEPT !.st = "KEY_GENERATION"] p == <<[kind |-> "keygen"]>>
<1>1. s \in State /\ Local(i, s, pool[i], done[i], M0) /\ s.st = "OFFLINE"
  BY AtWork DEF Start
<1>2. pool[i] = <<>> /\ done[i] = <<>>
  BY <1>1 DEF Local, Works, Early
<1>3. /\ srv' = [srv EXCEPT ![i] = t] /\ done' = done
      /\ log' = log /\ todo' = todo /\ chan' = chan /\ cli' = cli /\ sub' = sub /\ push' = push
  BY DEF Start
<1>4. pool' = [pool EXCEPT ![i] = p]
  <2>1. pool' = [pool EXCEPT ![i] = Append(pool[i], [kind |-> "keygen"])]
    BY DEF Start
  <2>2. Append(<<>>, [kind |-> "keygen"]) = p
    OBVIOUS
  <2> QED
    BY <1>2, <2>1, <2>2
<1>5. /\ t \in State /\ t.st = "KEY_GENERATION" /\ t.input = s.input /\ t.proofs = s.proofs
      /\ t.end = s.end /\ t.newEnd = s.newEnd /\ t.vidx = s.vidx /\ t.vin = s.vin
      /\ t.clear = s.clear
  BY <1>1 DEF State, States, Early
<1> HIDE DEF t
<1>6. Local(i, t, p, <<>>, M0)
  <2>1. Works(i, t, p, <<>>, M0)
    BY <1>5 DEF Works, KeyTask, Early, Turning, Ended
  <2>2. Place(i, t, p, <<>>)
    BY <1>1, <1>5 DEF Local, Place, Early, Ended
  <2>3. Holds(i, t, M0)
    BY <1>1, <1>5 DEF Local, Holds, Early
  <2> QED
    BY <1>5, <2>1, <2>2, <2>3 DEF Local
<1>7. done' = [done EXCEPT ![i] = <<>>] /\ s.st \notin After
  BY <1>1, <1>2, <1>3, AtWork DEF After, Ended
<1> HIDE DEF p
<1> QED
  BY <1>3, <1>4, <1>5, <1>6, <1>7, Tasking

LEMMA KeyGenerationKeeps ==
  ASSUME IInv, NEW i \in Server, NEW k \in DOMAIN pool[i], KeyGeneration(i, k)
  PROVE  IInv'
<1>1. srv[i] \in State /\ Local(i, srv[i], pool[i], done[i], M0)
  BY AtWork
<1>2. Local(i, srv[i], RemoveAt(pool[i], k), Append(done[i], "op"), M0)
  BY <1>1, KeyGenerationWorks DEF KeyGeneration
<1>3. srv' = [srv EXCEPT ![i] = srv[i]]
  BY Same DEF KeyGeneration
<1>4. /\ pool' = [pool EXCEPT ![i] = RemoveAt(pool[i], k)]
      /\ done' = [done EXCEPT ![i] = Append(done[i], "op")]
      /\ log' = log /\ todo' = todo /\ chan' = chan /\ cli' = cli /\ sub' = sub /\ push' = push
  BY DEF KeyGeneration, Finish
<1> QED
  BY <1>2, <1>3, <1>4, Tasking

LEMMA ShuffleTaskKeeps ==
  ASSUME IInv, NEW i \in Server, NEW k \in DOMAIN pool[i], ShuffleTask(i, k)
  PROVE  IInv'
<1> DEFINE s == srv[i]
           t == Peeled(s)
<1>1. s \in State /\ Local(i, s, pool[i], done[i], M0)
  BY AtWork
<1>2. /\ Local(i, t, RemoveAt(pool[i], k), Append(done[i], "op"), M0)
      /\ t.st = s.st /\ t.input = s.input /\ t.proofs = s.proofs
  <2>1. pool[i][k].kind = "shuffle"
    BY DEF ShuffleTask
  <2> HIDE DEF s
  <2> QED
    BY <1>1, <2>1, ShuffleTaskWorks
<1>3. srv' = [srv EXCEPT ![i] = t]
  BY <1>1 DEF ShuffleTask, State, Peeled
<1>4. /\ pool' = [pool EXCEPT ![i] = RemoveAt(pool[i], k)]
      /\ done' = [done EXCEPT ![i] = Append(done[i], "op")]
      /\ log' = log /\ todo' = todo /\ chan' = chan /\ cli' = cli /\ sub' = sub /\ push' = push
  BY DEF ShuffleTask, Finish
<1> HIDE DEF t
<1> QED
  BY <1>2, <1>3, <1>4, Tasking

LEMMA VerifyBeginKeeps ==
  ASSUME IInv, NEW i \in Server, NEW k \in DOMAIN pool[i], VerifyBegin(i, k)
  PROVE  IInv'
<1> DEFINE s == srv[i]
           x == [kind |-> "verify", step |-> "loop", idx |-> s.vidx, in |-> s.vin,
                 keys |-> s.vkeys]
           p == [pool[i] EXCEPT ![k] = x]
<1>1. s \in State /\ Local(i, s, pool[i], done[i], M0)
  BY AtWork
<1>2. Local(i, s, p, done[i], M0)
  <2>1. pool[i][k].kind = "verify"
    BY DEF VerifyBegin
  <2> HIDE DEF s
  <2> QED
    BY <1>1, <2>1, VerifyBeginWorks
<1>3. /\ pool' = [pool EXCEPT ![i] = p] /\ srv' = srv /\ done' = done
      /\ log' = log /\ todo' = todo /\ chan' = chan /\ cli' = cli /\ sub' = sub /\ push' = push
  BY DEF VerifyBegin
<1> HIDE DEF p
<1>4. srv' = [srv EXCEPT ![i] = srv[i]] /\ done' = [done EXCEPT ![i] = done[i]]
  BY <1>3, Same
<1> QED
  BY <1>2, <1>3, <1>4, Tasking

LEMMA VerifyLoopKeeps ==
  ASSUME IInv, NEW i \in Server, NEW k \in DOMAIN pool[i], VerifyLoop(i, k)
  PROVE  IInv'
<1> DEFINE s == srv[i] q == pool[i]
           x == Looped(s, q[k])
           p == [q EXCEPT ![k] = x]
<1>1. s \in State /\ Local(i, s, q, done[i], M0) /\ M0 \in Groups
  BY AtWork
<1>2. \A j \in Server : s.proofs[j] # NoBatch => s.proofs[j] = Told(M0, j)
  BY DEF IInv, Proved
<1>3. /\ pool' = [pool EXCEPT ![i] = p] /\ srv' = srv /\ done' = done
      /\ log' = log /\ todo' = todo /\ chan' = chan /\ cli' = cli /\ sub' = sub /\ push' = push
      /\ q[k].kind = "verify" /\ q[k].step = "loop" /\ q[k].idx < s.end
  BY DEF VerifyLoop, Looped
<1>4. Local(i, s, p, done[i], M0)
  <2>1. k \in DOMAIN q
    OBVIOUS
  <2> HIDE DEF s, q
  <2> QED
    BY <1>1, <1>2, <1>3, <2>1, VerifyLoopWorks
<1> HIDE DEF p
<1>5. srv' = [srv EXCEPT ![i] = srv[i]] /\ done' = [done EXCEPT ![i] = done[i]]
  BY <1>3, Same
<1> QED
  BY <1>3, <1>4, <1>5, Tasking

LEMMA VerifyEndKeeps ==
  ASSUME IInv, NEW i \in Server, NEW k \in DOMAIN pool[i], VerifyEnd(i, k)
  PROVE  IInv'
<1> DEFINE s == srv[i] q == pool[i]
           t == Verified(s, q[k])
<1>1. s \in State /\ Local(i, s, q, done[i], M0)
  BY AtWork
<1>2. /\ q[k].kind = "verify" /\ q[k].step = "loop" /\ q[k].idx >= s.end
      /\ pool' = [pool EXCEPT ![i] = RemoveAt(q, k)]
      /\ done' = [done EXCEPT ![i] = Append(done[i], "verify")]
      /\ log' = log /\ todo' = todo /\ chan' = chan /\ cli' = cli /\ sub' = sub /\ push' = push
  BY DEF VerifyEnd, Finish
<1>3. srv' = [srv EXCEPT ![i] = t]
  BY <1>1 DEF VerifyEnd, State, Verified
<1>4. /\ Local(i, t, RemoveAt(q, k), Append(done[i], "verify"), M0)
      /\ t.st = s.st /\ t.input = s.input /\ t.proofs = s.proofs
  <2>1. k \in DOMAIN q
    OBVIOUS
  <2> HIDE DEF s, q
  <2> QED
    BY <1>1, <1>2, <2>1, VerifyEndWorks
<1> HIDE DEF t
<1> QED
  BY <1>2, <1>3, <1>4, Tasking

-----------------------------------------------------------------------------
(* Steps of clients, and the invariant of the whole *)

\* Nothing that the invariant says of a server changes with the clients.
LEMMA ServersRest ==
  ASSUME IInv, UNCHANGED <<srv, log, todo, chan, pool, done>>
  PROVE  /\ Shape' /\ Locals' /\ Proved' /\ Pushes' = Pushes /\ Clients' = Clients
         /\ log' \in [Server -> Seq(Mail')] /\ todo' \in [Server -> Seq(Mail')]
         /\ chan' = [i \in Server |-> chan'[i]]
         /\ \A i \in Server : chan'[i] \in [Server -> Seq(Letters(i)')]
<1>1. M0' = M0 /\ \A j \in Server : Sent(j)' = Sent(j)
  BY DEF M0, Sent
<1>2. Shape' /\ Proved'
  BY <1>1 DEF IInv, Shape, Proved
<1>3. Locals'
  BY <1>1 DEF IInv, Locals
<1>4. Pushes' = Pushes /\ Clients' = Clients
  BY <1>1, ServerFacts DEF Pushes, Clients
<1>5. (\A j \in Server : Letters(j)' = Letters(j)) /\ Mail' = Mail
  BY <1>1 DEF Letters, Mail
<1> QED
  BY <1>2, <1>3, <1>4, <1>5 DEF IInv, Boxes

LEMMA Taken ==
  ASSUME IInv, NEW x \in Client, push[x] # <<>>, push' = [push EXCEPT ![x] = Tail(push[x])]
  PROVE  Head(push[x]) \in Pushes /\ push' \in [Client -> Seq(Pushes)]
<1>1. push \in [Client -> Seq(Pushes)]
  BY DEF IInv, Boxes
<1>2. Head(push[x]) \in Pushes /\ Tail(push[x]) \in Seq(Pushes)
  BY <1>1
<1> QED
  BY <1>1, <1>2

LEMMA HandleServerKeysKeeps ==
  ASSUME IInv, NEW x \in Client, HandleServerKeys(x)
  PROVE  IInv'
<1> DEFINE k == [cli[x] EXCEPT !.st = "WAITING_FOR_OUTPUT"]
<1>1. UNCHANGED <<srv, log, todo, chan, pool, done>>
  BY DEF HandleServerKeys
<1>2. push' \in [Client -> Seq(Pushes)]
  BY Taken DEF HandleServerKeys
<1>3. cli \in [Client -> Clients] /\ sub' \subseteq Client
  BY DEF IInv, Boxes, HandleServerKeys
<1>4. k \in Clients
  <2>1. cli[x] \in [st : {"WAITING_FOR_SERVER_KEYS", "WAITING_FOR_OUTPUT"}, text : {NoBatch}]
    <3>1. cli[x] \in Clients /\ cli[x].st = "WAITING_FOR_SERVER_KEYS"
      BY <1>3 DEF HandleServerKeys
    <3> QED
      BY <3>1 DEF Clients
  <2>2. k \in [st : {"WAITING_FOR_SERVER_KEYS", "WAITING_FOR_OUTPUT"}, text : {NoBatch}]
    BY <2>1
  <2> QED
    BY <2>2 DEF Clients
<1>5. cli' = [cli EXCEPT ![x] = k]
  BY DEF HandleServerKeys
<1> HIDE DEF k
<1>6. cli' \in [Client -> Clients]
  BY <1>3, <1>4, <1>5
<1> QED
  BY <1>1, <1>2, <1>3, <1>6, ServersRest DEF IInv, Boxes

LEMMA HandleOutputKeeps ==
  ASSUME IInv, NEW x \in Client, HandleOutput(x)
  PROVE  IInv'
<1> DEFINE k == [st |-> "FINISHED", text |-> Head(push[x]).text]
<1>1. UNCHANGED <<srv, log, todo, chan, pool, done>> /\ sub' = sub
  BY DEF HandleOutput
<1>2. push' \in [Client -> Seq(Pushes)] /\ Head(push[x]) \in Pushes
  BY Taken DEF HandleOutput
<1>3. cli \in [Client -> Clients] /\ sub \subseteq Client
  BY DEF IInv, Boxes
<1>4. k \in Clients
  <2>1. Head(push[x]).type = "OUTPUT"
    BY DEF HandleOutput
  <2>2. Head(push[x]).text = Text(M0, N) /\ Sent(0)
    BY <1>2, <2>1 DEF Pushes
  <2> QED
    BY <2>2 DEF Clients
<1>5. cli' = [cli EXCEPT ![x] = k] \/ cli' = cli
  BY DEF HandleOutput
<1> HIDE DEF k
<1>6. cli' \in [Client -> Clients]
  BY <1>3, <1>4, <1>5
<1> QED
  BY <1>1, <1>2, <1>3, <1>6, ServersRest DEF IInv, Boxes

LEMMA Starts == Init => IInv
<1> SUFFICES ASSUME Init  PROVE IInv
  OBVIOUS
<1> DEFINE s == [st |-> "OFFLINE", keys |-> {}, ksigs |-> {}, input |-> [msgs |-> {}, layers |-> 0],
        proofs |-> [j \in Server |-> NoBatch], owned |-> NoBatch, own |-> NoBatch,
        vin |-> NoBatch, vidx |-> 0, vkeys |-> 0, end |-> 0, newEnd |-> 0,
        clear |-> NoBatch, sigs |-> {}]
<1>1. srv = [i \in Server |-> s] /\ pool = [i \in Server |-> <<>>] /\ done = [i \in Server |-> <<>>]
  BY DEF Init
<1>2. Shape
  BY <1>1 DEF Shape
<1>3. /\ s.st = "OFFLINE" /\ s.input = Text({}, 0) /\ s.proofs = [j \in Server |-> NoBatch]
      /\ s.vidx = 0 /\ s.end = 0 /\ s.newEnd = 0
  BY DEF Text
<1>4. s \in State
  <2>1. NoBatch \in Batch /\ [msgs |-> {}, layers |-> 0] \in Batch
    BY DEF NoBatch, Batch, Groups
  <2>2. 0 \in 0..N /\ 0 \in Int
    BY CountAssumption
  <2>3. [j \in Server |-> NoBatch] \in [Server -> ShuffleMessage \cup {NoBatch}]
    OBVIOUS
  <2> HIDE DEF NoBatch
  <2> QED
    BY <2>1, <2>2, <2>3 DEF State, States, Early
<1> HIDE DEF s
<1>5. M0 = {}
  BY <1>1, <1>3, ServerFacts DEF M0, Text
<1>6. Locals
  <2> SUFFICES ASSUME NEW i \in Server  PROVE Local(i, s, <<>>, <<>>, {})
    BY <1>1, <1>5 DEF Locals
  <2>1. Works(i, s, <<>>, <<>>, {})
    BY <1>3 DEF Works, Early, Turning, Ended
  <2>2. Place(i, s, <<>>, <<>>)
    BY <1>3, ServerFacts DEF Place, Early, Ended
  <2>3. Holds(i, s, {})
    BY <1>3, ServerFacts DEF Holds, Early
  <2> QED
    BY <1>4, <2>1, <2>2, <2>3 DEF Local
<1>7. Proved
  BY <1>1, <1>3 DEF Proved
<1>8. Boxes
  <2>1. log \in [Server -> Seq(Mail)] /\ todo \in [Server -> Seq(Mail)]
    BY DEF Init
  <2>2. chan = [i \in Server |-> chan[i]] /\ \A i \in Server : chan[i] \in [Server -> Seq(Letters(i))]
    BY DEF Init
  <2>3. push \in [Client -> Seq(Pushes)] /\ sub \subseteq Client
    BY DEF Init
  <2>4. cli \in [Client -> Clients]
    BY DEF Init, Clients
  <2> QED
    BY <2>1, <2>2, <2>3, <2>4 DEF Boxes
<1> QED
  BY <1>2, <1>6, <1>7, <1>8 DEF IInv

LEMMA Rests ==
  ASSUME IInv, UNCHANGED vars
  PROVE  IInv'
<1>1. UNCHANGED <<srv, log, todo, chan, pool, done>> /\ cli' = cli /\ sub' = sub /\ push' = push
  BY DEF vars
<1>2. push \in [Client -> Seq(Pushes)] /\ cli \in [Client -> Clients] /\ sub \subseteq Client
  BY DEF IInv, Boxes
<1> QED
  BY <1>1, <1>2, ServersRest DEF IInv, Boxes

LEMMA Keeps ==
  ASSUME IInv, ~overlapped', [Next]_vars
  PROVE  IInv'
<1>1. CASE \E i \in Server : Start(i)
  BY <1>1, StartKeeps
<1>2. CASE \E i \in Server : Replay(i)
  BY <1>2, ReplayKeeps
<1>3. CASE \E i \in Server : Signal(i)
  BY <1>3, SignalKeeps
<1>4. CASE \E i \in Server : Task(i)
  <2> SUFFICES ASSUME NEW i \in Server, NEW k \in DOMAIN pool[i],
                      KeyGeneration(i, k) \/ ShuffleTask(i, k) \/ VerifyBegin(i, k)
                      \/ VerifyLoop(i, k) \/ VerifyEnd(i, k)
               PROVE  IInv'
    BY <1>4 DEF Task
  <2> QED
    BY KeyGenerationKeeps, ShuffleTaskKeeps, VerifyBeginKeeps, VerifyLoopKeeps, VerifyEndKeeps
<1>5. CASE \E i, j \in Server : Deliver(i, j)
  BY <1>5, DeliverKeeps
<1>6. CASE ConcludeMessageSubmission
  BY <1>6, ConcludeKeeps
<1>7. CASE \E x \in Client : TakeSubmission(x)
  BY <1>7, TakeSubmissionKeeps
<1>8. CASE \E x \in Client : HandleServerKeys(x)
  BY <1>8, HandleServerKeysKeeps
<1>9. CASE \E x \in Client : HandleOutput(x)
  BY <1>9, HandleOutputKeeps
<1>10. CASE UNCHANGED vars
  BY <1>10, Rests
<1> QED
  BY <1>1, <1>2, <1>3, <1>4, <1>5, <1>6, <1>7, <1>8, <1>9, <1>10 DEF Next

\* What has overlapped once has overlapped.
LEMMA OverlapStays ==
  ASSUME [Next]_vars, ~overlapped'
  PROVE  ~overlapped
<1>1. ASSUME NEW i \in Server, Start(i) \/ Signal(i) \/ Task(i)  PROVE overlapped' = overlapped
  <2>1. CASE Start(i)
    BY <2>1 DEF Start
  <2>2. CASE Signal(i)
    BY <2>2 DEF Signal
  <2>3. CASE Task(i)
    <3>1. PICK k \in DOMAIN pool[i] : KeyGeneration(i, k) \/ ShuffleTask(i, k) \/ VerifyBegin(i, k)
                                     \/ VerifyLoop(i, k) \/ VerifyEnd(i, k)
      BY <2>3 DEF Task
    <3>2. CASE KeyGeneration(i, k)
      BY <3>2 DEF KeyGeneration, Finish
    <3>3. CASE ShuffleTask(i, k)
      BY <3>3 DEF ShuffleTask, Finish
    <3>4. CASE VerifyBegin(i, k)
      BY <3>4 DEF VerifyBegin
    <3>5. CASE VerifyLoop(i, k)
      BY <3>5 DEF VerifyLoop
    <3>6. CASE VerifyEnd(i, k)
      BY <3>6 DEF VerifyEnd, Finish
    <3> QED
      BY <3>1, <3>2, <3>3, <3>4, <3>5, <3>6
  <2> QED
    BY <1>1, <2>1, <2>2, <2>3
<1>2. ASSUME NEW i \in Server, Replay(i)  PROVE overlapped => overlapped'
  BY <1>2 DEF Replay, Overlap
<1>3. ASSUME NEW i \in Server, NEW j \in Server, Deliver(i, j)  PROVE overlapped => overlapped'
  BY <1>3 DEF Deliver, Overlap
<1>4. ASSUME NEW x \in Client, TakeSubmission(x) \/ HandleServerKeys(x) \/ HandleOutput(x)
      PROVE  overlapped' = overlapped
  BY <1>4 DEF TakeSubmission, HandleServerKeys, HandleOutput
<1>5. ConcludeMessageSubmission => overlapped' = overlapped
  BY DEF ConcludeMessageSubmission
<1>6. CASE UNCHANGED vars
  BY <1>6 DEF vars
<1> QED
  BY <1>1, <1>2, <1>3, <1>4, <1>5, <1>6 DEF Next

\* Until then the invariant holds.
Inv == ~overlapped => IInv

LEMMA InvHolds == Spec => []Inv
<1>1. Init => Inv
  BY Starts DEF Inv
<1>2. Inv /\ [Next]_vars => Inv'
  <2> SUFFICES ASSUME Inv, [Next]_vars, ~overlapped'  PROVE IInv'
    BY DEF Inv
  <2>1. IInv
    BY OverlapStays DEF Inv
  <2> QED
    BY <2>1, Keeps
<1> QED
  BY <1>1, <1>2, PTL DEF Spec

LEMMA Signs == Inv => SignedOutput
BY DEF Inv, IInv, Locals, Local, Holds, SignedOutput, PushedIsSigned

\* Who has ended has verified to the end, so that its text has all layers removed.
LEMMA Agrees == Inv => SameCleartext
<1> SUFFICES ASSUME Inv, ~overlapped  PROVE SameCleartext
  BY DEF SameCleartext
<1>0. IInv
  BY DEF Inv
<1> DEFINE text == Text(M0, N)
<1>1. \A i \in Server : srv[i].st = "PUSH_OUTPUT" => srv[i].clear = text
  BY <1>0 DEF IInv, Locals, Local, Place, Holds, Ended
<1>2. \A x \in Client : cli[x].st = "FINISHED" => cli[x].text = text
  <2> SUFFICES ASSUME NEW x \in Client, cli[x].st = "FINISHED"  PROVE cli[x].text = text
    OBVIOUS
  <2>1. cli[x] \in Clients
    BY <1>0 DEF IInv, Boxes
  <2> QED
    BY <2>1 DEF Clients
<1>3. text = [msgs |-> srv[0].input.msgs, layers |-> N]
  BY DEF Text, M0
<1> HIDE DEF text
<1> QED
  BY <1>1, <1>2, <1>3 DEF SameCleartext

\* Whoever pushes the cleartext has the signatures of all servers (HandleSignature), for
\* every number of servers and every group of clients, until a server verifies shuffles
\* on two threads at once.
THEOREM OutputIsSigned == Spec => []SignedOutput
BY InvHolds, Signs, PTL

\* Until then, all servers and clients that end the round hold the batch that the first
\* server shuffled, with the layers of all servers removed, in whatever order the
\* shuffles came and were logged and replayed (HandleShuffle, VerifyShuffles,
\* PushMessages).
THEOREM TextsAgree == Spec => []SameCleartext
BY InvHolds, Agrees, PTL
=============================================================================
