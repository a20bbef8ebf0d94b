------------------------- MODULE NeffShuffleRound -------------------------
(***************************************************************************)
(* NeffShuffleRound: servers agree on keys, the first collects the         *)
(* clients' messages, each in turn removes a layer and proves it, all      *)
(* verify all proofs, sign the cleartext and push it to their clients.     *)
(*                                                                         *)
(* Keys are made, batches shuffled and proofs verified on pool threads;    *)
(* their Finished signals come back through the event loop.  A batch is    *)
(* the set of clients whose messages are in it and the number of layers    *)
(* removed; the order inside a batch, which hides who sent what, is left   *)
(* out, and proofs are perfect.                                            *)
(***************************************************************************)
EXTENDS Integers, Sequences, FiniteSets, SequencesExt

CONSTANTS
  N,        \* the number of servers
  Client,   \* the clients of the roster
  Home      \* Home[c]: the server c is connected to

ASSUME CountAssumption == N \in Nat \ {0}

Server == 0..(N - 1)

VARIABLES
  srv,    \* srv[i]: the ServerState of i and its state
  log,    \* log[i]: _next_state_log
  todo,   \* todo[i]: logged messages being replayed
  chan,   \* chan[i][j]: messages from server i to server j
  pool,   \* pool[i]: the tasks of i on the thread pool
  done,   \* done[i]: Finished signals on their way to i
  cli,    \* cli[c]: the state of client c and the cleartext it got
  sub,    \* the submissions on their way to server 0
  push,   \* push[c]: messages on their way to client c
  overlapped  \* whether a verification was started while another was under way

vars == <<srv, log, todo, chan, pool, done, cli, sub, push, overlapped>>

NoBatch == [msgs |-> {}, layers |-> -1]
Key(i) == [type |-> "KEY_EXCH", from |-> i]
KeySignature(i) == [type |-> "KEY_SIGNATURE", from |-> i]
Submit(c) == [type |-> "SUBMIT", from |-> c]
Shuffled(i, b, o) == [type |-> "SHUFFLE", from |-> i, in |-> b, out |-> o]
Signature(i, t) == [type |-> "SIGNATURE", from |-> i, text |-> t]

\* The message type each state takes.
Takes(st) ==
  CASE st = "WAITING_FOR_KEYS" -> "KEY_EXCH"
    [] st = "WAITING_FOR_KEY_SIGNATURES" -> "KEY_SIGNATURE"
    [] st = "WAITING_FOR_MSGS" -> "SUBMIT"
    [] st \in {"WAITING_FOR_SHUFFLES_BEFORE_TURN", "WAITING_FOR_SHUFFLES_AFTER_TURN"} -> "SHUFFLE"
    [] st = "WAITING_FOR_SIGNATURES" -> "SIGNATURE"
    [] OTHER -> "none"

-----------------------------------------------------------------------------
(* What a handler of server i leaves: w.s its state, w.log, w.todo, what it *)
(* sends to all servers (w.out) and to its clients (w.push), new tasks      *)

Work(i) == [s |-> srv[i], log |-> log[i], todo |-> todo[i], out |-> <<>>, push |-> <<>>,
            tasks |-> <<>>]
Enter(w, st) == [w EXCEPT !.s.st = st, !.log = <<>>, !.todo = w.log \o w.todo]
Broadcast(w, m) == [w EXCEPT !.out = Append(@, m)]
VerifyTask(i) == [kind |-> "verify", step |-> "queued", idx |-> 0, in |-> NoBatch, keys |-> 0]
Idle(i) == todo[i] = <<>>

\* StateComplete, with the states that only send on the way.
SubmitKey(w, i) == Enter(Broadcast(w, Key(i)), "WAITING_FOR_KEYS")
SubmitKeySignature(w, i) == Enter(Broadcast(w, KeySignature(i)), "WAITING_FOR_KEY_SIGNATURES")
PushServerKeys(w, i) ==
  Enter([w EXCEPT !.push = Append(@, [type |-> "KEY_DIST"]), !.s.vkeys = N],
        IF i = 0 THEN "WAITING_FOR_MSGS" ELSE "WAITING_FOR_SHUFFLES_BEFORE_TURN")
ShuffleMessages(w, i) == [Enter(w, "SHUFFLING") EXCEPT !.tasks = <<[kind |-> "shuffle"]>>]
TransmitShuffle(w, i) ==
  Enter(Broadcast([w EXCEPT !.s.own = NoBatch],
                  Shuffled(i, w.s.owned, w.s.own)), "WAITING_FOR_SHUFFLES_AFTER_TURN")
SubmitSignature(w, i) == Enter(Broadcast(w, Signature(i, w.s.clear)), "WAITING_FOR_SIGNATURES")
PushMessages(w, i) ==
  Enter([w EXCEPT !.push = Append(@, [type |-> "OUTPUT", text |-> w.s.clear, sigs |-> w.s.sigs])],
        "PUSH_OUTPUT")

StateComplete(w, i) ==
  CASE w.s.st = "KEY_GENERATION" -> SubmitKey(w, i)
    [] w.s.st = "WAITING_FOR_KEYS" -> SubmitKeySignature(w, i)
    [] w.s.st = "WAITING_FOR_KEY_SIGNATURES" -> PushServerKeys(w, i)
    [] w.s.st \in {"WAITING_FOR_MSGS", "WAITING_FOR_SHUFFLES_BEFORE_TURN"} -> ShuffleMessages(w, i)
    [] w.s.st = "SHUFFLING" -> TransmitShuffle(w, i)
    [] w.s.st = "WAITING_FOR_SHUFFLES_AFTER_TURN" -> SubmitSignature(w, i)
    [] w.s.st = "WAITING_FOR_SIGNATURES" -> PushMessages(w, i)
    [] OTHER -> w

-----------------------------------------------------------------------------
(* Message handlers of servers *)

HandleKey(w, i, m) ==
  LET v == [w EXCEPT !.s.keys = @ \cup {m.from}]
  IN IF v.s.keys = Server THEN StateComplete(v, i) ELSE v
HandleKeySignature(w, i, m) ==
  LET v == [w EXCEPT !.s.ksigs = @ \cup {m.from}]
  IN IF v.s.ksigs = Server THEN StateComplete(v, i) ELSE v

HandleMessageSubmission(w, i, m) ==
  LET v == [w EXCEPT !.s.input.msgs = @ \cup {m.from}]
  IN IF v.s.input.msgs = Client
       THEN StateComplete([v EXCEPT !.s.vin = v.s.input], i)
       ELSE v

\* The indices whose proofs are here, from e on without a gap: the first missing.
NextOnly(e, proofs) == e + 1   \* mutant: the proofs that came before are not counted
EndOf(e, proofs) ==
  CHOOSE k \in e..N : /\ \A j \in e..(k - 1) : j \in proofs
                      /\ k = N \/ k \notin proofs

\* verifying is never set, so both branches of HandleShuffle start a task.
HandleShuffle(w, i, m) ==
  LET v == [w EXCEPT !.s.proofs[m.from] = m,
                     !.s.input = IF m.from = 0 THEN m.in ELSE @,
                     !.s.vin = IF m.from = 0 THEN m.in ELSE @]
      have == {j \in Server : v.s.proofs[j] # NoBatch}
      e == EndOf(v.s.newEnd, have)
      more == e - v.s.newEnd
  IN IF m.from # v.s.newEnd THEN v
     ELSE [v EXCEPT !.s.newEnd = @ + more, !.s.end = @ + more,
                    !.tasks = <<VerifyTask(i)>>]

MostSigned(sigs) == Cardinality(sigs) + 1 >= N   \* mutant: one signature is missing
AllSigned(sigs) == sigs = Server
HandleSignature(w, i, m) ==
  LET v == [w EXCEPT !.s.sigs = @ \cup {m.from}]
  IN IF m.from \in w.s.sigs \/ m.text # w.s.clear THEN w
     ELSE IF AllSigned(v.s.sigs) THEN StateComplete(v, i) ELSE v

Handle(w, i, m) ==
  IF m.type # Takes(w.s.st) THEN [w EXCEPT !.log = Append(@, m)]
  ELSE CASE m.type = "KEY_EXCH" -> HandleKey(w, i, m)
         [] m.type = "KEY_SIGNATURE" -> HandleKeySignature(w, i, m)
         [] m.type = "SUBMIT" ->
              IF m.from \in w.s.input.msgs THEN w ELSE HandleMessageSubmission(w, i, m)
         [] m.type = "SHUFFLE" ->
              IF w.s.proofs[m.from] # NoBatch THEN w ELSE HandleShuffle(w, i, m)
         [] m.type = "SIGNATURE" -> HandleSignature(w, i, m)

-----------------------------------------------------------------------------
(* Steps of servers *)

\* Tasks start with distinct numbers, so that two verifications may run at once.
Become(i, w) ==
  /\ srv' = [srv EXCEPT ![i] = w.s]
  /\ log' = [log EXCEPT ![i] = w.log]
  /\ todo' = [todo EXCEPT ![i] = w.todo]
  /\ chan' = [chan EXCEPT ![i] = [j \in Server |-> chan[i][j] \o w.out]]
  /\ pool' = [pool EXCEPT ![i] = @ \o w.tasks]
  /\ push' = [c \in Client |-> IF Home[c] = i THEN push[c] \o w.push ELSE push[c]]

Start(i) ==   \* OnStart: KEY_GENERATION
  /\ srv[i].st = "OFFLINE"
  /\ srv' = [srv EXCEPT ![i].st = "KEY_GENERATION"]
  /\ pool' = [pool EXCEPT ![i] = Append(@, [kind |-> "keygen"])]
  /\ UNCHANGED <<log, todo, chan, done, cli, sub, push, overlapped>>

\* verifying is never set, so a message may start a verification at any time.
Verifying(i) == pool[i] # <<>> \/ done[i] # <<>>
Overlap(i, w) == overlapped' = (overlapped \/ (Verifying(i) /\ w.tasks # <<>>))

\* A packet before the round exists waits in the session.
Replay(i) ==
  /\ ~Idle(i)
  /\ LET w == Handle([Work(i) EXCEPT !.todo = Tail(todo[i])], i, Head(todo[i]))
     IN Become(i, w) /\ Overlap(i, w)
  /\ UNCHANGED <<done, cli, sub>>

Deliver(i, j) ==
  /\ Idle(i) /\ srv[i].st # "OFFLINE" /\ chan[j][i] # <<>>
  /\ LET m == Head(chan[j][i])
         w == Handle(Work(i), i, m)
     IN /\ srv' = [srv EXCEPT ![i] = w.s]
        /\ log' = [log EXCEPT ![i] = w.log]
        /\ todo' = [todo EXCEPT ![i] = w.todo]
        /\ LET taken == [chan EXCEPT ![j][i] = Tail(@)]
           IN chan' = [taken EXCEPT ![i] = [k \in Server |-> taken[i][k] \o w.out]]
        /\ pool' = [pool EXCEPT ![i] = @ \o w.tasks]
        /\ push' = [c \in Client |-> IF Home[c] = i THEN push[c] \o w.push ELSE push[c]]
        /\ Overlap(i, w)
  /\ UNCHANGED <<done, cli, sub>>

TakeSubmission(c) ==
  /\ Idle(0) /\ c \in sub /\ sub' = sub \ {c}
  /\ Become(0, Handle(Work(0), 0, Submit(c)))
  /\ UNCHANGED <<done, cli, overlapped>>

\* The submission window closes by a timer.
ForgetsInput(w) == w   \* mutant: next_verify_input is not set
WithInput(w) == [w EXCEPT !.s.vin = w.s.input]
ConcludeMessageSubmission ==
  /\ Idle(0) /\ srv[0].st = "WAITING_FOR_MSGS"
  /\ Become(0, StateComplete(WithInput(Work(0)), 0))
  /\ UNCHANGED <<done, cli, sub, overlapped>>

VerifyShufflesDone(w, i) ==
  IF w.s.newEnd # w.s.end
    THEN [w EXCEPT !.s.end = w.s.newEnd, !.tasks = <<VerifyTask(i)>>]
  ELSE IF w.s.end \in {i, N} THEN StateComplete(w, i) ELSE w
Signal(i) ==
  /\ Idle(i) /\ done[i] # <<>>
  /\ done' = [done EXCEPT ![i] = Tail(@)]
  /\ Become(i, IF Head(done[i]) = "verify" THEN VerifyShufflesDone(Work(i), i)
               ELSE StateComplete(Work(i), i))
  /\ UNCHANGED <<cli, sub, overlapped>>

-----------------------------------------------------------------------------
(* Tasks on the pool, next to the event loop *)

Finish(i, k, kind) ==
  /\ pool' = [pool EXCEPT ![i] = RemoveAt(@, k)]
  /\ done' = [done EXCEPT ![i] = Append(@, kind)]
  /\ UNCHANGED <<log, todo, chan, cli, sub, push, overlapped>>

KeyGeneration(i, k) ==
  /\ pool[i][k].kind = "keygen" /\ Finish(i, k, "op") /\ UNCHANGED srv

ShuffleTask(i, k) ==
  /\ pool[i][k].kind = "shuffle" /\ Finish(i, k, "op")
  /\ srv' = [srv EXCEPT ![i].owned = srv[i].vin,
                        ![i].own = [msgs |-> srv[i].vin.msgs, layers |-> srv[i].vin.layers + 1]]

\* VerifyShuffles::run: what it starts from is read once, the end at every turn
\* of its loop, and the results are written at the end.
VerifyBegin(i, k) ==
  /\ pool[i][k].kind = "verify" /\ pool[i][k].step = "queued"
  /\ pool' = [pool EXCEPT ![i][k] = [kind |-> "verify", step |-> "loop", idx |-> srv[i].vidx,
                                     in |-> srv[i].vin, keys |-> srv[i].vkeys]]
  /\ UNCHANGED <<srv, log, todo, chan, done, cli, sub, push, overlapped>>
VerifyLoop(i, k) ==
  LET t == pool[i][k]
  IN /\ t.kind = "verify" /\ t.step = "loop" /\ t.idx < srv[i].end
     /\ pool' = [pool EXCEPT ![i][k] = [t EXCEPT !.idx = @ + 1, !.keys = @ - 1,
                                                 !.in = srv[i].proofs[t.idx].out]]
     /\ UNCHANGED <<srv, log, todo, chan, done, cli, sub, push, overlapped>>
VerifyEnd(i, k) ==
  LET t == pool[i][k]
  IN /\ t.kind = "verify" /\ t.step = "loop" /\ t.idx >= srv[i].end
     /\ Finish(i, k, "verify")
     /\ srv' = [srv EXCEPT ![i].vkeys = t.keys, ![i].vin = t.in, ![i].vidx = srv[i].end,
                           ![i].clear = IF srv[i].end = N THEN t.in ELSE @]

-----------------------------------------------------------------------------
(* Clients *)

\* HandleServerKeys, GenerateMessage and SubmitMessage in a row.
HandleServerKeys(c) ==
  /\ push[c] # <<>> /\ Head(push[c]).type = "KEY_DIST" /\ cli[c].st = "WAITING_FOR_SERVER_KEYS"
  /\ push' = [push EXCEPT ![c] = Tail(@)]
  /\ cli' = [cli EXCEPT ![c].st = "WAITING_FOR_OUTPUT"]
  /\ sub' = sub \cup {c}
  /\ UNCHANGED <<srv, log, todo, chan, pool, done, overlapped>>

HandleOutput(c) ==
  /\ push[c] # <<>> /\ Head(push[c]).type = "OUTPUT" /\ cli[c].st = "WAITING_FOR_OUTPUT"
  /\ push' = [push EXCEPT ![c] = Tail(@)]
  /\ cli' = IF Head(push[c]).sigs = Server
              THEN [cli EXCEPT ![c] = [st |-> "FINISHED", text |-> Head(push[c]).text]]
              ELSE cli
  /\ UNCHANGED <<srv, log, todo, chan, pool, done, sub, overlapped>>

Init ==
  /\ srv = [i \in Server |->
       [st |-> "OFFLINE", keys |-> {}, ksigs |-> {}, input |-> [msgs |-> {}, layers |-> 0],
        proofs |-> [j \in Server |-> NoBatch], owned |-> NoBatch, own |-> NoBatch,
        vin |-> NoBatch, vidx |-> 0, vkeys |-> 0, end |-> 0, newEnd |-> 0,
        clear |-> NoBatch, sigs |-> {}]]
  /\ log = [i \in Server |-> <<>>] /\ todo = [i \in Server |-> <<>>]
  /\ chan = [i \in Server |-> [j \in Server |-> <<>>]]
  /\ pool = [i \in Server |-> <<>>] /\ done = [i \in Server |-> <<>>]
  /\ cli = [c \in Client |-> [st |-> "WAITING_FOR_SERVER_KEYS", text |-> NoBatch]]
  /\ sub = {} /\ push = [c \in Client |-> <<>>] /\ overlapped = FALSE

Task(i) == \E k \in DOMAIN pool[i] : \/ KeyGeneration(i, k) \/ ShuffleTask(i, k)
                                     \/ VerifyBegin(i, k) \/ VerifyLoop(i, k) \/ VerifyEnd(i, k)
Next ==
  \/ \E i \in Server : Start(i) \/ Replay(i) \/ Signal(i) \/ Task(i) \/ \E j \in Server : Deliver(i, j)
  \/ ConcludeMessageSubmission
  \/ \E c \in Client : TakeSubmission(c) \/ HandleServerKeys(c) \/ HandleOutput(c)

Spec == Init /\ [][Next]_vars

-----------------------------------------------------------------------------
(* Properties *)

\* A server ends the round, and pushes the cleartext, with the signatures of all
\* servers (HandleSignature, PushMessages): what the design promises of every round.
PushedIsSigned == \A i \in Server : srv[i].st = "PUSH_OUTPUT" => srv[i].sigs = Server

\* So it is until a server verifies shuffles on two threads at once (HandleShuffle).
SignedOutput == ~overlapped => PushedIsSigned

\* Until then all who end the round have the messages that the first server
\* shuffled, with every layer removed.
SameCleartext ==
  LET text == [msgs |-> srv[0].input.msgs, layers |-> N]
  IN ~overlapped =>
       /\ \A i \in Server : srv[i].st = "PUSH_OUTPUT" => srv[i].clear = text
       /\ \A c \in Client : cli[c].st = "FINISHED" => cli[c].text = text

\* The round ends for everybody, unless verifications overlap.
AllDone == /\ \A i \in Server : srv[i].st = "PUSH_OUTPUT"
           /\ \A c \in Client : cli[c].st = "FINISHED"
=============================================================================
