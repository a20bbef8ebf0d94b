# Dissent: TLA+ models, checks and proofs

Dissent is an anonymous group messaging system. A fixed set of *servers*, listed
in the configuration, serves a changing set of *clients*. Servers and clients
form *rounds*: one run of an anonymity protocol (a DC-net, a shuffle) with a fixed
roster and fresh keys. This directory holds TLA+ modules for the code, TLC
configurations that check them on small instances, and TLAPS proofs, for groups of
every size, about the way servers form rounds, clients follow them, a DC-net phase
is run and an accusation ends.

Paths below are relative to the repository root; the code is under `src/`, the
protocol description is `DESIGN`.

1. The system
2. The plan and what is done of it
3. The modules
4. The runs, with bounds, fairness and disagreements
5. The proofs
6. What is not modelled

## 1. The system

| Component | State | Operations | Talks to | Modules |
|---|---|---|---|---|
| Server session (`src/Session/ServerSession.cpp`) | current state, ServerInit, RoundId, ephemeral key, ServerEnlists, ServerAgrees, ClientRegisters, list signatures, last ServerStop | nine states with message, timer, connect and disconnect handlers | overlay, round | `ServerSession`, `RoundService` |
| Client session (`src/Session/ClientSession.cpp`) | current state, its server, server roster, ephemeral key | Offline, WaitingForServer, Queuing, Registering, Communicating | overlay, round | `ClientSession` |
| Session shell (`Session.cpp`, `SessionSharedState.cpp`) | current round, send queue, last stop | message entry, round start and end, `DataQueue` | state machine | `ServerSession`, `ClientSession`, `Delivery` |
| State machine (`src/Messaging/StateMachine.hpp`) | current state, stored messages | ProcessData, StateComplete, SetNewState | session states | `ServerSession`, `ClientSession` |
| Overlay (`src/ClientServer/Overlay.cpp`) | the list of servers | send, broadcast, forward | connection table, RPC | `Overlay` |
| Connection manager and table (`src/Connections`) | connections by id and by edge | Inquire, Connect, Close, Disconnect, edge closed | transports | `ConnectionManager` |
| Acquirers (`src/ClientServer/*Acquirer.cpp`) | outstanding ids and addresses | dial, redial | connection manager | `ConnectionManager` |
| RPC handler (`src/Messaging/RpcHandler.cpp`) | outstanding requests, next id | request, response, notification, timeout | edges, timer | `RpcHandler` |
| Sinks and sources (`src/Messaging`) | who listens | push, queue, remove | rounds, applications | `NullRound` |
| Round and round state machine (`src/Anonymity/Round*`) | state, phase, log of early messages | ProcessData, StateComplete | overlay, session | `DCNetRound`, `NullRound` |
| DC-net round (`CSDCNetRound`) | ciphertexts, commits, lists, keys, slots | one exchange per phase; accusations | round state machine | `DCNetRound`, `PhaseBroadcast`, `DCNetAccusation` |
| Neff shuffle round, null round | keys, shuffles, signatures; texts | a shuffle; an open exchange | round, thread pool | `NeffShuffleRound`, `NullRound` |
| Fault-tolerant round (`src/SFT`) | view, votes, ciphertexts, phase | message and view managers | round | `SFTRound` |
| Transports (`src/Transports`) | edges, streams of bytes, listeners | Send, Read, dial, listen | Qt sockets | `TcpEdge`, `EdgeListeners` |
| Tunnel (`src/Tunnel`) | SOCKS connections, exit entries | entry, exit | session, Qt sockets | `SocksConnection`, `Tunnel` |
| Timer, StartStop, utilities (`src/Utils`) | queue of events | queue, run, stop; serialization | all | `Timer`, `AlarmClock`, `Encodings` |
| Cryptography (`src/Crypto`) | keys, ciphertexts, proofs | encrypt, prove, verify | rounds, session | `BigInteger` to `Onion`, see section 3 |
| Identities and rosters (`src/Identity`) | public identities, roster | write, read, look up | session, rounds | `Identities`, `KeyShare` |
| Applications (`src/Applications`) | Settings, key files | parse, save, keygen | all | `Settings`, `KeyFiles` |
| Web services (`src/Web`) | messages, waiting requests | get, push | session, HTTP | `Delivery` |

Everything in one node runs on one Qt event loop (only the work of the shuffles
uses a pool thread). What is hard is between nodes and between turns of the loop:
messages of faster servers that come a state early, messages of an abandoned
attempt that come late, connections that break at one end before the other
notices, a stop that races the next start, states that wait for everybody without
a timeout, windows that close at each server on its own, and bytes that come in
any pieces. In the sequential parts it is the edges of numbers: lengths, padding
and the size of a field. `PROJECT.json` lists these hazards at their lines.

What makes each component correct:

* session: all who run a round agree on its servers, keys and clients; a server
  never goes back to an old round; after faults have stopped a round runs again;
  a client heeds the start of its round and runs the roster of that round;
* connection manager: at most one connection per id, and the two ends agree on
  its edge in the end;
* overlay and RPC: every broadcast is heard once by everybody, every request
  completes once with its own answer;
* DC-net exchange: no server reveals a ciphertext before it has all commits, all
  servers compute the same cleartext from the same client list, all pads cancel,
  a client's messages come in order, and all servers end with one verdict;
* shuffles: nobody takes a cleartext without all signatures and proofs, and all
  take the same one;
* SFT: an exchange gives the texts and no key, and a view change ends;
* timer, edges, tunnel, queue, settings: what comes out is what went in, in order
  and once;
* cryptography: what was encoded comes back, honest proofs pass, and what is forged
  fits at most one challenge. The code falls short of the last for an ElGamal
  client's proof and for values that are true but for their sign, see
  "Disagreements"; but for the first a bin opens or names someone who sent something
  bad.

## 2. The plan and what is done of it

| Order | Modules | Status |
|---|---|---|
| 1 | `ServerSession` implements `RoundService` | modelled, checked; all safety properties proved |
| 2 | `ClientSession` | modelled, checked; all safety properties proved |
| 3 | `DCNetRound` implements `PhaseBroadcast` | modelled, checked; all safety properties and the refinement proved |
| 3 | `DCNetAccusation` | modelled, checked; agreement on the verdict proved |
| 4 | `NeffShuffleRound` | modelled, checked; its safety proved until a server verifies on two threads at once, after which it does not hold |
| 4 | `SFTRound`, `NullRound` | modelled, checked |
| 5 | `ConnectionManager` | modelled, checked; all safety properties proved |
| 6 | `RpcHandler` | modelled, checked; all safety properties proved |
| 6 | `Overlay` on top of it | modelled, checked |
| 6 | `Timer` implements `AlarmClock` | modelled, checked; the refinement proved |
| 7 | `TcpEdge`, `EdgeListeners`, `SocksConnection`, `Tunnel`, `Delivery`, `Settings` | modelled, checked |
| 8 | the cryptography, `Identities`, `Encodings`, `KeyFiles` | modelled, checked |

Left: proofs for `Overlay` and the rounds of step 4 that have none. No module of the
project declares a RECURSIVE operator, so all of them can be proved about.

## 3. The modules

Every component has a module with its state, one action per handler, and its
properties. A mutant stands before the definition it replaces: it is the code with
a plausible mistake, and shows that the property it belongs to can fail. The MC
modules hold the instances for TLC.

### The session

* `ServerSession`: the servers' session over a network with broken edges; the
  refinement mapping to `RoundService`. Its state and actions are below.
* `RoundService`: what the session layer promises a round, with no protocol in it.
* `MCServerSession`: instances that differ in their bounds, and two later states of
  the system to start from (`RunningInit`, `TornInit`).
* `ServerSessionProofs`: the proofs, section 5.
* `ClientSession`: one client and the part of each server that clients see. `c` is
  `ClientSessionSharedState` with the current state; `storage`, `todo` and `last` are
  as in `ServerSession`; `srv[s]` is the state of a server and the key that the client
  registered there; `up` and `down` are the edges, which may break at one end
  first. `Deliver` is any message to the client (ServerQueued, ServerStart,
  ServerStop, SessionData), `TakeRegister` and `FinishClientRegister` the
  registration at the server, `VerifyList` and `EnterComm` its later states: a
  ServerStart goes to every connected client of the merged list, wherever it
  registered. A stop is broadcast at once by the server that loses another
  (`BroadcastStop`, for the RoundId or for the nonce of the attempt), leaves a server
  whenever one reaches it (`LeaveAttempt`), and may come to the client by way of any
  server, once, again or not at all (`RelayStop`). `order` is the list of servers in
  the client's configuration, in any order, which a client compares with signatures
  that come ordered by Id. The servers' agreement with each other is one step here:
  it is what `ServerSession` models and proves.
* `ClientSessionProofs`: the proofs about it, section 5.

### Rounds

* `DCNetRound`: `CSDCNetRound` on `RoundStateMachine`: the states of a phase (client
  ciphertexts, lists, commits, ciphertexts, validation, cleartext), the log of
  early messages with its replay, the windows that a timer closes
  (`ConcludeClientCiphertextSubmission`), the slots of clients with the double
  buffer of messages. `node[n]` is the round object, `chan` the edges. A ciphertext
  is the set of pads in it and what is said; pads cancel as sets do under XOR.
  `GarbleSlot` is a disruptor, `CloseEdge` a broken edge. The key and blame shuffles
  are steps.
* `PhaseBroadcast`: all nodes are given one sequence of batches, each at its own
  speed. `DCNetRound` implements it.
* `DCNetRoundProofs`: the proofs about the exchange, section 5.
* `DCNetAccusation`: from the end of the blame shuffle to the verdict: trap bits,
  rebuttals, verdict signatures. `fact` is what really happened at the accused bit,
  and the accused may lie, differently to each server. The two ends of the process
  that are known to fail (below) bound what is claimed. It is checked as it is,
  without an MC module, and ends with the proofs about the verdict, section 5.
* `NeffShuffleRound`: the states and handlers of servers and clients, the tasks on
  the pool and their `Finished` signals, and the submission window. A batch is the
  set of clients whose messages are in it and the number of layers removed; proofs
  are perfect. `overlapped` remembers that a server has started a verification while
  another of its own was queued, running or about to be signalled, the defect that
  `neff_overlap` shows: from then on two threads share the server's state, and
  `SignedOutput` and `SameCleartext` say nothing more.
* `NeffShuffleRoundProofs`: the proofs about it, section 5.
* `SFTRound`: `SFTNullRound` with its message and view managers. Views are a
  constant function instead of the seeded generator. `Fail` stops a server; the
  others see `HandleDisconnect` in any order.
* `NullRound`: `Round` alone: start, stop, disconnects, the result, and the path
  through `SourceObject`, `SinkMultiplexer` and `BufferSink`, with a sink that is
  destroyed while it listens.

### The network

* `ConnectionManager`: `node[n]` is the manager, its table by id and by edge, and
  the acquirer of a server or client. An action delivers one message or signal and
  does everything that is called from it: `HandleNewEdge`, `Inquire`, `Inquired`,
  `BindEdge`, `CreateConnection`, `HandleDisconnect`, `HandleEdgeClose`, `Stop`.
  An end may break at once, later (`HandleReset`) or only be found silent
  (`EdgeCheck`). The smaller id decides between two edges. Signals that are emitted
  inside a handler are calls in its step: an operator takes the state `w` a handler
  works on (the node, what it sends, the ends it closes, the addresses it dials) and
  returns the next one.
* `RpcHandler`: `rpc[n]` holds `_requests`, `_current_id` and the callbacks. Both
  are Qt maps, where reading an absent key with `[]` inserts a null pointer. `held`
  are requests a method answers later. `Lose` drops the first message of a channel.
* `Overlay`: EXTENDS `RpcHandler` with the tree of servers and clients,
  `BroadcastHelper` and `Forward`.
* `Timer`, `AlarmClock`: the queue, its events, the Qt timers of which only the last
  is remembered, `UseVirtualTime` and `Run`; against a clock that runs what is due.
* `TcpEdge`: bytes on the wire, bytes in the socket, the readyRead signal and the
  `_connected` flag of `Read`, which puts itself off.
* `EdgeListeners`: TCP and buffer listeners, addresses, attempts and their reports.

### Data and applications

* `SocksConnection`: greeting, method, request, reply, TCP and UDP, byte by byte:
  every way to cut a script into pieces gives the same packets (`Independent`).
* `Tunnel`: the entry tunnel's connections, `_pending_conns` and `_conn_map`; the exit
  tunnel's three tables; sockets in Qt's documented states; lookups by name. The
  channel between them keeps order, which is what the session gives.
* `Delivery`: `DataQueue::Get`, `Trim` and `UnGet` under a round that takes batches of
  a limited size and may fail; `GetMessagesService` and pollers behind it.
* `Settings`: reading and writing the configuration through QSettings, which turns
  a list of one into its element and an empty list into nothing.

### Cryptography and encodings

All are models of what the code computes, over small primes and with bytes of 2
bits where the size of a field matters. Hashes and random numbers are oracles:
every value is tried, and the same argument gives the same value again. RSA and
AES are ideal boxes.

| Module | Code |
|---|---|
| `BigInteger`, `DsaKeys` | `Integer` and its bytes; DSA keys, ElGamal with framed texts, series encryption |
| `IntegerGroup`, `CppECGroup` | the two groups: elements, EncodeBytes and DecodeBytes, IsElement (`MCCrypto` has the caller of the first, so that TLC tries all inputs) |
| `KeyCaller` | a caller of keys and texts, and DiffieHellman's proofs |
| `BlogDrop` | parameters, client and server ciphertexts and their proofs |
| `BlogDropServer` | a bin: adding ciphertexts, closing, revealing, finding bad clients |
| `NeffShuffle` | one Neff shuffle with its proof, for each server in turn |
| `RingSignature` | LRSPrivateKey and LRSPublicKey: sign, verify, tags |
| `Onion` | OnionEncryptor and ThreadedOnionEncryptor |
| `KeyShare`, `Identities` | keys by name, some in files; PublicIdentity on the wire; Roster |
| `Encodings` | Serialization, bit arrays, URL-safe base 64, ids, triples |
| `KeyFiles` | Keygen that may die between its writes, and the members who read the files |

### Suites

`MCSessions`, `MCDCNet`, `MCRounds`, `MCConnectionManager`,
`MCMessaging` and `MCCrypto` each hold several instances, of one module or of
several. The variable `part` names the instance that runs; it is chosen in the
initial state and never changes. A variable name that several of the modules use is
one variable of the suite, and those that the instance of `part` does not use rest.
A property of a suite is the conjunction of
what it says for its parts, `part = "x" => X!Property`.
`MCServerSession`, `MCSessions`, `MCDCNet`, `MCRounds` and `MCConnectionManager` EXTEND
the module they are mainly about, so that the definition the run checks is the one the theorem states,
and take other bounds of the same module, and other modules, by INSTANCE.

### The servers' session in detail

#### State

| Variable | Code |
|---|---|
| `st[s]` | `StateMachine::m_cstate` |
| `data[s]` | `ServerSessionSharedState` (`init`, `rid`, `eph`, `keys`) and the maps of the current state object (`got`, `regs`) |
| `storage[s]` | `StateMachine::m_storage` |
| `last[s]` | `SessionSharedState::m_last` |
| `todo` | the messages still to be processed in the current turn of an event loop |
| `conn[s]` | the servers in `ConnectionTable`, the loopback connection to itself included |
| `link`, `chan` | working edges, and what is in flight on them |
| `initCount`, `regCount` | number the nonces and client keys, which the code draws at random |
| `over`, `signed`, `reached` | history: rounds that ended, signatures made, states entered |

A RoundId is a hash of the ServerEnlists; the model represents it by what is
hashed. Signatures are represented by the name of the signer in the message, and
`signed` records who really made one. A ServerVerifyList signs a hash of the
serialised list only, which the model keeps: `RegisterList` of an empty list is
the same for all rounds.

#### Actions

`StoreMessage`, `ProcessInit`, `ProcessEnlist`, `ProcessEnlisted`,
`ProcessAgree`, `ProcessRegister`, `ProcessList`, `ProcessVerifyList`,
`ProcessStop` and `Drop` are what `StateMachine::ProcessData` does with one
message. `FinishClientRegister` is the registration timer, `RoundFinished` the
`Finished` signal of the round, `Start` is `Session::OnStart`. `NewEdge`,
`BindEdge`, `ReceiveConnect`, `ReceiveClosed`, `Receive` and `ForwardedData` are
the network; `BreakEdge` and `Register` are the environment.

An action covers a whole handler and the `Init` of the state it leads to,
including the chain WaitingForServers, Init, Enlist at the proposer (`Restart`).
A turn of an event loop is several actions, one per message replayed; `todo`
holds what is left and nothing else happens meanwhile. That loses no behaviour:
another server's turn reads and writes only its own state and takes from its own
channels, so it could as well happen after.

Simplifications:

* An edge between two servers is bound only when neither has a connection to the
  other and nothing is in flight between them. The code also allows a redial to
  reach a server that has not yet seen the old edge close; it then drops the old
  connection first, which is the same as seeing it close.
* Which end of an edge sends `CM::Connect` depends on the order of random ids:
  the model allows either.
* A message for a server that is not connected goes by way of one other server;
  the code could also choose a client's connection.
* The round is external. It is taken to end by itself only after all servers have
  started it, and then ends at all of them. `Round::HandleDisconnect` ends it at
  once at a server that loses another.
* Servers do not crash: the code persists nothing, and a restarted process has
  new keys and is a new server.

## 4. The runs

| Run | Properties | Parts and bounds |
|---|---|---|
| `pair` | `TypeOK`, `CertifiedRound`, `OneRoundPerInit`, `KeyCustody`, `RosterAgreement`, `RoundOrder`, `ServiceSpec` | 2 servers, 1 client from power-up; *faults*: 1 break anywhere, 1 registration; *registers*: 1 round that ends, a client that registers twice; *restarts*: 1 break, 1 round that ends |
| `trio_torn` | `CertifiedRoster` | 3 servers that exchange their lists, a client that is in two of them with different keys; the proposer has just lost an edge, with or without what was on it, and no new one is made |
| `sessions` | `RosterOfRound`, `KeyInRoster`, `StartIsHeeded`, `FormsRound`, `JoinsEveryRound` | a client with 2 servers and 2 attempts: *faults*: 1 break, 1 stop, the servers listed by Id; *joins*: no break, the servers listed in any order, and registration waits for the client; *forms*: 3 servers, any order of start-up; *reforms*: 2 servers, 2 clients, a round that ends; *recovers*: 2 servers in a round, 1 break, 1 registration |
| `dcnet` | `PadsCancel`, `SameCleartext`, `CommitBeforeReveal`, `InOrder`, `BroadcastSpec`, `WideWindowsDeliver` | 2 servers with a client each; *late*: 2 windows that close early, 6 phases; *noise*: 1 garbled slot, 1 early window, 5 phases; *leave*: 1 closed edge, 1 early window, 3 phases; *delivers*: no fault, 5 phases |
| `accusation` | `OneVerdict`, `VerdictReached` | 2 servers, 2 clients, 2 lies, the fault at every place |
| `rounds` | `SignedOutput`, `SameCleartext`, `OneText`, `NoStall`, `AllEnd`, `ViewsConverge` | *shuffle*: 2 servers, 2 clients; *trio*: 3 servers, 1 client, both until verifications overlap; *pair*: SFT with 2 servers, 4 exchanges, 1 failure; *views*: SFT with 3 servers, 4 views, 1 failure; *open*: null round, 2 clients, 1 server, 1 lost edge |
| `connections` | `TableConsistent`, `EndsAgree`, `Connects` | *pair*: 2 servers, 4 edges, 2 breaks, 1 refusal, a stop; *self*: they also dial themselves, 3 edges, 1 break; *servers*, *client*: 3 edges, 1 and 2 breaks, of bound edges only. Safety is checked in all parts, `Connects` in the last two |
| `messaging` | `RightAnswer`, `HeardOnce`, `AlarmSpec`, `EventsRun`, `Faithful`, `Arrives` | *rpc*: 2 nodes, 3 ids, 1 lost message; *tree*: 3 servers, 2 clients, a broadcast, a request, a notification; *events*: 3 events, one tick; *once*: 2 events, two ticks of real time; *edge*, *reads*: messages of 3 bytes and of none; *dials*: 3 listeners, 2 attempts; *socks*: 12 scripts, 3 packets down; *tunnel*, *data*, *calm*: a TCP and a UDP connection; *deliver*: batches of 25 bytes, 2 rounds that fail; *settings* |
| `crypto` | `ComesBack`, `HonestPass`, `OneChallenge`, `Opens` | *group*, *bytes*: p = 227, 2063; *curve*: field of 4093, strings of up to 3 bytes; *elgamal*, *hashing*: p = 11, any hash, but for an ElGamal client one constant; *bin*, *phases*: up to 2 servers and 2 clients; *raw*, *padded*: p = 67, 2039; *shuffle*, *shuffles*: 2 messages and a server, 3 messages and 3 servers; *ring*: up to 3 members; *onion*: 2 layers, 3 clients; *names*, *ids*, *utils*, *files* |

Three more runs each find a property violated: `stop_ignored`,
`accusation_culprit` and `neff_overlap` (2 servers, 2 clients, the shuffle beyond the
overlap), see "Disagreements".

### What they show

* A round that a server runs has every server's signed agreement on its servers,
  keys and clients, whatever breaks, stops and restarts came before. A broken edge
  at any point already gives every cut of every channel and every order in which
  the two ends notice.
* A client runs the list that the servers signed for its round, although ServerStart
  names none. It heeds the ServerStart of its round exactly if its configuration
  lists the servers by Id, and then it joins every round.
* A DC-net phase gives all servers the same cleartext with all pads cancelled even
  if each closes its window when it likes; a garbled slot is sent again, in order.
  Two late windows are enough for a client to be late at one server and in the
  next phase at another; six phases are enough to open a slot, send, lose, resend
  and be heard.
* An accusation ends with one verdict at all, or none; the accused cannot make
  servers end with two. While the accused has not lied it does end, once the blame
  shuffle has given an accusation to all.
* Shuffles end with all signatures and the same texts for every order of arrival, up
  to the moment a server verifies on two threads at once.
* SFT servers never sum ciphers of different exchanges although they answer
  requests with lists and ciphers of a later one.
* Tables and edges stay consistent through nested signals; two servers that dial
  each other, themselves and again end on one edge.
* In the network and data layers, what arrives is what was sent, once and in order,
  for every way to cut a stream into pieces, and every failed round gives its batch
  back.
* For every value drawn and hashed in a small group, honest proofs pass and what was
  encoded comes back. A false statement fits one challenge at most, with two
  exceptions that the properties name: an ElGamal client's, whose challenge is a
  constant, and a server's ElGamal share or a Diffie-Hellman secret that is true but
  for its sign, which fit every challenge of one parity. A bin opens or blames,
  unless such a client has forged its proof, and blames no client whose ciphertexts
  were all good.

### Bounds

Bounds are CONSTANTS named `Max...`, and count events of the environment: breaks,
refusals, late windows, lies, lost messages, failures, registrations. Channels,
nonces and keys are not bounded: they stay finite because these are. Two servers
are the proposer and one that is not, or the shuffler and one that verifies; where
the third has a role of its own (votes, relays, a tree) there are three. The
smallest primes are used for which the case of interest exists: a byte array that
needs padding, one that just fits, one that does not fit the field, a digest beyond
the order of the group. No symmetry set is used; in *faults* the client's first
server is the first of the two, which nothing else tells apart.

### Fairness

The fairness `MCSessions` gives the servers is weak fairness of `System`: as long as something can
happen that needs nobody's decision, something of the kind does. The event loop,
the registration timer, the transport and the acquirers' redialling justify it; it
does not say which of several things happens. Breaks, registrations and the first
end of a round are not fair. Every run is finite up to stuttering, so this is
enough for `FormsRound`.

In the suites a part that has a liveness property has its own fairness,
`WF_xvars(part = "p" /\ Inst!Action)`, where `xvars` are the variables of that
instance only, so that a step of that instance is meant. The actions are
those of the event loop, the pool, the transport and timers: a message on an open
edge is delivered, a socket that connects connects or fails, a timer that is set
fires, a task on the pool ends, an application that has a request waiting polls.
`ClientSession` needs fairness of each kind of step on its own, because a client's
retries could otherwise keep a server from its turn. No part assumes that an edge
stays whole except by its bound, that users act, or that a peer is honest.
`FormsRound`, `JoinsEveryRound`, `WideWindowsDeliver`, `HeardOnce` and parts of
`Arrives` and `AllEnd` are stated for parts without faults or with the faults named in the table:
with others the code does not promise them (see below).

Deadlock is not checked: a group whose round is over, or whose bounds are used up,
may rest. Where a system must not come to rest, `NoStall` or a liveness property
says so.

### Disagreements

Three runs check a sentence of the documentation and find it violated.

* `stop_ignored`: a ServerStop is remembered before it is checked
  (`SessionSharedState::DefaultHandleServerStop`), so the copy that the proposer
  redistributes is taken for a repeat.
* `accusation_culprit`: `CSDCNetRound::HandleRebuttal` tests the index of the server
  that a rebuttal names the wrong way round and convicts the client.
* `neff_overlap`: nothing sets `verifying` in `NeffShuffleRound`, so a shuffle that
  comes during a verification starts a second one, and both complete a state.

The following were met while modelling. The models follow the code; where a
property would fail because of one of them, the property is stated for the parts
of the behaviour that do not reach it.

Session:

* The next ServerInit can overtake a server's own ServerStop, which travels on its
  loopback edge (`DefaultHandleDisconnection`). Schedule: server S loses its edge to
  the proposer, sends itself a ServerStop and redials; the proposer, which
  restarted already, sends ServerInit on the new edge; S, still in its old state,
  drops it; then S takes its stop. The group waits for ever.
* `CommState::HandleDisconnection` tells nobody: a third server stays in the round
  for good. This and the last are why `FormsRound` claims recovery for a break
  while a round runs between two servers, and not for a break at any time.
* A client in two ServerLists is merged in the order of arrival
  (`ListExchangeState::ProcessPacket`): the servers sign different lists and wait in
  VerifyList.
* A client that registers again after a reconnection has a new key and the server
  keeps the first (`RegisteringState::ProcessPacket`); hence `KeyInRoster` is stated
  without breaks.
* A client whose ClientRegister comes after the registration timer stays in
  Registering, where the next ServerQueued is dropped, until a stop comes.
* The client checks the i-th signature of a ServerStart with the key of the i-th
  server of its configuration (`Registering::ProcessPacket`), the servers send them
  ordered by Id (`CommState::Init`), and nothing but a test sorts a configuration
  (`Tests/OverlayTest.cpp:16`). With one that is not sorted a client refuses every
  ServerStart; hence `StartIsHeeded` says "exactly if" and `JoinsEveryRound` is stated
  for a sorted one.

Rounds:

* `slot_open` is set when the opening bit is sent (`CSDCNetRound.cpp:1005`), not when
  it is seen: after a late opening the client writes into a slot nobody else has.
* Packets of the blame shuffle carry a header that the dispatch does not know
  (`CSDCNetRound.cpp:332`), so a round that starts it never leaves it. The phases
  behind it are checked on their own in `DCNetAccusation`.
* `GetRebuttal` generates a block that is a byte short when the accused bit is the
  first of its byte, and reads the byte after it. `PushVerdict` looks the culprit
  up in the roster of servers even if it is a client.
* SFT: how many ciphers to wait for is taken from the live servers when a cipher
  comes (`SFTMessageManager.cpp:550`). If a server is lost between the lists and the
  ciphers, pads of its clients stay in the result; hence `pair` has the failure
  that ends the round, and `OneText` does not claim what it decrypts with three
  servers.
* Null round: an empty text leaves no trace, so a second packet of that client would
  be counted.

Network:

* RPC: reading `_requests` or `_callbacks` with `[]` for an unknown id or method
  inserts a null entry. A request for a method that is not there yet makes the
  later `Register` of it fail.
* Overlay: a relayed broadcast is handled under the id of the relay's own
  notification, so a failed response to it could meet another request of the source.
* ConnectionManager: an edge that is lost before it is bound is not reported as a
  failed attempt, so no acquirer dials again; hence `Connects` is stated for breaks
  of bound edges.

Data and applications:

* DataQueue: an empty last message of a batch is dropped by `offset + 8 < size`; the
  batch in a slot is lost when the round fails; a message longer than a round ever
  asks for is dropped without a word. `Faithful` speaks of the others (`Fit`).
* Exit tunnel: it never tells the application that the host closed; FINISHED during
  a lookup is forgotten and the exit connects later; a refused connection leaves
  its entry; a write to a socket closed while connecting is lost; the UDP buffer is
  kept after a failed lookup and merges datagrams; `Stop` leaves `_running` set.
* Entry tunnel: `Stop` leaves pointers in `_pending_conns`.
* SOCKS: names longer than 127 bytes are refused, because the length is a signed
  char; a greeting with no methods is answered only at the next byte. On a UDP
  channel `HandleConnected` closes the connection and goes on: it reads nothing more
  where closing a socket drops what was not read, which is what the model takes Qt to
  do even if a reply is still unsent.
* Settings: an empty `LocalIds` list is read back as one empty Id, and a list of
  private keys from an ini file as one empty string.
* `AsymmetricKey::Save` ignores a short write and returns true.

Cryptography:

* `ElGamalClientCiphertext::Commit` calls `ComputeHash` twice (lines 319 to 322) and
  returns the second, and `HashImpl::ComputeHash` starts anew with each: the
  challenge is the hash of nothing, whereas the comment at line 119 says
  `h = H(gs, ys, ts)`. Anyone can make a proof that fits it.
* `ElGamalServerCiphertext::VerifyProof` (line 132) refuses an illegal element only
  together with an illegal key, and `DiffieHellman::VerifySharedSecret` tests none:
  what is true but for its sign passes for half of the challenges.
* `BlogDropServer::AddClientCiphertexts` looks for culprits among the first of the
  list only, as many as are valid so far (line 72): a bad ciphertext at the end is
  refused and nobody is named. With more in the bin than in the list it reads beyond
  the list's end.
* `IntegerGroup::GetGroup`: `PRODUCTION_2048` falls through to the next case.
* `CppECGroup`: the longest string that `EncodeBytes` accepts may be beyond the prime.
* `DsaPublicKey::Encode` takes a raw string for a number and so loses its leading
  zero bytes (line 29); the texts of *raw* begin with none. `Decode` strips the frame
  off raw elements that start and end with 0xff; `Equals` and `VerifyKey` compare the other's subgroup with itself.
* `DiffieHellman`: the proof hashes fixed-width commitments and verifies minimal
  ones, so an honest proof with a leading zero byte (1 in 128) is refused.
  `HonestPass` leaves these numbers out by name.
* `CryptoRandom::GetInteger` is documented as `[min, max)`; Crypto++ includes `max`.
* `NeffShuffle`: an honest proof fails if `t` meets an exponent or gamma is 0.
* `DsaPrivateKey::SeriesDecrypt` compares bytes with bits in a guard on the size.
* Ring signatures: a signer that is not in the ring has index -1; a ring of one is
  refused when read; a context whose hash is a multiple of q makes all tags equal.
* KeyShare: adding a key twice lists the name twice; keys read lazily are not
  iterated; `GetKey` returns a key from an invalid file.
* Identities: a PublicIdentity without a key is misaligned on the wire; an empty key
  is read back as a newly generated one; a key of type LRS as none.
* OnionEncryptor: an empty message is reported as bad; with one key the
  intermediate includes the last layer.
* Serialization: `ReadBitArray` of 0 bits writes 8 bits past an empty QBitArray;
  `Random(seed)` reads past a seed whose length is not a multiple of 4.
* An invalid private RSA key's `GetByteArray`, and `AsymmetricKey::VerifyKey` with an
  invalid key, dereference null.

## 5. The proofs

For every set of servers and of clients and all bounds:

| Theorem | Says |
|---|---|
| `ServerSessionProofs`: `TypeCorrect` | `Spec => []TypeOK` |
| `RoundIsCertified`, `RosterIsCertified` | `Spec => []CertifiedRound`, `Spec => []CertifiedRoster` |
| `RoundsInOrder` | `Spec => RoundOrder` |
| `OneRound` | `Spec => []OneRoundPerInit` |
| `RostersAgree` | `Spec => []RosterAgreement` |
| `ImplementsService` | `Spec => ServiceSpec` |
| `KeysAreHeld` | `Spec => []KeyCustody` |
| `ClientSessionProofs`: `RunsSignedRoster` | `Spec => []RosterOfRound` |
| `OwnKeyInRoster` | `Spec => []KeyInRoster` |
| `StartsAreHeeded` | `Spec => StartIsHeeded` |
| `DCNetRoundProofs`: `SynchronyInvariant`, `AgreementInvariant` | the inductive invariants below |
| `CommitFirst` | `Spec => []CommitBeforeReveal` |
| `OneCleartext` | `Spec => []SameCleartext` |
| `CleartextsAreClear` | `Spec => []PadsCancel` |
| `Broadcasts` | `Spec => BroadcastSpec` |
| `MessagesInOrder` | `Spec => []InOrder` |
| `DCNetAccusation`: `VerdictsAgree` | `Spec => []OneVerdict` |
| `ConnectionManagerProofs`: `TablesAreConsistent` | `Spec => []TableConsistent` |
| `TheEndsAgree` | `Spec => []EndsAgree` |
| `NeffShuffleRoundProofs`: `OutputIsSigned` | `Spec => []SignedOutput` |
| `TextsAgree` | `Spec => []SameCleartext` |
| `RpcHandler`: `AnswersAreRight` | `Spec => []RightAnswer` |
| `Timer`: `ImplementsAlarmClock` | `Counting` gives `Spec => Alarm!AlarmSpec` |

Assumptions on the constants, each in the module that declares them:

| Assumption | Why |
|---|---|
| `ServerAssumption` | the proposer is a server, and the configuration lists finitely many; in `ClientSession` Ids are numbers above 0, as the code orders them and 0 is nobody's |
| `ClientAssumption` | no client is a server |
| `BoundAssumption`, `AttemptAssumption` | bounds are natural numbers |
| `Counting`, in the theorem | events are numbered from 1 as `_uid_count` numbers them, and times and periods are not negative, as all callers of `Timer::QueueCallback` ask for them |
| `SizeAssumption` | there is a server; clients may be none |
| `IdAssumption` | nodes are numbered by their ids, which the code compares, and `Id::Zero` is nobody's; what a node dials are addresses of nodes |
| `SlotAssumption` | the edge of the loopback connection is not one of the network's |
| `CountAssumption` | a shuffle has at least one server |

The DC-net exchange needs none.

### Servers: `ServerSessionProofs`

**Signatures.** The invariant `Inv` types every variable
and adds two things. All mail, on an edge, stored or being processed, is
*authentic*: a ServerAgree or a ServerVerifyList in it has been signed by the
server it names. And what a server has *collected* in its current state is signed:
in Agree the ServerAgrees of those in `got`, from Registering on the agreement of
all, in VerifyList the list signatures of those in `got`. Both are needed:
`CertifiedRound` speaks of states that are entered from Agree, and the messages
counted there may have been stored states or attempts earlier. There is one lemma
per action; `GotoRunning`, `StayInv` and `RestartRunning` say what any state
change, non-change and restart preserve, and `SentType` and `Sends` that sending
keeps channels authentic.

**Order.** Signatures alone do not give agreement: a server that
went through the same round twice could sign two lists for it. `OrderInv` says why
none does. The ServerInits on their way to a server (those in `m_storage`, then the
rest of the turn, then its edge from the proposer) are numbered upwards, and all
are newer than the one it has and than any round it has entered (`Orderly`). This
rests on three facts about the code: only the proposer makes a ServerInit, and it
makes one only when connected to every server, so that it never goes by a relay
(`Direct`); edges are FIFO and a break cuts off the end; and a state change
replays the stored messages before anything newer. The lemmas `Orderly...` prove
that handling, storing, replaying, sending, receiving and cutting keep the order.

**History.** `HistoryInv` follows from the order: a server enters
Agree once for a ServerInit (`OneAgree`) and VerifyList once for a round
(`OneList`); what it signs there is what it entered the state with (`RoundsSigned`,
`ListsSigned`). Two servers that take registrations for one ServerInit both have
the proposer's agreement, which is for one RoundId. Two that run one round have
each other's signature on their list; a non-empty list names its round, so it is
the one list the other signed for that round, and two empty lists are equal.

**Refinement** (`StepService`). A server that enters Communicating begins a round
of `RoundService` (the roster condition is `RosterAgreement` after the step, the
order condition comes from `HistoryInv`), one that leaves it ends one, and every
other step leaves `running` and `rosters` alone.

**Keys.** `KeyCustody` says that a server which has agreed on a round still has the
private half of the key that the others took into the RoundId. What could go wrong
is a ServerEnlist of an attempt that the server has given up: it restarts and makes
another key, and the old message is still on its way or stored. `Holds(t, n, k)`
says that this is harmless: if server t still works on the ServerInit numbered n
its key is k, and every ServerInit on its way to t is newer than n, so that it will
never take n up again. `KeyInv` says that every ServerEnlist and ServerEnlisted
under way, and every key a proposer has collected, is of this kind (`Truthful`).
The order of ServerInits above is what makes `Holds` true of a new key (`OwnKey`)
and every step keeps it (`HoldsNext`). The packets are handled once for all
actions: `NextIn` says that after a step everything under way is either what was
there or one of three kinds of new packets (`Admits`).

### Clients: `ClientSessionProofs`

A ServerStart names no round, so a client takes the first that comes for the one it
registered for. The invariant says why that is right.

* `InOrder`: what the servers have sent the client and it has not handled (first
  the stored messages, then the rest of the turn, then those on the edge) is in the
  order of the attempts and about none before the one it registered for (`Chain`).
  It survives because a state change replays what was stored before anything newer,
  and because of `OneConnection`: messages come over one edge at a time, and the
  last one of a broken edge has come before the client makes another.
* `Frozen`: once a server has signed the list of an attempt, it does not change any
  more; a ServerStart under way has that list (`Messages`).
* `ServersInStep`: no list is signed before all servers have made theirs, no key is
  taken after that, and a key that a server has taken in this attempt is the one that
  the client made for it.
* `OfferedOnce`: while no edge has broken an attempt is offered once, so that the
  client makes one key for it (`KeyInRoster`; after a break it is not true, see
  "Disagreements").

`StartsAreHeeded` then needs two facts: a ServerStart on its way has the signatures of
all servers by Id (`MessageKinds`), and the client's test of the i-th signature with the
i-th server that it lists comes out true exactly if it lists them by Id
(`SignedMeansById`). Nothing is assumed of the order in the configuration.

TLC found the first form of `ServersInStep` not to be inductive: a server that
stopped in Agree keeps the key of the attempt before, until it registers again.

### The exchange: `DCNetRoundProofs`

**Moves.** A handler may replay logged messages and go through several states, so
the proof first takes the handlers apart: one event at a node is a sequence of
*moves* (`HearsList`, `Commits`, `Reveals`, `Signs`, `NextPhased`, ...), each of
which hears one message or changes the state once. Everything is then proved by
move.

**Synchrony.** The invariant says of each server what its state implies of the
others (`Lockstep`): in WAIT_FOR_SERVER_CIPHERTEXT all have committed, in
WAIT_FOR_SERVER_VALIDATION all have revealed, a phase begins when all have signed
the one before; what it has of the others is what they sent, as long as they are in
its phase. And it says of each message, on an edge or in a log, what it says of its
sender (`Said`): a ciphertext under way means that all have sent their commits. It is
inductive because servers go forward only and keep what they have said (`Grows`).
`CommitBeforeReveal` is `Said` for ciphertexts. `SameLists` and the ciphertexts in
hand give `SameCleartext`.

**Pads.** XOR is its own inverse, so what is in the sum of some byte arrays is what an
odd number of them hold (`XorAll`): the proof needs no induction over the sum, only
to count who holds a pad (`Parity`). What a server reveals is in the invariant: the
pads it shares with the clients on the list, but for those that came in a client's
ciphertext, which it has taken out, and the pads that these clients share with the
other servers, which it has put in (`Shares`). So the pad of a client c with a server
v is in the share of v and in that of c's own server if these are two, and in
neither's if they are one; either way it is gone from the sum (`SharesCancel`).
The sum is right only if all servers computed their shares for one list of clients,
and that is what `Synchrony` is for: `Veiled` says that what a server has computed, has
been sent, or has on its way or in its log is the sender's share for the list they all
have, as long as all are in that phase (`ShareOf`). That a client's ciphertext
has exactly its pads with every server, of the phase that it names, is part of the
moves (`Masked`, `Padded`): a ciphertext of another phase is logged or dropped. Nothing
is assumed of `Home`, which clients are on time, or the slots' contents. The
lists do not change once they are exchanged, and phases only grow, hence a server that
has left the phase does no harm (`ShareKept`).

**One story.** For the refinement the invariant adds that there is one sequence of
cleartexts, with the slots and outputs that follow from each (`Story`): each
node is somewhere along it, and each cleartext under way is the one of its phase. A
server that is first to compute a cleartext makes the sequence longer, and the
others can only come to the same one. A node that is given a batch therefore extends the
sequence of `PhaseBroadcast` or reads on in it.

**Messages in order.** A client keeps the message that it wrote last, the one to write
next, and whether it has read a cleartext since its slot opened; it writes the last
one again if the slot was lost or garbled. `InOrder` asks for more than
agreement: what is given must fit what the client remembers, and the two are
phases apart, with servers between them. The invariant `Delivery` adds to
`Synchrony` and `Story` that the exchange is `Tracked`:

* `Remembers`: while its slot is not open, or opens with this phase, nothing of the
  client was given. After that (`Numbered`) the last message is none or the one after
  all that were given (`Total`), and the next follows it. A client that can prove that
  its slot was garbled accuses from then on, which is not a message.
* `Genuine`: every bit for a slot or for the opening of one that a server has, or that
  is under way, or in a cleartext of the story, is what its client wrote in that phase
  (`OwnBits`), and carries no message, or the first that was not given then, or an
  accusation. It stays so because noise adds no data to a slot (`GarbledFrom`), servers
  put into a share only what came from clients in this phase (`Relays`), and a
  cleartext is the sum of the shares that were sent (`SignsReal`). A bit of a client
  that has left the phase is one that is never written again.

So the next cleartext makes the batches longer by a message that is due or by none
(`OrderAfter`), and the client finds in it its own slot, or nothing: `MemoryPasses`
goes through what it can do with either. The ordinal in `InOrder` is a cardinality of the
batches so far, so it needs no induction over them.

### The verdict: `DCNetAccusation`

A server that has signed a verdict keeps it: the states behind are
WAIT_FOR_VERDICT_SIGNATURE and FINISHED, and both leave `blame` and `bad` alone.
Hence a signature, collected or under way, is true for ever (`Truth`), a verdict that
has every server's signature is the one of every server, and whoever ends with one
ends with that. Nothing is assumed of the rebuttals, so the accused may lie
differently to each server.

### The connection manager: `ConnectionManagerProofs`

A handler calls others before it is done: closing an edge emits a signal, its slot
disconnects whatever connection the id has now, that closes another edge, and an
acquirer may dial in between. So the proof has two layers.

**Inside a handler.** `Good(n, D, w)` says of the state w that node n works on what the
properties say between handlers: the table is one set of connections on open edges
(`Table`), and the active addresses are those it dials or has dialed, each once
(`Watch`). Every operator that may be called has a lemma: given `Good` it returns
`Good`, and it changes no more than it may (`Same`, `Closed`, `Created`, `Effect`, `Reply`).
Between the two slots of a closing edge the table is not consistent, as the edge is
gone and the connection is not; `Halfway` and `Cleared` say what is true then, and
`CloseGood` that both orders in which a connection leaves the two tables end in `Good`.
`BindGood` is where a duplicate edge is refused, `ConnectGood` where an old
connection gives way to the one the smaller id has chosen.

**Between nodes.** The tables of one node do not say that the other end agrees; the
invariant `Talk` does, by what is on its way. A connection is under the id of the node
at the other end (`Peers`), ids in messages are those of their senders and only the
smaller id says Connect (`Honest`); who has said it has the connection for as long as
the word is on its way (`Decided`), and an end with a connection whose other end is
open has been answered or has a Connect on its way there (`Awaited`). The last two are needed
together: when the larger id binds because of a Connect, the other end is bound by
`Decided`; when the smaller one binds, its Connect is on the way. `TalkStep` shows once
that a handler which is `Lawful` and whose messages are `Delivered` keeps all four, so that
each action only has to be shown lawful. At rest nothing is on its way, and `Awaited`
is `EndsAgree`.

`TableConsistent` needs no assumption on how edges break, which dials are refused or who
stops, and ids may be any numbers. A first form of `ActiveAccurate` counted the active
addresses; the form with one outbound edge per address says the same without
cardinalities and is what the proof is about.

### The shuffle: `NeffShuffleRoundProofs`

Nothing is assumed of schedules, of how late clients are, or of `Home`. The theorems
hold from the start of a round to the moment, which need not come, at which a server
starts a verification beside one of its own (`overlapped`). After it two threads
share the server's state and nothing is claimed: the run `neff_overlap` shows what
happens. So the invariant is `Inv == ~overlapped => IInv`; what has overlapped has
overlapped (`OverlapStays`), and a step that does not overlap keeps `IInv` (`Keeps`).
Shuffles may come in any order, and while a server verifies: those that do not
complete a row of proofs, or come before their state, start no task and are kept
(`MessageWorks`, for channels and logs alike; `Mail` is what its sender has made).

A batch says which clients are in it and how many layers are gone, so the right text
of the round after k turns is known from what the first server collected: `Text(M0,
k)`. The invariant says of every server, by its state, what it has at hand.

* `Works`: there is one task or one signal at most, the one that the state waits for.
  While it is collecting shuffles a server either has verified to its `end`, or has one
  verification, which stands between `vidx` and `end` and holds the text of its index.
* `Place`: how far it has come. Up to `end` it has all shuffles; before its turn `end`
  is not beyond its own number, in its turn it is its number, and a server that
  goes on to sign has verified all N.
* `Holds`: what the next verification starts from is the text of `vidx`, and the
  cleartext, once all is verified, is that of N layers.
* `Proved`, `Boxes`: a shuffle that a server has, or that is on its way, is what its
  sender must have made in its turn, and the sender has had its turn. What clients are
  sent and hold are the signed text.

M0 still grows while the first server collects, which changes what the others are
measured by. That is harmless because until the first server has shuffled nobody has
a shuffle (`SentFirst`), and for who has none the invariant does not speak of M0
(`LocalOther`). `VerifyShufflesDone` completes a state only when `end` is the server's own
number or N: `Place` says in which state it then is, which is where two overlapping
verifications would complete a second one. A handler is an expression over a record of
six fields; the lemmas `...Leaves` say once what each clause of `StateComplete` makes of
it, and `Result` what any handler may leave. The greatest index without a gap
(`EndOf`) exists by the well-ordering of the numbers (`LeastNat`).

In the model a handler puts a message that its state does not take into the log before
it looks at its type, as the dispatch does. An earlier form had both as alternatives of
one CASE, whose guards overlapped, so that it said less than the code.

### Requests: `RpcHandler`

An id is an index into `_requests` and all that an answer says of its request, and
`HandleResponse` inserts a null entry for one that it does not know. The invariant
says why no answer is taken for another: ids are not used again, a caller knows an id
only if it has given it out (`Table`), and a message on its way asks with an id its
sender has given out or answers one (`Asks`, `Answers`, `Holding`). The answer to a
notification, the one kind that nobody waits for, has an id that never waits. An id
that does not wait will not (`Grows`), so what is on its way stays what it was when a
request is completed, cancelled or times out before its answer, which may come at any
time after. A timer belongs to an entry that is not null, since both go at once
(`Forget`), and a null entry takes the place of an absent one only.
The model counts without a limit, as `MaxId` may be any number; `_current_id` is an int
of the program and would come back to its first ids after 2^32 messages.

### The timer: `Timer`

An alarm of `AlarmClock` is an event in `_queue` that is not stopped. The invariant
(`Sane`) says that what is queued has been made, and that only what has been made
has run; so an event that a callback queues has not run before. `TopIsFirst` says that
the queue's order has a first event whenever it is not empty. `Called` says what calls
can do to a queue, in callbacks or not: stop events, and add one that is due now or
later. `RungWaits` says that after `TimerEvent::Run` has moved the event to its next
time, and before its callback, the queue with that event put back is what
`AlarmClock` has after the alarm rang; `BackIs` that putting it back after the
callback, as the code does, comes to the same, whatever the callback queued or stopped,
itself included. A stopped event that is taken out is a step nobody sees
(`SilentRun`). The Qt timers do not occur: when they fire decides only when `Run`
is called, so that one that was forgotten or killed by another's id does no harm to
safety, and `EventsRun`, that some timer is left, stays with TLC.

### What stays with TLC

* Liveness (`FormsRound`, `JoinsEveryRound`, `WideWindowsDeliver`, `VerdictReached`,
  `ViewsConverge`, `Connects`, ...) and whatever needs ENABLED.
* The algorithms (cryptography, encodings, SOCKS): what they compute for every input
  is induction over data.
* `Overlay`, the null round, SFT, the tunnel, edges and settings: only checked. So is
  `EventsRun`, that the timer's events do run: it is liveness.

## 6. What is not modelled

* `Broadcaster` and `Forwarder`: older copies of `Overlay` that nothing constructs
  (`Forwarder::Forward` also dereferences the null connection that it warns about).
* `Node`, `SessionFactory`, `AuthFactory`, `Application.cpp`: they construct the
  objects that the other modules model and keep no state of their own;
  `CommandLine` refers to classes that are gone.
* `Logging`, `SignalCounter` (but for its count in `NullRound`), `StartStopSlots`,
  `Triggerable`: helpers without behaviour that a property could be about.
* Addresses, edge factories and the null edge: constructors.
* The HTTP server and the services for files, echo and the directory: I/O. The
  executables of the solo tunnel: they construct `Tunnel`'s objects.
* Vendored code (`ext/`), tests and examples.
* RSA, AES and hashes, beyond being ideal: the code calls Crypto++.

In the models, edges keep the order of messages and lose them only when they break;
signatures cannot be forged; nodes do not crash and come back, since only keys and
configuration are persisted (`KeyFiles`, `Settings`).

What is proved is section 5: everything else is model-checked only.
