---------------------------- MODULE MCMessaging ----------------------------
(*****************************************************************************)
(* Requests between two nodes with answers that are lost, late or fail;      *)
(* broadcasts and forwarded messages among three servers and two clients;    *)
(* the timer with events that queue and stop each other; and the ways of     *)
(* data: edges and their listeners, SOCKS connections, the tunnel, the send  *)
(* queue with those who listen, and the configuration file.                  *)
(*****************************************************************************)
EXTENDS RpcHandler, TLC

CONSTANTS A, B, C, x, y

VARIABLES
  part,   \* the instance that is checked
  todo, heard, now, real, queue, ev, made, qt, next,
  running, ran, wire, socket, ready, slot, sent, pushed, pings, edge, signals,
  _local_address, life, _valid, _el_map, calls, reports, script, pos, conn, up, out,
  peer, udp, down, _running, _pending_conns, _conn_map, dying, upward, downward,
  _conn_id_to_entry, _sock_to_entry, _dns_lookup_to_entry, buffer, port, said, replied,
  got, m_queue, m_trim, round, next_msg, flight, fails, m_message_list, m_pending,
  polls, exited, stored, read

pvars ==
  <<part, rpc, held, wanted, chan, lost, todo, heard, now, real, queue, ev, made, qt, next,
    running, ran, wire, socket, ready, slot, sent, pushed, pings, edge, signals,
    _local_address, life, _valid, _el_map, calls, reports, script, pos, conn, up, out,
    peer, udp, down, _running, _pending_conns, _conn_map, dying, upward, downward,
    _conn_id_to_entry, _sock_to_entry, _dns_lookup_to_entry, buffer, port, said,
    replied, got, m_queue, m_trim, round, next_msg, flight, fails, m_message_list,
    m_pending, polls, exited, stored, read>>

Tcp(n) == [type |-> "tcp", id |-> n]
Buffer(n) == [type |-> "buffer", id |-> n]

\* Greetings and requests of SOCKS applications, and datagrams.
Methods == <<5, 2, 1, 0>>
Scripts ==
  {<<5, 0, 5>>, <<5, 129, 5>>, <<4, 1, 0, 5>>, <<5, 1, 2, 7>>}
  \cup {Methods \o r : r \in {<<5, 1, 0, 1, 9, 8, 7, 6, 1, 2, 65, 66, 67>>,
          <<5, 1, 0, 3, 2, 104, 105, 0, 80, 65, 66>>, <<5, 3, 0, 3, 0, 1, 1, 65>>,
          <<5, 2, 0, 1, 1, 1, 1, 1, 2, 2, 3>>, <<5, 1, 0, 3, 130, 1, 1, 65>>,
          <<5, 1, 0, 3, 255, 1, 1, 65>>, <<5, 1, 1, 3, 0, 1, 1, 65>>, <<5, 1, 0, 2, 0, 1, 1, 65>>}}
Datagrams ==
  [peer : {"p", "q"},
   bytes : {<<0, 0, 0, 1, 1, 1, 1, 1, 0, 5, 6>>, <<0, 0, 1, 3, 0, 0, 0>>, <<0, 0, 0, 3, 5, 0, 0>>}]
Hosts ==
  {[address |-> 1, host |-> <<9, 9, 9, 9>>, port |-> 65535],
   [address |-> 3, host |-> <<104, 105>>, port |-> 80]}

\* Configuration files, and options of a command line.
Text(v) == [kind |-> "text", is |-> v]
List(v) == [kind |-> "list", is |-> v]
Files ==
  {<<>>,
   "endpoints" :> Text("tcp://a") @@ "leader_id" :> Text("l") @@ "local_id" :> Text("i"),
   "endpoints" :> List(<<"tcp://a", "bad", "tcp://b">>) @@ "local_id" :> List(<<"i", "j">>)
     @@ "web_server_url" :> Text("http://a") @@ "exit_tunnel_proxy_url" :> Text("http://a")}
Options ==
  {<<>>, "console" :> Text("true"), "exit_tunnel" :> Text("true"), "local_nodes" :> Text("2"),
   "remote_peers" :> List(<<"tcp://c">>), "remote_peers" :> List(<<"tcp://c", "tcp://a">>),
   "remote_peers" :> List(<<"bad">>), "web_server_url" :> Text("bad")}

Tree == INSTANCE Overlay WITH
  Node <- {A, B, C, x, y}, Caller <- {},
  Method <- {"CS::Broadcast", "RF::Data", "ping", "m"},
  Initial <- {"CS::Broadcast", "RF::Data", "ping", "m"}, MaxId <- 12, MaxLost <- 0,
  Server <- {A, B, C}, Link <- {{A, B}, {A, C}, {B, C}, {x, A}, {y, B}}, Late <- {},
  Speaker <- {y}, Asker <- {<<A, C>>}, Writer <- {<<x, B>>}
Events == INSTANCE Timer WITH
  Event <- {1, 2, 3}, Delays <- {0, 1}, Periods <- {0, 1}, MaxTime <- 1
Once == INSTANCE Timer WITH
  Event <- {1, 2}, Delays <- {0, 1, 2}, Periods <- {0}, MaxTime <- 2
Edge == INSTANCE TcpEdge WITH
  Letters <- {<<7, 0, 7>>, <<>>}, Speakers <- {1}, Limit <- 2, MaxPings <- 1,
  Piece <- {1, 5}, Breaks <- TRUE
Reads == INSTANCE TcpEdge WITH
  Letters <- {<<7, 0, 7>>, <<>>}, Speakers <- {1}, Limit <- 2, MaxPings <- 1,
  Piece <- {1, 5}, Breaks <- FALSE
Dials == INSTANCE EdgeListeners WITH
  Listener <- {1, 2, 3}, Wanted <- <<Tcp(0), Buffer(1), Buffer(0)>>,
  Target <- {Tcp(2), Tcp(65536), Buffer(1)}, Attempt <- {1, 2}, FreeId <- {1, 2}
Socks == INSTANCE SocksConnection WITH
  Scripts <- Scripts, Datagrams <- Datagrams, Responses <- {<<7>>}, Hosts <- Hosts,
  Binds <- BOOLEAN, MaxDown <- 3
Net == INSTANCE Tunnel WITH
  Conn <- {"a", "u"}, Wire <- [a |-> "tcp", u |-> "udp"], Named <- {"a", "u"},
  MaxData <- 1, Faults <- {"close", "dns", "refuse", "discard", "timeout", "stop"}
Data == INSTANCE Tunnel WITH
  Conn <- {"a"}, Wire <- [a |-> "tcp", u |-> "udp"], Named <- {"a", "u"}, MaxData <- 2,
  Faults <- {"close", "dns", "refuse", "discard", "timeout", "stop", "solo"}
Calm == INSTANCE Tunnel WITH
  Conn <- {"a", "u"}, Wire <- [a |-> "tcp", u |-> "udp"], Named <- {"a", "u"},
  MaxData <- 1, Faults <- {}
Deliver == INSTANCE Delivery WITH
  Size <- <<4, 40, 0, 5, 2, 30, 1>>, Kind <- <<0, 0, 0, 1, 0, 0, 0>>, MaxGet <- 25,
  MaxFails <- 2, Poller <- {1}
Config == INSTANCE Settings WITH
  Files <- Files, Options <- Options

\* The others make no calls.
NoCalls == rpc = [n \in Node |-> NewHandler(n)]
PartInit ==
  \/ part = "rpc" /\ Init
     /\ todo = 0 /\ heard = 0 /\ now = 0 /\ real = 0 /\ queue = 0 /\ ev = 0 /\ made = 0 /\
     qt = 0 /\ next = 0 /\ running = 0 /\ ran = 0 /\ wire = 0 /\ socket = 0 /\ ready
     = 0 /\ slot = 0 /\ sent = 0 /\ pushed = 0 /\ pings = 0 /\ edge = 0 /\ signals =
     0 /\ _local_address = 0 /\ life = 0 /\ _valid = 0 /\ _el_map = 0 /\ calls = 0
     /\ reports = 0 /\ script = 0 /\ pos = 0 /\ conn = 0 /\ up = 0 /\ out = 0 /\
     peer = 0 /\ udp = 0 /\ down = 0 /\ _running = 0 /\ _pending_conns = 0 /\
     _conn_map = 0 /\ dying = 0 /\ upward = 0 /\ downward = 0 /\ _conn_id_to_entry =
     0 /\ _sock_to_entry = 0 /\ _dns_lookup_to_entry = 0 /\ buffer = 0 /\ port = 0
     /\ said = 0 /\ replied = 0 /\ got = 0 /\ m_queue = 0 /\ m_trim = 0 /\ round = 0
     /\ next_msg = 0 /\ flight = 0 /\ fails = 0 /\ m_message_list = 0 /\ m_pending =
     0 /\ polls = 0 /\ exited = 0 /\ stored = 0 /\ read = 0
  \/ part = "tree" /\ Tree!OverlayInit
     /\ now = 0 /\ real = 0 /\ queue = 0 /\ ev = 0 /\ made = 0 /\ qt = 0 /\ next = 0 /\
     running = 0 /\ ran = 0 /\ wire = 0 /\ socket = 0 /\ ready = 0 /\ slot = 0 /\
     sent = 0 /\ pushed = 0 /\ pings = 0 /\ edge = 0 /\ signals = 0 /\
     _local_address = 0 /\ life = 0 /\ _valid = 0 /\ _el_map = 0 /\ calls = 0 /\
     reports = 0 /\ script = 0 /\ pos = 0 /\ conn = 0 /\ up = 0 /\ out = 0 /\ peer =
     0 /\ udp = 0 /\ down = 0 /\ _running = 0 /\ _pending_conns = 0 /\ _conn_map = 0
     /\ dying = 0 /\ upward = 0 /\ downward = 0 /\ _conn_id_to_entry = 0 /\
     _sock_to_entry = 0 /\ _dns_lookup_to_entry = 0 /\ buffer = 0 /\ port = 0 /\
     said = 0 /\ replied = 0 /\ got = 0 /\ m_queue = 0 /\ m_trim = 0 /\ round = 0 /\
     next_msg = 0 /\ flight = 0 /\ fails = 0 /\ m_message_list = 0 /\ m_pending = 0
     /\ polls = 0 /\ exited = 0 /\ stored = 0 /\ read = 0
  \/ part = "events" /\ Events!Init
     /\ NoCalls /\ held = 0 /\ wanted = 0 /\ chan = 0 /\ lost = 0 /\ todo = 0 /\ heard = 0
     /\ wire = 0 /\ socket = 0 /\ ready = 0 /\ slot = 0 /\ sent = 0 /\ pushed = 0 /\
     pings = 0 /\ edge = 0 /\ signals = 0 /\ _local_address = 0 /\ life = 0 /\
     _valid = 0 /\ _el_map = 0 /\ calls = 0 /\ reports = 0 /\ script = 0 /\ pos = 0
     /\ conn = 0 /\ up = 0 /\ out = 0 /\ peer = 0 /\ udp = 0 /\ down = 0 /\ _running
     = 0 /\ _pending_conns = 0 /\ _conn_map = 0 /\ dying = 0 /\ upward = 0 /\
     downward = 0 /\ _conn_id_to_entry = 0 /\ _sock_to_entry = 0 /\
     _dns_lookup_to_entry = 0 /\ buffer = 0 /\ port = 0 /\ said = 0 /\ replied = 0
     /\ got = 0 /\ m_queue = 0 /\ m_trim = 0 /\ round = 0 /\ next_msg = 0 /\ flight
     = 0 /\ fails = 0 /\ m_message_list = 0 /\ m_pending = 0 /\ polls = 0 /\ exited
     = 0 /\ stored = 0 /\ read = 0
  \/ part = "once" /\ Once!Init
     /\ NoCalls /\ held = 0 /\ wanted = 0 /\ chan = 0 /\ lost = 0 /\ todo = 0 /\ heard = 0
     /\ wire = 0 /\ socket = 0 /\ ready = 0 /\ slot = 0 /\ sent = 0 /\ pushed = 0 /\
     pings = 0 /\ edge = 0 /\ signals = 0 /\ _local_address = 0 /\ life = 0 /\
     _valid = 0 /\ _el_map = 0 /\ calls = 0 /\ reports = 0 /\ script = 0 /\ pos = 0
     /\ conn = 0 /\ up = 0 /\ out = 0 /\ peer = 0 /\ udp = 0 /\ down = 0 /\ _running
     = 0 /\ _pending_conns = 0 /\ _conn_map = 0 /\ dying = 0 /\ upward = 0 /\
     downward = 0 /\ _conn_id_to_entry = 0 /\ _sock_to_entry = 0 /\
     _dns_lookup_to_entry = 0 /\ buffer = 0 /\ port = 0 /\ said = 0 /\ replied = 0
     /\ got = 0 /\ m_queue = 0 /\ m_trim = 0 /\ round = 0 /\ next_msg = 0 /\ flight
     = 0 /\ fails = 0 /\ m_message_list = 0 /\ m_pending = 0 /\ polls = 0 /\ exited
     = 0 /\ stored = 0 /\ read = 0
  \/ part = "edge" /\ Edge!Init
     /\ NoCalls /\ held = 0 /\ wanted = 0 /\ chan = 0 /\ lost = 0 /\ todo = 0 /\ heard = 0
     /\ now = 0 /\ real = 0 /\ queue = 0 /\ ev = 0 /\ made = 0 /\ qt = 0 /\ next = 0
     /\ running = 0 /\ ran = 0 /\ _local_address = 0 /\ life = 0 /\ _valid = 0 /\
     _el_map = 0 /\ calls = 0 /\ reports = 0 /\ script = 0 /\ pos = 0 /\ conn = 0 /\
     up = 0 /\ out = 0 /\ peer = 0 /\ udp = 0 /\ down = 0 /\ _running = 0 /\
     _pending_conns = 0 /\ _conn_map = 0 /\ dying = 0 /\ upward = 0 /\ downward = 0
     /\ _conn_id_to_entry = 0 /\ _sock_to_entry = 0 /\ _dns_lookup_to_entry = 0 /\
     buffer = 0 /\ port = 0 /\ said = 0 /\ replied = 0 /\ got = 0 /\ m_queue = 0 /\
     m_trim = 0 /\ round = 0 /\ next_msg = 0 /\ flight = 0 /\ fails = 0 /\
     m_message_list = 0 /\ m_pending = 0 /\ polls = 0 /\ exited = 0 /\ stored = 0 /\
     read = 0
  \/ part = "reads" /\ Reads!Init
     /\ NoCalls /\ held = 0 /\ wanted = 0 /\ chan = 0 /\ lost = 0 /\ todo = 0 /\ heard = 0
     /\ now = 0 /\ real = 0 /\ queue = 0 /\ ev = 0 /\ made = 0 /\ qt = 0 /\ next = 0
     /\ running = 0 /\ ran = 0 /\ _local_address = 0 /\ life = 0 /\ _valid = 0 /\
     _el_map = 0 /\ calls = 0 /\ reports = 0 /\ script = 0 /\ pos = 0 /\ conn = 0 /\
     up = 0 /\ out = 0 /\ peer = 0 /\ udp = 0 /\ down = 0 /\ _running = 0 /\
     _pending_conns = 0 /\ _conn_map = 0 /\ dying = 0 /\ upward = 0 /\ downward = 0
     /\ _conn_id_to_entry = 0 /\ _sock_to_entry = 0 /\ _dns_lookup_to_entry = 0 /\
     buffer = 0 /\ port = 0 /\ said = 0 /\ replied = 0 /\ got = 0 /\ m_queue = 0 /\
     m_trim = 0 /\ round = 0 /\ next_msg = 0 /\ flight = 0 /\ fails = 0 /\
     m_message_list = 0 /\ m_pending = 0 /\ polls = 0 /\ exited = 0 /\ stored = 0 /\
     read = 0
  \/ part = "dials" /\ Dials!Init
     /\ NoCalls /\ held = 0 /\ wanted = 0 /\ chan = 0 /\ lost = 0 /\ todo = 0 /\ heard = 0
     /\ now = 0 /\ real = 0 /\ queue = 0 /\ ev = 0 /\ made = 0 /\ qt = 0 /\ next = 0
     /\ running = 0 /\ ran = 0 /\ wire = 0 /\ socket = 0 /\ ready = 0 /\ slot = 0 /\
     sent = 0 /\ pushed = 0 /\ pings = 0 /\ edge = 0 /\ signals = 0 /\ script = 0 /\
     pos = 0 /\ conn = 0 /\ up = 0 /\ out = 0 /\ peer = 0 /\ udp = 0 /\ down = 0 /\
     _running = 0 /\ _pending_conns = 0 /\ _conn_map = 0 /\ dying = 0 /\ upward = 0
     /\ downward = 0 /\ _conn_id_to_entry = 0 /\ _sock_to_entry = 0 /\
     _dns_lookup_to_entry = 0 /\ buffer = 0 /\ port = 0 /\ said = 0 /\ replied = 0
     /\ got = 0 /\ m_queue = 0 /\ m_trim = 0 /\ round = 0 /\ next_msg = 0 /\ flight
     = 0 /\ fails = 0 /\ m_message_list = 0 /\ m_pending = 0 /\ polls = 0 /\ exited
     = 0 /\ stored = 0 /\ read = 0
  \/ part = "socks" /\ Socks!Init
     /\ NoCalls /\ held = 0 /\ wanted = 0 /\ chan = 0 /\ lost = 0 /\ todo = 0 /\ heard = 0
     /\ now = 0 /\ real = 0 /\ queue = 0 /\ ev = 0 /\ made = 0 /\ qt = 0 /\ next = 0
     /\ running = 0 /\ ran = 0 /\ wire = 0 /\ socket = 0 /\ ready = 0 /\ slot = 0 /\
     sent = 0 /\ pushed = 0 /\ pings = 0 /\ edge = 0 /\ signals = 0 /\
     _local_address = 0 /\ life = 0 /\ _valid = 0 /\ _el_map = 0 /\ calls = 0 /\
     reports = 0 /\ _running = 0 /\ _pending_conns = 0 /\ _conn_map = 0 /\ dying = 0
     /\ upward = 0 /\ downward = 0 /\ _conn_id_to_entry = 0 /\ _sock_to_entry = 0 /\
     _dns_lookup_to_entry = 0 /\ buffer = 0 /\ port = 0 /\ said = 0 /\ replied = 0
     /\ got = 0 /\ m_queue = 0 /\ m_trim = 0 /\ round = 0 /\ next_msg = 0 /\ flight
     = 0 /\ fails = 0 /\ m_message_list = 0 /\ m_pending = 0 /\ polls = 0 /\ exited
     = 0 /\ stored = 0 /\ read = 0
  \/ part = "tunnel" /\ Net!Init
     /\ NoCalls /\ held = 0 /\ wanted = 0 /\ chan = 0 /\ lost = 0 /\ todo = 0 /\ now = 0 /\
     real = 0 /\ queue = 0 /\ ev = 0 /\ made = 0 /\ qt = 0 /\ next = 0 /\ running =
     0 /\ ran = 0 /\ wire = 0 /\ ready = 0 /\ slot = 0 /\ sent = 0 /\ pushed = 0 /\
     pings = 0 /\ edge = 0 /\ signals = 0 /\ _local_address = 0 /\ life = 0 /\
     _valid = 0 /\ _el_map = 0 /\ calls = 0 /\ reports = 0 /\ script = 0 /\ pos = 0
     /\ conn = 0 /\ up = 0 /\ out = 0 /\ peer = 0 /\ udp = 0 /\ down = 0 /\ m_queue
     = 0 /\ m_trim = 0 /\ round = 0 /\ next_msg = 0 /\ flight = 0 /\ fails = 0 /\
     m_message_list = 0 /\ m_pending = 0 /\ polls = 0 /\ exited = 0 /\ stored = 0 /\
     read = 0
  \/ part = "data" /\ Data!Init
     /\ NoCalls /\ held = 0 /\ wanted = 0 /\ chan = 0 /\ lost = 0 /\ todo = 0 /\ now = 0 /\
     real = 0 /\ queue = 0 /\ ev = 0 /\ made = 0 /\ qt = 0 /\ next = 0 /\ running =
     0 /\ ran = 0 /\ wire = 0 /\ ready = 0 /\ slot = 0 /\ sent = 0 /\ pushed = 0 /\
     pings = 0 /\ edge = 0 /\ signals = 0 /\ _local_address = 0 /\ life = 0 /\
     _valid = 0 /\ _el_map = 0 /\ calls = 0 /\ reports = 0 /\ script = 0 /\ pos = 0
     /\ conn = 0 /\ up = 0 /\ out = 0 /\ peer = 0 /\ udp = 0 /\ down = 0 /\ m_queue
     = 0 /\ m_trim = 0 /\ round = 0 /\ next_msg = 0 /\ flight = 0 /\ fails = 0 /\
     m_message_list = 0 /\ m_pending = 0 /\ polls = 0 /\ exited = 0 /\ stored = 0 /\
     read = 0
  \/ part = "calm" /\ Calm!Init
     /\ NoCalls /\ held = 0 /\ wanted = 0 /\ chan = 0 /\ lost = 0 /\ todo = 0 /\ now = 0 /\
     real = 0 /\ queue = 0 /\ ev = 0 /\ made = 0 /\ qt = 0 /\ next = 0 /\ running =
     0 /\ ran = 0 /\ wire = 0 /\ ready = 0 /\ slot = 0 /\ sent = 0 /\ pushed = 0 /\
     pings = 0 /\ edge = 0 /\ signals = 0 /\ _local_address = 0 /\ life = 0 /\
     _valid = 0 /\ _el_map = 0 /\ calls = 0 /\ reports = 0 /\ script = 0 /\ pos = 0
     /\ conn = 0 /\ up = 0 /\ out = 0 /\ peer = 0 /\ udp = 0 /\ down = 0 /\ m_queue
     = 0 /\ m_trim = 0 /\ round = 0 /\ next_msg = 0 /\ flight = 0 /\ fails = 0 /\
     m_message_list = 0 /\ m_pending = 0 /\ polls = 0 /\ exited = 0 /\ stored = 0 /\
     read = 0
  \/ part = "deliver" /\ Deliver!Init
     /\ NoCalls /\ held = 0 /\ wanted = 0 /\ chan = 0 /\ todo = 0 /\ heard = 0 /\ now = 0 /\
     real = 0 /\ queue = 0 /\ ev = 0 /\ made = 0 /\ qt = 0 /\ next = 0 /\ running =
     0 /\ ran = 0 /\ wire = 0 /\ socket = 0 /\ ready = 0 /\ slot = 0 /\ pushed = 0
     /\ pings = 0 /\ edge = 0 /\ signals = 0 /\ _local_address = 0 /\ life = 0 /\
     _valid = 0 /\ _el_map = 0 /\ calls = 0 /\ reports = 0 /\ script = 0 /\ pos = 0
     /\ conn = 0 /\ up = 0 /\ out = 0 /\ peer = 0 /\ udp = 0 /\ down = 0 /\ _running
     = 0 /\ _pending_conns = 0 /\ _conn_map = 0 /\ dying = 0 /\ upward = 0 /\
     downward = 0 /\ _conn_id_to_entry = 0 /\ _sock_to_entry = 0 /\
     _dns_lookup_to_entry = 0 /\ buffer = 0 /\ port = 0 /\ said = 0 /\ replied = 0
     /\ got = 0 /\ stored = 0 /\ read = 0
  \/ part = "settings" /\ Config!Init
     /\ NoCalls /\ held = 0 /\ wanted = 0 /\ chan = 0 /\ lost = 0 /\ todo = 0 /\ heard = 0
     /\ now = 0 /\ real = 0 /\ queue = 0 /\ ev = 0 /\ made = 0 /\ qt = 0 /\ next = 0
     /\ running = 0 /\ ran = 0 /\ wire = 0 /\ socket = 0 /\ ready = 0 /\ slot = 0 /\
     sent = 0 /\ pushed = 0 /\ pings = 0 /\ edge = 0 /\ signals = 0 /\
     _local_address = 0 /\ life = 0 /\ _valid = 0 /\ _el_map = 0 /\ calls = 0 /\
     reports = 0 /\ script = 0 /\ pos = 0 /\ conn = 0 /\ up = 0 /\ out = 0 /\ peer =
     0 /\ udp = 0 /\ down = 0 /\ _running = 0 /\ _pending_conns = 0 /\ _conn_map = 0
     /\ dying = 0 /\ upward = 0 /\ downward = 0 /\ _conn_id_to_entry = 0 /\
     _sock_to_entry = 0 /\ _dns_lookup_to_entry = 0 /\ buffer = 0 /\ port = 0 /\
     said = 0 /\ replied = 0 /\ got = 0 /\ m_queue = 0 /\ m_trim = 0 /\ round = 0 /\
     next_msg = 0 /\ flight = 0 /\ fails = 0 /\ m_message_list = 0 /\ m_pending = 0
     /\ polls = 0 /\ exited = 0
PartNext ==
  /\ UNCHANGED part
  /\ \/ part = "rpc" /\ Next
        /\ UNCHANGED <<todo, heard, now, real, queue, ev, made, qt, next, running, ran, wire, socket,
             ready, slot, sent, pushed, pings, edge, signals, _local_address, life, _valid,
             _el_map, calls, reports, script, pos, conn, up, out, peer, udp, down, _running,
             _pending_conns, _conn_map, dying, upward, downward, _conn_id_to_entry,
             _sock_to_entry, _dns_lookup_to_entry, buffer, port, said, replied, got,
             m_queue, m_trim, round, next_msg, flight, fails, m_message_list, m_pending,
             polls, exited, stored, read>>
     \/ part = "tree" /\ Tree!OverlayNext
        /\ UNCHANGED <<now, real, queue, ev, made, qt, next, running, ran, wire, socket, ready, slot,
             sent, pushed, pings, edge, signals, _local_address, life, _valid, _el_map,
             calls, reports, script, pos, conn, up, out, peer, udp, down, _running,
             _pending_conns, _conn_map, dying, upward, downward, _conn_id_to_entry,
             _sock_to_entry, _dns_lookup_to_entry, buffer, port, said, replied, got,
             m_queue, m_trim, round, next_msg, flight, fails, m_message_list, m_pending,
             polls, exited, stored, read>>
     \/ part = "events" /\ Events!Next
        /\ UNCHANGED <<rpc, held, wanted, chan, lost, todo, heard, wire, socket, ready, slot, sent,
             pushed, pings, edge, signals, _local_address, life, _valid, _el_map, calls,
             reports, script, pos, conn, up, out, peer, udp, down, _running, _pending_conns,
             _conn_map, dying, upward, downward, _conn_id_to_entry, _sock_to_entry,
             _dns_lookup_to_entry, buffer, port, said, replied, got, m_queue, m_trim, round,
             next_msg, flight, fails, m_message_list, m_pending, polls, exited, stored, read>>
     \/ part = "once" /\ Once!Next
        /\ UNCHANGED <<rpc, held, wanted, chan, lost, todo, heard, wire, socket, ready, slot, sent,
             pushed, pings, edge, signals, _local_address, life, _valid, _el_map, calls,
             reports, script, pos, conn, up, out, peer, udp, down, _running, _pending_conns,
             _conn_map, dying, upward, downward, _conn_id_to_entry, _sock_to_entry,
             _dns_lookup_to_entry, buffer, port, said, replied, got, m_queue, m_trim, round,
             next_msg, flight, fails, m_message_list, m_pending, polls, exited, stored, read>>
     \/ part = "edge" /\ Edge!Next
        /\ UNCHANGED <<rpc, held, wanted, chan, lost, todo, heard, now, real, queue, ev, made, qt,
             next, running, ran, _local_address, life, _valid, _el_map, calls, reports,
             script, pos, conn, up, out, peer, udp, down, _running, _pending_conns,
             _conn_map, dying, upward, downward, _conn_id_to_entry, _sock_to_entry,
             _dns_lookup_to_entry, buffer, port, said, replied, got, m_queue, m_trim, round,
             next_msg, flight, fails, m_message_list, m_pending, polls, exited, stored, read>>
     \/ part = "reads" /\ Reads!Next
        /\ UNCHANGED <<rpc, held, wanted, chan, lost, todo, heard, now, real, queue, ev, made, qt,
             next, running, ran, _local_address, life, _valid, _el_map, calls, reports,
             script, pos, conn, up, out, peer, udp, down, _running, _pending_conns,
             _conn_map, dying, upward, downward, _conn_id_to_entry, _sock_to_entry,
             _dns_lookup_to_entry, buffer, port, said, replied, got, m_queue, m_trim, round,
             next_msg, flight, fails, m_message_list, m_pending, polls, exited, stored, read>>
     \/ part = "dials" /\ Dials!Next
        /\ UNCHANGED <<rpc, held, wanted, chan, lost, todo, heard, now, real, queue, ev, made, qt,
             next, running, ran, wire, socket, ready, slot, sent, pushed, pings, edge,
             signals, script, pos, conn, up, out, peer, udp, down, _running, _pending_conns,
             _conn_map, dying, upward, downward, _conn_id_to_entry, _sock_to_entry,
             _dns_lookup_to_entry, buffer, port, said, replied, got, m_queue, m_trim, round,
             next_msg, flight, fails, m_message_list, m_pending, polls, exited, stored, read>>
     \/ part = "socks" /\ Socks!Next
        /\ UNCHANGED <<rpc, held, wanted, chan, lost, todo, heard, now, real, queue, ev, made, qt,
             next, running, ran, wire, socket, ready, slot, sent, pushed, pings, edge,
             signals, _local_address, life, _valid, _el_map, calls, reports, _running,
             _pending_conns, _conn_map, dying, upward, downward, _conn_id_to_entry,
             _sock_to_entry, _dns_lookup_to_entry, buffer, port, said, replied, got,
             m_queue, m_trim, round, next_msg, flight, fails, m_message_list, m_pending,
             polls, exited, stored, read>>
     \/ part = "tunnel" /\ Net!Next
        /\ UNCHANGED <<rpc, held, wanted, chan, lost, todo, now, real, queue, ev, made, qt, next,
             running, ran, wire, ready, slot, sent, pushed, pings, edge, signals,
             _local_address, life, _valid, _el_map, calls, reports, script, pos, conn, up,
             out, peer, udp, down, m_queue, m_trim, round, next_msg, flight, fails,
             m_message_list, m_pending, polls, exited, stored, read>>
     \/ part = "data" /\ Data!Next
        /\ UNCHANGED <<rpc, held, wanted, chan, lost, todo, now, real, queue, ev, made, qt, next,
             running, ran, wire, ready, slot, sent, pushed, pings, edge, signals,
             _local_address, life, _valid, _el_map, calls, reports, script, pos, conn, up,
             out, peer, udp, down, m_queue, m_trim, round, next_msg, flight, fails,
             m_message_list, m_pending, polls, exited, stored, read>>
     \/ part = "calm" /\ Calm!Next
        /\ UNCHANGED <<rpc, held, wanted, chan, lost, todo, now, real, queue, ev, made, qt, next,
             running, ran, wire, ready, slot, sent, pushed, pings, edge, signals,
             _local_address, life, _valid, _el_map, calls, reports, script, pos, conn, up,
             out, peer, udp, down, m_queue, m_trim, round, next_msg, flight, fails,
             m_message_list, m_pending, polls, exited, stored, read>>
     \/ part = "deliver" /\ Deliver!Next
        /\ UNCHANGED <<rpc, held, wanted, chan, todo, heard, now, real, queue, ev, made, qt, next,
             running, ran, wire, socket, ready, slot, pushed, pings, edge, signals,
             _local_address, life, _valid, _el_map, calls, reports, script, pos, conn, up,
             out, peer, udp, down, _running, _pending_conns, _conn_map, dying, upward,
             downward, _conn_id_to_entry, _sock_to_entry, _dns_lookup_to_entry, buffer,
             port, said, replied, got, stored, read>>
     \/ part = "settings" /\ Config!Next
        /\ UNCHANGED <<rpc, held, wanted, chan, lost, todo, heard, now, real, queue, ev, made, qt,
             next, running, ran, wire, socket, ready, slot, sent, pushed, pings, edge,
             signals, _local_address, life, _valid, _el_map, calls, reports, script, pos,
             conn, up, out, peer, udp, down, _running, _pending_conns, _conn_map, dying,
             upward, downward, _conn_id_to_entry, _sock_to_entry, _dns_lookup_to_entry,
             buffer, port, said, replied, got, m_queue, m_trim, round, next_msg, flight,
             fails, m_message_list, m_pending, polls, exited>>
tvars == Once!vars
ovars == Tree!ovars
evars == Reads!vars
lvars == Dials!vars
tunvars == Calm!vars
qvars == Deliver!vars
PartSpec == PartInit /\ [][PartNext]_pvars
  \* Connections deliver and callers make their calls.
  /\ WF_ovars(part = "tree" /\ Tree!Progress)
  \* Time passes, the Qt event loop fires its timers, and loops end.
  /\ WF_tvars(part = "once" /\ (Once!Run \/ Once!RunDone))
  /\ WF_tvars(part = "once" /\ Once!Tick)
  /\ WF_tvars(part = "once" /\ \E id \in Once!QtId : Once!timerEvent(id))
  \* Sockets deliver, connect or fail; lookups and rounds end; pollers poll.
  /\ WF_evars(part = "reads" /\ Reads!Network)
  /\ WF_lvars(part = "dials" /\ Dials!Answer)
  /\ WF_tunvars(part = "calm" /\ Calm!Channel)
  /\ WF_tunvars(part = "calm" /\ Calm!Network)
  /\ WF_qvars(part = "deliver" /\ Deliver!Cycle)
  /\ WF_qvars(part = "deliver" /\ Deliver!Poll(1))

-----------------------------------------------------------------------------
(* Properties *)

\* Every node hears every broadcast and every message to it, exactly once: the
\* relays (BroadcastHelper, Forward) form a tree.
HeardOnce == <>[](part = "tree" => Tree!AllHeard)

\* Events run as AlarmClock says: when due, in the order of their times, once
\* per period and never after Stop (Timer::Run, TimerEvent::Run).
AlarmSpec ==
  /\ part = "events" => Events!Alarm!AlarmInit
  /\ [][part = "events" => Events!AlarmStep]_pvars

\* In real time an event that waits runs or is stopped once its time comes,
\* although callbacks queue events while the queue runs (_next_timer).
EventsRun ==
  \A u \in {1, 2} : (part = "once" /\ Once!Due(u)) ~> (part = "once" => u \notin Once!Waiting)

\* Data arrives as it was sent: edges cut their bytes into the messages sent
\* and report each attempt once, the handshake of SOCKS does not depend on how
\* its bytes come, hosts hear what applications say, the send queue keeps what
\* was in no slot, and the configuration is read as it was saved.
Faithful ==
  CASE part = "edge" -> Edge!Stream
    [] part = "reads" -> Reads!Stream
    [] part = "dials" -> Dials!MapIsLive /\ Dials!ReportedOnce
    [] part = "socks" -> Socks!Independent /\ Socks!OnePeer
    [] part = "tunnel" -> Net!Streams /\ Net!TableAgrees
    [] part = "data" -> Data!Streams /\ Data!TableAgrees
    [] part = "calm" -> Calm!Streams
    [] part = "deliver" -> Deliver!KeptUntilSent
    [] part = "settings" -> Config!ReadBack
    [] OTHER -> TRUE

\* What nobody breaks arrives: all bytes of an edge are read although Read puts
\* itself off, every attempt to connect is reported, the tunnel brings all data
\* to hosts and back, and all messages reach those who poll or the exit.
Arrives ==
  /\ <>[](part = "reads" => Reads!AllRead)
  /\ \A a \in {1, 2} : (part = "dials" /\ calls[a] # Dials!Idle)
                          ~> (part = "dials" => Dials!Reported(a))
  /\ <>[](part = "calm" => Calm!AllHeard)
  /\ <>[](part = "deliver" => Deliver!AllDelivered)
=============================================================================
