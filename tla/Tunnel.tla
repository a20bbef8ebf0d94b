------------------------------- MODULE Tunnel -------------------------------
(***************************************************************************)
(* The entry tunnel of a client, the exit tunnel of a server and the hosts *)
(* behind it.  Packets go up through the anonymous channel and come down   *)
(* by broadcast, both in order.  A connection has one host, reached by     *)
(* TCP or UDP and named by an address or by a name that is looked up.      *)
(* Data is numbered; the states of QTcpSocket are those Qt documents.      *)
(***************************************************************************)
EXTENDS Integers, SequencesExt

CONSTANTS
  Conn,      \* the connection ids
  Wire,      \* how each reaches its host: "tcp" or "udp"
  Named,     \* the connections whose host is a name
  MaxData,   \* bound: the pieces an application, or a host, sends
  Faults     \* what may go wrong: see the steps

VARIABLES
  _running,            \* EntryTunnel: "new", "yes" or "stopped"
  _pending_conns, _conn_map,
  dying,               \* SocksConnections whose deleteLater is under way
  upward, downward,    \* packets under way
  _conn_id_to_entry, _sock_to_entry, _dns_lookup_to_entry,
  socket,              \* the state of a socket of the exit tunnel
  buffer, port,        \* of a SocksEntry
  said, heard,         \* what an application sent, -1 before it exists; what its host received
  replied, got         \* what a host sent; what its application received

entry == <<_running, _pending_conns, _conn_map, dying>>
table == <<_conn_id_to_entry, _sock_to_entry, _dns_lookup_to_entry>>
sockets == <<socket, buffer, port>>
ends == <<said, heard, replied, got>>
vars == <<entry, upward, downward, table, sockets, ends>>

-----------------------------------------------------------------------------
(* TunnelPacket *)

Key == "key"
Packet(type, cid, opts) == [type |-> type, cid |-> cid, options |-> opts]

BuildUdpStart(c) == Packet("UDP_START", c, [KEY |-> Key])
BuildTcpStart(c) == Packet("TCP_START", c, [HOST |-> c, PORT |-> 80, KEY |-> Key])
BuildUdpRequest(c, m) == Packet("UDP_REQUEST", c, [HOST |-> c, PORT |-> 80, MESSAGE |-> m])
BuildTcpRequest(c, m) == Packet("TCP_REQUEST", c, [MESSAGE |-> m])
BuildUdpResponse(c, m) == Packet("UDP_RESPONSE", c, [HOST |-> c, PORT |-> 80, MESSAGE |-> m])
BuildTcpResponse(c, m) == Packet("TCP_RESPONSE", c, [MESSAGE |-> m])
BuildFinished(c) == Packet("FINISHED", c, <<>>)

RequiredFields(type) ==
  CASE type = "UDP_START" -> {"KEY"}
    [] type \in {"UDP_REQUEST", "UDP_RESPONSE"} -> {"HOST", "PORT", "MESSAGE"}
    [] type = "TCP_START" -> {"HOST", "PORT", "KEY"}
    [] type \in {"TCP_REQUEST", "TCP_RESPONSE"} -> {"MESSAGE"}
    [] type = "FINISHED" -> {}

\* Validate: the fields of the type are there, and the port fits 16 bits.
Validate(p) ==
  /\ RequiredFields(p.type) \subseteq DOMAIN p.options
  /\ "PORT" \in DOMAIN p.options => p.options["PORT"] \in 0..65535

-----------------------------------------------------------------------------
(* EntryTunnel *)

Up(ps) == upward' = upward \o ps

Start ==
  /\ _running = "new"
  /\ _running' = "yes"
  /\ UNCHANGED <<_pending_conns, _conn_map, dying, upward, downward, table, sockets, ends>>

\* There is a session; or, without one, the two programs of a solo tunnel have
\* connected to each other (Connected, IncomingConnection).
HandleSessionAdded == "solo" \notin Faults /\ Start
SoloConnected == "solo" \in Faults /\ Start

NewConnection(c) ==
  /\ _running = "yes" /\ c \notin _pending_conns \cup _conn_map \cup dying /\ said[c] < 0
  /\ _pending_conns' = _pending_conns \cup {c}
  /\ said' = [said EXCEPT ![c] = 0]
  /\ UNCHANGED <<_running, _conn_map, dying, upward, downward, table, sockets, heard, replied, got>>

\* SocksConnected, and the start that SocksConnection sends right after it.
SocksConnected(c) ==
  /\ c \in _pending_conns /\ _running = "yes"
  /\ _pending_conns' = _pending_conns \ {c}
  /\ _conn_map' = _conn_map \cup {c}
  /\ Up(<<IF Wire[c] = "tcp" THEN BuildTcpStart(c) ELSE BuildUdpStart(c)>>)
  /\ UNCHANGED <<_running, dying, downward, table, sockets, ends>>

OutgoingData(c) ==
  /\ c \in _conn_map /\ said[c] < MaxData
  /\ said' = [said EXCEPT ![c] = @ + 1]
  /\ Up(<<IF Wire[c] = "tcp" THEN BuildTcpRequest(c, <<said'[c]>>) ELSE BuildUdpRequest(c, <<said'[c]>>)>>)
  /\ UNCHANGED <<entry, downward, table, sockets, heard, replied, got>>

\* Close of a SocksConnection, and SocksClosed.
SocksClosed(c) ==
  /\ "close" \in Faults
  /\ \/ /\ c \in _pending_conns
        /\ _pending_conns' = _pending_conns \ {c}
        /\ UNCHANGED <<_conn_map, upward>>
     \/ /\ c \in _conn_map
        /\ _conn_map' = _conn_map \ {c}
        /\ Up(<<BuildFinished(c)>>)
        /\ UNCHANGED _pending_conns
  /\ UNCHANGED <<_running, dying, downward, table, sockets, ends>>

\* IncomingData: a packet that came down.
EntryIncomingData ==
  /\ downward # <<>>
  /\ downward' = Tail(downward)
  /\ LET p == Head(downward) IN
     /\ Validate(p)
     /\ got' = IF p.cid \in _conn_map /\ p.type \in {"TCP_RESPONSE", "UDP_RESPONSE"}
               THEN [got EXCEPT ![p.cid] = @ \o p.options["MESSAGE"]] ELSE got
  /\ UNCHANGED <<entry, upward, table, sockets, said, heard, replied>>

\* Stop: connections are deleted later and send their FINISHED then; those
\* that are pending are closed and stay in _pending_conns.
EntryStop ==
  /\ "stop" \in Faults /\ _running = "yes"
  /\ _running' = "stopped"
  /\ _conn_map' = {}
  /\ dying' = dying \cup _conn_map
  /\ UNCHANGED <<_pending_conns, upward, downward, table, sockets, ends>>
Deleted(c) ==
  /\ c \in dying
  /\ dying' = dying \ {c}
  /\ Up(<<BuildFinished(c)>>)
  /\ UNCHANGED <<_running, _pending_conns, _conn_map, downward, table, sockets, ends>>

\* SoloEntryTunnel::Disconnected ends the program, and another may be started;
\* SoloExitTunnel::Disconnected waits for it with all its entries.
SoloDisconnected ==
  /\ "solo" \in Faults /\ _running = "yes"
  /\ _running' = "new"
  /\ _pending_conns' = {} /\ _conn_map' = {} /\ dying' = {}
  /\ upward' = <<>> /\ downward' = <<>>
  /\ UNCHANGED <<table, sockets, ends>>

-----------------------------------------------------------------------------
(* SocksTable *)

AddConnection(c) ==
  /\ _conn_id_to_entry' = _conn_id_to_entry \cup {c}
  /\ _sock_to_entry' = _sock_to_entry \cup {c}
RemoveSocksEntry(c) ==
  /\ _conn_id_to_entry' = _conn_id_to_entry \ {c}
  /\ _sock_to_entry' = _sock_to_entry \ {c}
\* QAbstractSocket::close: a socket without a connection stays as it is, one
\* that is connecting closes when it is connected, a connected or bound one
\* says disconnected, and DiscardProxy takes its entry out.
CloseSocket(c) ==
  \/ /\ socket[c] = "unconnected"
     /\ UNCHANGED <<socket, _conn_id_to_entry, _sock_to_entry>>
  \/ /\ socket[c] \in {"connecting", "closing"}
     /\ socket' = [socket EXCEPT ![c] = "closing"]
     /\ UNCHANGED <<_conn_id_to_entry, _sock_to_entry>>
  \/ /\ socket[c] \in {"connected", "bound"}
     /\ socket' = [socket EXCEPT ![c] = "unconnected"]
     /\ RemoveSocksEntry(c)

-----------------------------------------------------------------------------
(* ExitTunnel *)

\* The packet is taken from the channel.
Takes(type) ==
  /\ upward # <<>> /\ Head(upward).type = type /\ Validate(Head(upward))
  /\ upward' = Tail(upward)
  /\ UNCHANGED <<entry, downward>>
cid == Head(upward).cid
message == Head(upward).options["MESSAGE"]

TcpCreateProxy ==
  /\ Takes("TCP_START")
  /\ IF cid \in _conn_id_to_entry THEN UNCHANGED <<table, socket>>
     ELSE /\ AddConnection(cid)
          /\ IF cid \in Named
             THEN /\ _dns_lookup_to_entry' = _dns_lookup_to_entry \cup {cid}
                  /\ UNCHANGED socket
             ELSE /\ socket' = [socket EXCEPT ![cid] = "connecting"]
                  /\ UNCHANGED _dns_lookup_to_entry
  /\ UNCHANGED <<buffer, port, ends>>

UdpCreateProxy ==
  /\ Takes("UDP_START")
  /\ IF cid \in _conn_id_to_entry THEN UNCHANGED <<table, socket>>
     ELSE /\ AddConnection(cid)
          /\ socket' = [socket EXCEPT ![cid] = "bound"]
          /\ UNCHANGED _dns_lookup_to_entry
  /\ UNCHANGED <<buffer, port, ends>>

\* Data for a socket that is not connected waits in the entry.
TcpHandleRequest ==
  /\ Takes("TCP_REQUEST")
  /\ heard' = IF cid \in _conn_id_to_entry /\ socket[cid] = "connected"
              THEN [heard EXCEPT ![cid] = @ \o message] ELSE heard
  /\ buffer' = IF cid \in _conn_id_to_entry /\ socket[cid] # "connected"
               THEN [buffer EXCEPT ![cid] = @ \o message] ELSE buffer
  /\ UNCHANGED <<table, socket, port, said, replied, got>>

\* A datagram to a name starts a lookup unless one is under way (its port is
\* set), which drops the datagram.
UdpHandleRequest ==
  /\ Takes("UDP_REQUEST")
  /\ LET known == cid \in _conn_id_to_entry
         looks == known /\ cid \in Named /\ port[cid] = 0
     IN /\ heard' = IF known /\ cid \notin Named THEN [heard EXCEPT ![cid] = @ \o message] ELSE heard
        /\ buffer' = IF looks THEN [buffer EXCEPT ![cid] = @ \o message] ELSE buffer
        /\ port' = IF looks THEN [port EXCEPT ![cid] = Head(upward).options["PORT"]] ELSE port
        /\ _dns_lookup_to_entry' =
             IF looks THEN _dns_lookup_to_entry \cup {cid} ELSE _dns_lookup_to_entry
  /\ UNCHANGED <<_conn_id_to_entry, _sock_to_entry, socket, said, replied, got>>

HandleFinish ==
  /\ Takes("FINISHED")
  /\ IF cid \in _conn_id_to_entry THEN CloseSocket(cid)
     ELSE UNCHANGED <<socket, _conn_id_to_entry, _sock_to_entry>>
  /\ UNCHANGED <<_dns_lookup_to_entry, buffer, port, ends>>

\* The lookup ends.  TCP gives up or connects, even if a FINISHED came in the
\* meantime; UDP writes its datagram, or keeps it.
DnsLookupFinished(c, found) ==
  /\ c \in _dns_lookup_to_entry
  /\ ~found => "dns" \in Faults
  /\ _dns_lookup_to_entry' = _dns_lookup_to_entry \ {c}
  /\ \/ /\ Wire[c] = "tcp" /\ found
        /\ socket' = [socket EXCEPT ![c] = "connecting"]
        /\ UNCHANGED <<_conn_id_to_entry, _sock_to_entry, buffer, port, heard>>
     \/ /\ Wire[c] = "tcp" /\ ~found
        /\ RemoveSocksEntry(c)
        /\ UNCHANGED <<sockets, heard>>
     \/ /\ Wire[c] = "udp"
        /\ port' = [port EXCEPT ![c] = 0]
        /\ heard' = IF found THEN [heard EXCEPT ![c] = @ \o buffer[c]] ELSE heard
        /\ buffer' = IF found THEN [buffer EXCEPT ![c] = <<>>] ELSE buffer
        /\ UNCHANGED <<_conn_id_to_entry, _sock_to_entry, socket>>
  /\ UNCHANGED <<entry, upward, downward, said, replied, got>>

\* connected(): the buffer is written, unless the socket was closed meanwhile;
\* then the write is refused, the buffer is gone and the socket disconnects.
TcpSocketConnected(c) ==
  /\ socket[c] \in {"connecting", "closing"}
  /\ buffer' = [buffer EXCEPT ![c] = <<>>]
  /\ \/ /\ socket[c] = "connecting"
        /\ socket' = [socket EXCEPT ![c] = "connected"]
        /\ heard' = [heard EXCEPT ![c] = @ \o buffer[c]]
        /\ UNCHANGED <<_conn_id_to_entry, _sock_to_entry>>
     \/ /\ socket[c] = "closing"
        /\ socket' = [socket EXCEPT ![c] = "unconnected"]
        /\ RemoveSocksEntry(c)
        /\ UNCHANGED heard
  /\ UNCHANGED <<entry, upward, downward, _dns_lookup_to_entry, port, said, replied, got>>

\* The host refuses: HandleError only says so, and the entry stays.
HandleError(c) ==
  /\ "refuse" \in Faults /\ socket[c] \in {"connecting", "closing"}
  /\ socket' = [socket EXCEPT ![c] = "unconnected"]
  /\ UNCHANGED <<entry, upward, downward, table, buffer, port, ends>>

\* The host closes the connection.  The application is not told.
DiscardProxy(c) ==
  /\ "discard" \in Faults /\ socket[c] = "connected"
  /\ CloseSocket(c)
  /\ UNCHANGED <<entry, upward, downward, _dns_lookup_to_entry, buffer, port, ends>>

\* The host sends something: TcpReadFromProxy and UdpReadFromProxy.
ReadFromProxy(c) ==
  /\ socket[c] = "connected" \/ (socket[c] = "bound" /\ heard[c] # <<>>)
  /\ replied[c] < MaxData
  /\ replied' = [replied EXCEPT ![c] = @ + 1]
  /\ downward' = Append(downward, IF Wire[c] = "tcp" THEN BuildTcpResponse(c, <<replied'[c]>>)
                                  ELSE BuildUdpResponse(c, <<replied'[c]>>))
  /\ UNCHANGED <<entry, upward, table, sockets, said, heard, got>>

\* Nothing for half a minute on a UDP socket; a lookup under way goes on.
UdpTimeout(c) ==
  /\ "timeout" \in Faults /\ c \in _conn_id_to_entry /\ socket[c] = "bound"
  /\ socket' = [socket EXCEPT ![c] = "unconnected"]
  /\ RemoveSocksEntry(c)
  /\ UNCHANGED <<entry, upward, downward, _dns_lookup_to_entry, buffer, port, ends>>

\* Stop, which leaves _running as it is.
ExitStop ==
  /\ "stop" \in Faults /\ _conn_id_to_entry # {}
  /\ socket' = [c \in Conn |-> IF c \in _sock_to_entry THEN "unconnected" ELSE socket[c]]
  /\ _conn_id_to_entry' = {}
  /\ _sock_to_entry' = {}
  /\ _dns_lookup_to_entry' = {}
  /\ UNCHANGED <<entry, upward, downward, buffer, port, ends>>

-----------------------------------------------------------------------------
Init ==
  /\ _running = "new"
  /\ _pending_conns = {} /\ _conn_map = {} /\ dying = {}
  /\ upward = <<>> /\ downward = <<>>
  /\ _conn_id_to_entry = {} /\ _sock_to_entry = {} /\ _dns_lookup_to_entry = {}
  /\ socket = [c \in Conn |-> "unconnected"]
  /\ buffer = [c \in Conn |-> <<>>]
  /\ port = [c \in Conn |-> 0]
  /\ said = [c \in Conn |-> -1]
  /\ heard = [c \in Conn |-> <<>>]
  /\ replied = [c \in Conn |-> 0]
  /\ got = [c \in Conn |-> <<>>]

Channel ==
  \/ EntryIncomingData \/ TcpCreateProxy \/ UdpCreateProxy \/ TcpHandleRequest \/ UdpHandleRequest
  \/ HandleFinish
Network == \E c \in Conn : DnsLookupFinished(c, TRUE) \/ TcpSocketConnected(c)
Next ==
  \/ Channel
  \/ Network
  \/ HandleSessionAdded \/ SoloConnected \/ EntryStop \/ SoloDisconnected \/ ExitStop
  \/ \E c \in Conn :
       \/ NewConnection(c) \/ SocksConnected(c) \/ OutgoingData(c) \/ SocksClosed(c) \/ Deleted(c)
       \/ DnsLookupFinished(c, FALSE) \/ HandleError(c) \/ DiscardProxy(c) \/ ReadFromProxy(c)
       \/ UdpTimeout(c)

Spec == Init /\ [][Next]_vars

-----------------------------------------------------------------------------
(* Properties *)

Count(n) == [i \in 1..n |-> i]

\* A host on TCP hears a beginning of what its application said, and on UDP
\* part of it, in order; an application gets a beginning of what its own host
\* replied, across lookups, buffers and connections that close in between.
Streams ==
  \A c \in Conn :
    /\ Wire[c] = "tcp" => heard[c] = Count(Len(heard[c]))
    /\ \A i, j \in DOMAIN heard[c] : i < j => heard[c][i] < heard[c][j]
    /\ said[c] < 0 => heard[c] = <<>>
    /\ got[c] = Count(Len(got[c])) /\ Len(got[c]) <= replied[c]

\* The two maps hold the same entries, and a socket that may be read has one:
\* TcpReadFromProxy uses its entry without looking.
TableAgrees ==
  /\ _conn_id_to_entry = _sock_to_entry
  /\ \A c \in Conn : socket[c] # "unconnected" => c \in _sock_to_entry

\* All that was said on TCP was heard, and all replies were got.
AllHeard ==
  \A c \in Conn :
    /\ Wire[c] = "tcp" /\ said[c] >= 0 => Len(heard[c]) = said[c]
    /\ Len(got[c]) = replied[c]
=============================================================================
