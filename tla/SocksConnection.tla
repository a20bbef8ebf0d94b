-------------------------- MODULE SocksConnection --------------------------
(***************************************************************************)
(* One SOCKS5 connection of an application to the entry tunnel.  The bytes *)
(* of the application arrive in pieces of any size; each piece runs the    *)
(* handlers of ReadFromSocket, which call each other as long as there are  *)
(* bytes.  Replies and TunnelPackets are records; addresses stay bytes.    *)
(***************************************************************************)
EXTENDS Integers, SequencesExt

CONSTANTS
  Scripts,     \* what the application writes, sequences of bytes
  Datagrams,   \* what peers send to the UDP socket
  Responses,   \* the payloads that come down the tunnel
  Hosts,       \* who sends UDP_RESPONSEs: types of address, and addresses
  Binds,       \* whether a UDP socket can be bound: a set of Booleans
  MaxDown      \* bound: packets that come down, and datagrams

VARIABLES
  script,   \* what this application writes
  pos,      \* how many of its bytes have arrived
  conn,     \* the members of the SocksConnection
  up,       \* UpstreamPacketReady: packets
  out,      \* what was written to the socket of the application
  peer,     \* _udp_peer
  udp,      \* UDP: peers whose datagrams went up, and who were answered
  down      \* packets that came down, and datagrams

vars == <<script, pos, conn, up, out, peer, udp, down>>

Signed(b) == IF b < 128 THEN b ELSE b - 256
From(s, i) == SubSeq(s, i, Len(s))
\* QIODevice::read: a negative size is refused.
Readable(s, n) == SubSeq(s, 1, IF n < 0 THEN 0 ELSE n)
AfterRead(s, n) == From(s, (IF n < 0 THEN 0 ELSE n) + 1)

None == "null"
AddressLength == [t \in {1, 3, 4} |-> CASE t = 1 -> 4 [] t = 3 -> 1 [] t = 4 -> 16]

\* ParseSocksAddress: the address that a begins with, and how long it is.  The
\* first byte of an empty array reads as its terminating zero.
ParseSocksAddress(a) ==
  IF a = <<>> \/ a[1] \notin DOMAIN AddressLength THEN [ok |-> FALSE]
  ELSE LET offset == IF a[1] = 3 THEN 2 ELSE 1
           length == IF a[1] = 3 THEN (IF Len(a) > 1 THEN a[2] ELSE 0) ELSE AddressLength[a[1]]
           end == offset + length + 2
       IN IF Len(a) < end THEN [ok |-> FALSE]
          ELSE [ok |-> TRUE, read |-> end, host |-> SubSeq(a, offset + 1, offset + length),
                port |-> 256 * a[end - 1] + a[end]]

\* SerializeSocksAddress of the host and port of a packet that came down.
SerializeSocksAddress(type, host, port) ==
  <<type>> \o (IF type = 3 THEN <<Len(host)>> ELSE <<>>) \o host
           \o <<port \div 256, port % 256>>

\* WriteToSocket and WriteSocksReply.
Writes(c, r) == [c EXCEPT !.out = Append(@, r)]
Sends(c, p) == [c EXCEPT !.up = Append(@, p)]
Closes(c) ==
  IF ~c.open THEN c
  ELSE LET f == IF c.id THEN Sends(c, [type |-> "FINISHED"]) ELSE c
       IN [f EXCEPT !.open = FALSE, !.buf = <<>>]
EstablishFail(c, reason) == Closes(Writes(c, [reply |-> reason]))

-----------------------------------------------------------------------------
(* ReadFromSocket, the last handler first: each one calls the next *)

\* On a UDP channel the handler closes the socket and goes on with what it still
\* holds: nothing, since QIODevice::close drops what was not read.
HandleConnected(c) ==
  LET d == IF c.command = 1 \/ c.buf = <<>> THEN c ELSE Closes(c)
  IN IF d.buf = <<>> THEN d
     ELSE Sends([d EXCEPT !.buf = <<>>], [type |-> "TCP_REQUEST", data |-> d.buf])

StartConnect(c, a) ==
  Writes(Sends([c EXCEPT !.id = TRUE, !.state = "Connected"],
               [type |-> "TCP_START", host |-> a.host, port |-> a.port]),
         [reply |-> 0])
StartUdpAssociate(c, a) ==
  IF ~c.binds THEN EstablishFail(c, 1)
  ELSE Writes(Sends([c EXCEPT !.id = TRUE, !.state = "Connected"], [type |-> "UDP_START"]),
              [reply |-> 0])

HandleRequest(c) ==
  IF Len(c.buf) < c.addr_len THEN c
  ELSE LET d == [c EXCEPT !.buf = AfterRead(@, c.addr_len)]
           a == ParseSocksAddress(Readable(c.buf, c.addr_len))
       IN IF ~a.ok THEN EstablishFail(d, 8)
          ELSE IF d.command = 1 THEN HandleConnected(StartConnect(d, a))
          ELSE IF d.command = 3 THEN HandleConnected(StartUdpAssociate(d, a))
          ELSE EstablishFail(d, 7)

HandleRequestHeader(c) ==
  IF Len(c.buf) < 5 THEN c
  ELSE LET b == c.buf
           d == [c EXCEPT !.buf = From(@, 4), !.command = b[2]]
           type == b[4]
           length == 3 + IF type = 3 THEN Signed(b[5]) + 1 ELSE AddressLength[type]
       IN IF b[1] # 5 \/ b[3] # 0 THEN Closes(d)
          ELSE IF type \notin DOMAIN AddressLength THEN EstablishFail(d, 8)
          ELSE HandleRequest([d EXCEPT !.addr_len = length, !.state = "WaitingForRequest"])

HandleMethods(c) ==
  IF c.buf = <<>> \/ Len(c.buf) < c.n_methods THEN c
  ELSE LET d == [c EXCEPT !.buf = AfterRead(@, c.n_methods)]
       IN IF c.version # 5 \/ 0 \notin ToSet(Readable(c.buf, c.n_methods))
          THEN Closes(Writes(d, [method |-> 255]))
          ELSE HandleRequestHeader(
                 Writes([d EXCEPT !.state = "WaitingForRequestHeader"], [method |-> 0]))

HandleMethodHeader(c) ==
  IF Len(c.buf) < 2 THEN c
  ELSE HandleMethods([c EXCEPT !.buf = From(@, 3), !.version = c.buf[1],
                               !.n_methods = Signed(c.buf[2]), !.state = "WaitingForMethods"])

ReadFromSocket(c) ==
  CASE c.state = "WaitingForMethodHeader" -> HandleMethodHeader(c)
    [] c.state = "WaitingForMethods" -> HandleMethods(c)
    [] c.state = "WaitingForRequestHeader" -> HandleRequestHeader(c)
    [] c.state = "WaitingForRequest" -> HandleRequest(c)
    [] c.state = "Connected" -> HandleConnected(c)

-----------------------------------------------------------------------------
(* Steps *)

Does(c) ==
  /\ conn' = [c EXCEPT !.up = <<>>, !.out = <<>>]
  /\ up' = up \o c.up
  /\ out' = out \o c.out

\* readyRead: n more bytes are there.
Arrive(n) ==
  /\ conn.open /\ pos + n <= Len(script)
  /\ pos' = pos + n
  /\ Does(ReadFromSocket([conn EXCEPT !.buf = @ \o SubSeq(script, pos + 1, pos + n)]))
  /\ UNCHANGED <<script, peer, udp, down>>

\* disconnected: the application closes its socket.
Close ==
  /\ conn.open
  /\ Does(Closes(conn))
  /\ UNCHANGED <<script, pos, peer, udp, down>>

\* The datagram made of a UDP_RESPONSE.
HandleUdpResponse(p) ==
  <<0, 0, 0>> \o SerializeSocksAddress(p.address, p.host, p.port) \o p.data

\* A packet for this connection; the tunnel knows it until it is closed.
IncomingDownstreamPacket(p) ==
  /\ conn.id /\ conn.open /\ down < MaxDown
  /\ down' = down + 1
  /\ \/ /\ p.type = "FINISHED"
        /\ Does(Closes(conn))
        /\ UNCHANGED udp
     \/ /\ p.type = "TCP_RESPONSE" /\ conn.command = 1
        /\ Does(Writes(conn, [data |-> p.data]))
        /\ UNCHANGED udp
     \/ /\ p.type = "UDP_RESPONSE" /\ conn.command = 3
        /\ udp' = IF peer = None THEN udp
                  ELSE [udp EXCEPT !.answered =
                          @ \cup {[to |-> peer, packet |-> p, bytes |-> HandleUdpResponse(p)]}]
        /\ UNCHANGED <<conn, up, out>>
  /\ UNCHANGED <<script, pos, peer>>

\* UdpProcessDatagram: whether the datagram goes up, and as what.
UdpProcessDatagram(d) ==
  LET a == ParseSocksAddress(From(d.bytes, 4))
  IN IF Len(d.bytes) < 6 \/ d.bytes[1] # 0 \/ d.bytes[2] # 0 \/ d.bytes[3] # 0 \/ ~a.ok THEN <<>>
     ELSE <<[type |-> "UDP_REQUEST", host |-> a.host, port |-> a.port,
             data |-> From(d.bytes, 4 + a.read)]>>

\* The UDP socket has no part in Close: it is read until it is deleted.
UdpReadFromSocket(d) ==
  /\ conn.id /\ conn.command = 3 /\ down < MaxDown
  /\ down' = down + 1
  /\ peer' = IF peer = None THEN d.peer ELSE peer
  /\ IF peer \in {None, d.peer}
     THEN /\ up' = up \o UdpProcessDatagram(d)
          /\ udp' = [udp EXCEPT !.heard = @ \cup {d.peer}]
     ELSE UNCHANGED <<up, udp>>
  /\ UNCHANGED <<script, pos, conn, out>>

Init ==
  /\ script \in Scripts
  /\ pos = 0
  /\ conn \in [state : {"WaitingForMethodHeader"}, buf : {<<>>}, open : {TRUE}, version : {0},
               n_methods : {0}, command : {0}, addr_len : {0}, id : {FALSE}, up : {<<>>},
               out : {<<>>}, binds : Binds]
  /\ up = <<>>
  /\ out = <<>>
  /\ peer = None
  /\ udp = [heard |-> {}, answered |-> {}]
  /\ down = 0

Packets ==
  {[type |-> "FINISHED"]}
  \cup [type : {"TCP_RESPONSE"}, data : Responses]
  \cup {[type |-> "UDP_RESPONSE", address |-> h.address, host |-> h.host, port |-> h.port, data |-> d] :
           h \in Hosts, d \in Responses}
Next ==
  \/ \E n \in 1..Len(script) : Arrive(n)
  \/ Close
  \/ \E p \in Packets : IncomingDownstreamPacket(p)
  \/ \E d \in Datagrams : UdpReadFromSocket(d)

Spec == Init /\ [][Next]_vars

-----------------------------------------------------------------------------
(* Properties *)

\* What a SOCKS5 server is to make of the bytes s, all at once: the packets and
\* replies, the data in one piece.  A name of more than 127 bytes is refused:
\* its length is a signed char.
Outcome(s) ==
  LET n == IF Signed(s[2]) < 0 THEN 0 ELSE Signed(s[2])
      chosen == s[1] = 5 /\ 0 \in ToSet(SubSeq(s, 3, 2 + n))
      r == From(s, 3 + n)
      known == r[4] \in DOMAIN AddressLength
      a == ParseSocksAddress(From(r, 4))
      data == From(r, 4 + a.read)
      start == IF r[2] = 1 THEN [type |-> "TCP_START", host |-> a.host, port |-> a.port]
               ELSE [type |-> "UDP_START"]
      ends == <<[type |-> "FINISHED"]>>
      no == [up |-> <<>>, out |-> <<>>]
  IN IF Len(s) < 3 \/ Len(s) < 2 + n THEN no
     ELSE IF ~chosen THEN [no EXCEPT !.out = <<[method |-> 255]>>]
     ELSE LET yes == [no EXCEPT !.out = <<[method |-> 0]>>] IN
     IF Len(r) < 5 \/ r[1] # 5 \/ r[3] # 0 THEN yes
     ELSE IF ~known \/ (r[4] = 3 /\ r[5] > 127 /\ Len(r) >= r[5] - 249) THEN [yes EXCEPT !.out = Append(@, [reply |-> 8])]
     ELSE IF ~a.ok THEN yes
     ELSE IF r[2] \notin {1, 3} THEN [yes EXCEPT !.out = Append(@, [reply |-> 7])]
     ELSE IF r[2] = 3 /\ ~conn.binds THEN [yes EXCEPT !.out = Append(@, [reply |-> 1])]
     ELSE [out |-> Append(yes.out, [reply |-> 0]),
           up |-> <<start>> \o (IF data = <<>> THEN <<>>
                               ELSE IF r[2] = 3 THEN ends
                               ELSE <<[type |-> "TCP_REQUEST", data |-> data]>>)]

\* The packets with the data of the TCP_REQUESTs in one.
Joined(ps) ==
  LET isData(p) == p.type = "TCP_REQUEST"
      data == FlattenSeq([i \in 1..Len(SelectSeq(ps, isData)) |-> SelectSeq(ps, isData)[i].data])
      rest == SelectSeq(ps, LAMBDA p : ~isData(p) /\ p.type # "UDP_REQUEST")
  IN IF data = <<>> THEN rest
     ELSE <<rest[1], [type |-> "TCP_REQUEST", data |-> data]>> \o From(rest, 2)

\* What goes up and what is answered depends on the bytes alone and not on how
\* they were cut (the waiting states of ReadFromSocket); once the application
\* or the far end has closed, nothing but one FINISHED follows.
Independent ==
  LET o == Outcome(SubSeq(script, 1, pos))
      ended == ~conn.open /\ conn.id /\ o.up # <<>> /\ Last(o.up).type # "FINISHED"
      replies == SelectSeq(out, LAMBDA r : "data" \notin DOMAIN r)
  IN /\ Joined(up) = o.up \o (IF ended THEN <<[type |-> "FINISHED"]>> ELSE <<>>)
     /\ replies = o.out

\* A UDP association serves one peer: only its datagrams go up, and only it is
\* answered, with datagrams that name the host they come from as its own do
\* (_udp_peer, SerializeSocksAddress).
OnePeer ==
  /\ udp.heard \subseteq {peer}
  /\ \A r \in udp.answered :
       LET read == UdpProcessDatagram([bytes |-> r.bytes]) IN
       /\ r.to \in udp.heard
       /\ read # <<>> /\ read[1].host = r.packet.host /\ read[1].port = r.packet.port
       /\ read[1].data = r.packet.data
=============================================================================
