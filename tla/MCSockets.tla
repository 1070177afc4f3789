----------------------------- MODULE MCSockets -----------------------------
(* Instances of DatagramSockets: one plan for each thing that can go wrong *)
(* between the calls of applications and the packets that arrive.          *)
EXTENDS DatagramSockets

CONSTANTS s1, s2, s3

MCHosts == [family \in {4, 6} |-> IF family = 4 THEN <<"A", "B">> ELSE <<"A">>]
MCOnLink == [a \in {"A", "B"} |-> IF a = "A" THEN {"R"} ELSE {"Q"}]

Plain == [family |-> 4, type |-> "dgram", proto |-> Udp, reuseaddr |-> FALSE, reuseport |-> FALSE,
          v6only |-> FALSE, recverr |-> FALSE, no_check6_rx |-> FALSE, broadcast |-> FALSE,
          excluded |-> {}, session |-> FALSE]
V6 == [Plain EXCEPT !.family = 6]
Shared == [Plain EXCEPT !.reuseport = TRUE]
Raw(family) == [Plain EXCEPT !.family = family, !.type = "raw", !.proto = Icmp(family)]
Stream(family) == [Plain EXCEPT !.family = family, !.type = "stream", !.session = TRUE, !.recverr = TRUE]

Unbound == [laddr |-> Unspecified, lport |-> 0, raddr |-> Unspecified, rport |-> 0]
Connected == [laddr |-> "A", lport |-> 9, raddr |-> "R", rport |-> 5]

Plan(o1, o2, o3, calls) ==
    LET opts == (s1 :> o1) @@ (s2 :> o2) @@ (s3 :> o3)
    IN  [options |-> opts,
         at |-> [s \in Socket |-> IF opts[s].type = "stream" THEN Connected ELSE Unbound],
         todo |-> calls]

Bind(s, addr, port) == [op |-> "bind", sock |-> s, addr |-> addr, port |-> port]
Connect(s, addr, port) == [op |-> "connect", sock |-> s, addr |-> addr, port |-> port]
Send(s) == [op |-> "send", sock |-> s]
SendTo(s, addr, port) == [op |-> "sendto", sock |-> s, addr |-> addr, port |-> port]
Receive(op, s, wait, n) == [op |-> op, sock |-> s, wait |-> wait, n |-> n]
Close(s) == [op |-> "close", sock |-> s]

Datagram(family, dst, port, src, sport, n) ==
    [op |-> "arrive", proto |-> Udp, family |-> family, src |-> src, dst |-> dst, sport |-> sport,
     dport |-> port, checksum |-> TRUE, extended |-> FALSE, n |-> n]
Inner(proto, port, rport) ==
    [proto |-> proto, laddr |-> "A", lport |-> port, raddr |-> "R", rport |-> rport, in_window |-> TRUE]
Error(family, kind, code, mtu, inner) ==
    [op |-> "arrive", proto |-> Icmp(family), family |-> family, src |-> "S", dst |-> "A", kind |-> kind,
     code |-> code, mtu |-> mtu, inner |-> inner, extended |-> FALSE]
Echo(kind, family, dst, extended) ==
    [op |-> "arrive", proto |-> Icmp(family), family |-> family, src |-> "R", dst |-> dst, kind |-> kind,
     extended |-> extended]

(* Three readers, two datagrams, one close. *)
Readers(o) == Plan(o, Plain, Plain,
    {Bind(s1, "A", 5), Receive("recv", s1, TRUE, 1), Receive("recvfrom", s1, TRUE, 2), Receive("recv", s1, FALSE, 3),
     Receive("recvmsg", s1, TRUE, 4), Datagram(4, "A", 5, "R", 6, 1), Datagram(4, "A", 5, "R", 6, 2), Close(s1)})

(* Overlapping bindings, and the datagrams that tell them apart. *)
Overlap(o1, o2, o3) == Plan(o1, o2, o3,
    {Bind(s1, Unspecified, 5), Bind(s2, "A", 5), Connect(s2, "R", 6), Bind(s3, "B", 5), Connect(s1, "S", 6),
     Close(s1), Datagram(o2.family, "A", 5, "R", 6, 1), Datagram(o2.family, "A", 5, "S", 6, 2)})

(* Ports the stack chooses, taken and given back. *)
Ports == Plan(Plain, [Plain EXCEPT !.broadcast = TRUE], V6,
    {SendTo(s1, "R", 6), SendTo(s1, Broadcast, 6), SendTo(s2, Broadcast, 6), Send(s2), Connect(s2, "Q", 6),
     Bind(s3, Unspecified, 0), Close(s1), Bind(s1, "A", 0), Connect(s3, Unspecified, 6)})

(* ICMP errors about datagrams, on a socket that connects anew. *)
UdpErrors(family, kind, code, mtu) ==
    Plan([Plain EXCEPT !.family = family, !.recverr = TRUE], Plain, Plain,
    {Bind(s1, "A", 5), Connect(s1, "R", 6), Connect(s1, "S", 6), Send(s1), Receive("recv", s1, TRUE, 1),
     Receive("errqueue", s1, TRUE, 2), Close(s1),
     Error(family, kind, code, mtu, Inner("udp", 5, 6)), Error(family, kind, code, mtu, Inner("none", 0, 0))})

(* More errors than the queue holds, about a connection, with readers. *)
TcpErrors(family, kind, code, mtu) ==
    Plan(Stream(family), [Plain EXCEPT !.recverr = TRUE, !.family = family], Plain,
    {Receive("errqueue", s1, TRUE, 1), Receive("errqueue", s1, FALSE, 2), Receive("errqueue", s1, TRUE, 3),
     Error(family, kind, code, mtu, Inner("tcp", 9, 5)), Error(family, "unreachable", 1, 0, Inner("tcp", 9, 5)),
     Error(family, "time_exceeded", 0, 0, Inner("tcp", 9, 5)),
     Error(family, kind, code, mtu, [Inner("tcp", 9, 5) EXCEPT !.in_window = FALSE]),
     Error(family, kind, code, mtu, Inner("tcp", 9, 4))})

(* A group with a source filter, shared ports, and unclaimed datagrams. *)
Groups == Plan(Shared, [Shared EXCEPT !.excluded = {"S"}], Plain,
    {Bind(s1, Unspecified, 5), Bind(s2, Unspecified, 5), Bind(s3, "A", 5), Close(s1),
     Datagram(4, "group", 5, "S", 6, 1), Datagram(4, "group", 5, "R", 6, 2), Datagram(4, "A", 5, "R", 6, 3),
     Datagram(4, "A", 8, "R", 6, 4)})

Unanswered == Plan(Plain, Plain, Plain,
    {Datagram(4, "A", 5, "R", 6, 1), Datagram(4, "A", 5, "R", 6, 2), Datagram(4, "A", 5, "R", 6, 3),
     Datagram(4, Broadcast, 5, "R", 6, 1), Datagram(4, "A", 7, "R", 6, 1), Datagram(4, "A", 5, Unspecified, 6, 1),
     Bind(s1, "A", 5)})

(* Zero checksums over IPv6, on a shared port with one member opted in. *)
ZeroChecksum == Plan([V6 EXCEPT !.reuseport = TRUE], [V6 EXCEPT !.reuseport = TRUE, !.no_check6_rx = TRUE], V6,
    {Bind(s1, "A", 5), Bind(s2, "A", 5), Close(s1), Bind(s3, Unspecified, 5),
     [Datagram(6, "A", 5, "R", 6, 1) EXCEPT !.checksum = FALSE], [Datagram(6, "A", 5, "R", 6, 2) EXCEPT !.checksum = FALSE],
     Datagram(6, "A", 5, "R", 6, 3)})

(* DHCP clients of both families, which have no address yet. *)
DhcpClients == Plan([Plain EXCEPT !.broadcast = TRUE], V6, Raw(4),
    {Bind(s1, Unspecified, 68), Connect(s1, Broadcast, 67), Send(s1), Datagram(4, "A", 68, "R", 67, 1),
     Bind(s2, Unspecified, 546), Connect(s2, "dhcp6", 547), SendTo(s2, "dhcp6", 547), Datagram(6, "A", 546, "R", 547, 1)})

(* RAW sockets and echoes; the RAW socket takes ICMP errors as well. *)
Pings(family) == Plan(Raw(family), [Plain EXCEPT !.family = family], Plain,
    {Bind(s1, Unspecified, 0), Connect(s1, "R", 0), Send(s1), SendTo(s1, "S", 0), Receive("recv", s1, TRUE, 1),
     Close(s1), Receive("recvfrom", s1, TRUE, 2), Echo("echo_reply", family, "A", family = 6), Echo("echo_reply", family, "A", FALSE)})

(* Calls that fail, and the echo service. *)
Refused(family) == Plan(Raw(family), [Plain EXCEPT !.family = family], [Raw(family) EXCEPT !.excluded = {"R"}],
    {Bind(s1, "U", 0), Connect(s1, "U", 0), SendTo(s1, "U", 0), Bind(s2, "U", 5), Connect(s2, Unspecified, 6),
     Bind(s3, Unspecified, 0), Echo("echo_request", family, "group", FALSE), Echo("echo_request", family, "A", FALSE)})

MCPlans ==
    {Readers(Plain), Overlap(Plain, Plain, Plain), Overlap([Plain EXCEPT !.reuseaddr = TRUE], Plain, Shared),
     Overlap(V6, Plain, V6), Overlap([V6 EXCEPT !.v6only = TRUE], Plain, Plain), Overlap(Plain, V6, V6),
     Ports, Groups, Unanswered, ZeroChecksum, DhcpClients, Pings(4), Pings(6),
     Refused(4), Refused(6)}
    \cup {UdpErrors(4, "unreachable", 3, 0), UdpErrors(4, "unreachable", 4, 3), UdpErrors(4, "time_exceeded", 0, 0),
          UdpErrors(4, "parameter_problem", 0, 0), UdpErrors(6, "unreachable", 4, 0), UdpErrors(6, "too_big", 0, 3),
          UdpErrors(6, "time_exceeded", 0, 0), UdpErrors(6, "parameter_problem", 0, 0)}
    \cup {TcpErrors(4, "unreachable", 4, 3), TcpErrors(4, "parameter_problem", 0, 0), TcpErrors(4, "unreachable", 3, 0),
          TcpErrors(4, "time_exceeded", 1, 0), TcpErrors(6, "time_exceeded", 1, 0), TcpErrors(6, "unreachable", 4, 0),
          TcpErrors(6, "parameter_problem", 0, 0), TcpErrors(6, "too_big", 0, 3)}

=============================================================================
