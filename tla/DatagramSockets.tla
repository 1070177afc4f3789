-------------------------- MODULE DatagramSockets --------------------------
(***************************************************************************)
(* The UDP and RAW sockets, the table they are looked up in, and what the  *)
(* receive path does with them: bind, connect, send, the blocking reads,   *)
(* close, the demultiplexing of a received packet to a socket, the ICMP    *)
(* port-unreachable answer when there is none, and the ICMP errors that    *)
(* come back and are handed to the socket (UDP or TCP) that caused them.   *)
(*                                                                         *)
(* Everything runs on one event loop, so a call up to its first await, and *)
(* the rest of a read after it, are one action each.  What remains to be   *)
(* done is in todo: the calls an application has not made yet and the      *)
(* packets that have not arrived yet, in any order.                        *)
(*                                                                         *)
(* A TCP socket appears here only as the addressee of ICMP errors: its     *)
(* session is an option, and the events given to it are collected.         *)
(***************************************************************************)
EXTENDS Integers, Sequences, FiniteSets, TLC

CONSTANTS
    Socket,      \* the sockets
    None,        \* no socket, no adapter
    Hosts,       \* the addresses of the stack by family, in interface order
    OnLink,      \* the remote addresses in the network of a local address
    Routed,      \* the remote addresses a route with no preferred source covers
    Ephemeral,   \* STACK__EPHEMERAL_PORT_RANGE
    MaxQueue,    \* SOCKET__DGRAM_RX_QUEUE__MAX_LEN
    MaxErrors,   \* ERROR_QUEUE__MAX_LEN
    Burst,       \* ICMP__ERROR__BURST
    EchoNative,  \* UDP__ECHO_NATIVE
    AnswerAll,   \* ICMP4__ECHO_IGNORE_BROADCASTS is 0
    Plans        \* what the applications do and the network delivers

ASSUME LimitsArePositive ==
    /\ {MaxQueue, MaxErrors, Burst} \subseteq Nat \ {0}
    /\ Ephemeral \subseteq Nat \ {0}

(* A call names its socket, and a UDP socket starts without a port. *)
ASSUME PlansAreCalls ==
    \A plan \in Plans :
        /\ \A c \in plan.todo : /\ c.op # "arrive" => c.sock \in Socket
                                /\ c.op = "bind" => c.port \in Nat
        /\ \A s \in Socket : plan.options[s].type = "dgram" => plan.at[s].lport = 0

VARIABLES
    options,   \* what setsockopt has set on each socket
    socks,     \* the state of each socket
    table,     \* SocketTable: identifier -> cohort and round-robin cursor
    tokens,    \* the tokens of the two ICMP error rate limiters
    pmtu,      \* stack.pmtu_cache
    engines,   \* stack.pmtu_state: whose search engine a destination has
    sent,      \* the packets given to the transmit path
    reading,   \* the reads waiting on a semaphore
    todo       \* the calls and the arrivals still to come

vars == <<options, socks, table, tokens, pmtu, engines, sent, reading, todo>>

Unspecified == "any"
Broadcast == "broadcast"
Udp == 17
Icmp(family) == IF family = 4 THEN 1 ELSE 58
HopByHop == 0
Multicast == {"group", "dhcp6", "dhcp6 servers"}
Unicast(family) == {Hosts[family][i] : i \in DOMAIN Hosts[family]}
Least(S) == CHOOSE x \in S : \A y \in S : x <= y

(* The list without the entry at one of the places; no list here holds an *)
(* entry twice.                                                            *)
Without(list, places) ==
    LET k == CHOOSE i \in places : TRUE
    IN  IF places = {} THEN list
        ELSE [i \in 1..(Len(list) - 1) |-> list[IF i < k THEN i ELSE i + 1]]

-----------------------------------------------------------------------------
(* A queue and the asyncio.Semaphore that counts it.                       *)

EmptyQueue == [queue |-> <<>>, value |-> 0, waiters |-> <<>>]

(* Semaphore.locked(): no permit, or somebody is already in line. *)
locked(q) == q.value = 0 \/ q.waiters # <<>>

(* Semaphore._wake_up_next(), at most n times. *)
wake_up(q, n) ==
    LET pending == {i \in DOMAIN q.waiters : ~q.waiters[i].granted}
        first   == {i \in pending : Cardinality({j \in pending : j < i}) < n}
    IN  [q EXCEPT !.value   = @ - Cardinality(first),
                  !.waiters = [i \in DOMAIN @ |->
                      [call |-> @[i].call, granted |-> @[i].granted \/ i \in first]]]

release(q) == wake_up([q EXCEPT !.value = @ + 1], 1)

enter(q, call) == [q EXCEPT !.waiters = Append(@, [call |-> call, granted |-> FALSE])]

granted(q, call) == \E i \in DOMAIN q.waiters : q.waiters[i].call = call /\ q.waiters[i].granted

(* The end of Semaphore.acquire: a cancelled waiter gives back its permit, *)
(* and those that queued up meanwhile are woken while permits last.        *)
leave(q, call, back) ==
    LET mine == {i \in DOMAIN q.waiters : q.waiters[i].call = call}
        rest == [q EXCEPT !.waiters = Without(@, mine), !.value = @ + back]
    IN  wake_up(rest, rest.value)

-----------------------------------------------------------------------------
(* The socket table.                                                       *)

socket_id(s, rec) ==
    [family |-> options[s].family, type |-> options[s].type,
     laddr |-> rec.laddr, lport |-> rec.lport, raddr |-> rec.raddr, rport |-> rec.rport]

register(tbl, s, id) ==
    IF id \notin DOMAIN tbl
    THEN [i \in DOMAIN tbl \cup {id} |-> IF i = id THEN [cohort |-> <<s>>, cursor |-> 0] ELSE tbl[i]]
    ELSE IF \E i \in DOMAIN tbl[id].cohort : tbl[id].cohort[i] = s THEN tbl
    ELSE [tbl EXCEPT ![id].cohort = Append(@, s)]

unregister(tbl, s, id) ==
    IF id \notin DOMAIN tbl THEN tbl
    ELSE LET mine == {i \in DOMAIN tbl[id].cohort : tbl[id].cohort[i] = s}
             rest == Without(tbl[id].cohort, mine)
         IN  IF rest = <<>> THEN [i \in DOMAIN tbl \ {id} |-> tbl[i]]
             ELSE [tbl EXCEPT ![id].cohort = rest]

Registered == UNION {{table[id].cohort[i] : i \in DOMAIN table[id].cohort} : id \in DOMAIN table}

(* SocketTable.get: the member whose turn it is, and the turn passed on. *)
get(entry) == entry.cohort[(entry.cursor % Len(entry.cohort)) + 1]
turn(entry) ==
    IF Len(entry.cohort) = 1 THEN entry
    ELSE [entry EXCEPT !.cursor = (@ + 1) % Len(entry.cohort)]

(* The loop "for socket_id in socket_ids: if socket := sockets.get(...)":  *)
(* the first socket found that is in ok, and the table after the lookups.  *)
walk(tbl, ids, ok) ==
    LET hits == {i \in DOMAIN ids : ids[i] \in DOMAIN tbl /\ get(tbl[ids[i]]) \in ok}
        last == IF hits = {} THEN Len(ids) ELSE Least(hits)
    IN  [sock  |-> IF hits = {} THEN None ELSE get(tbl[ids[last]]),
         table |-> [id \in DOMAIN tbl |->
                       IF \E i \in 1..last : ids[i] = id THEN turn(tbl[id]) ELSE tbl[id]]]

Rebind(s, rec) ==
    /\ table' = register(unregister(table, s, socket_id(s, socks[s])), s, socket_id(s, rec))
    /\ socks' = [socks EXCEPT ![s] = rec]

-----------------------------------------------------------------------------
(* Choosing local addresses and ports (socket__bind_helpers).              *)

pick_local_ip_address(family, remote) ==
    LET near == {i \in DOMAIN Hosts[family] : remote \in OnLink[Hosts[family][i]]}
    IN  IF near # {} THEN Hosts[family][Least(near)]
        ELSE IF remote \in Routed /\ Hosts[family] # <<>> THEN Hosts[family][1]
        ELSE Unspecified

pick_local_port == Ephemeral \ {socks[s].lport : s \in Registered}

(* Seeded fault: a wildcard binding is not seen as overlapping. *)
is_address_in_use_ExactOnly(s, addr, port) ==
    \E t \in Registered :
        /\ options[t].type = options[s].type
        /\ options[t].family = options[s].family
        /\ socks[t].lport = port
        /\ socks[t].laddr = addr
        /\ ~(options[s].reuseport /\ options[t].reuseport)

is_address_in_use(s, addr, port) ==
    \E t \in Registered :
        LET same  == options[t].family = options[s].family
            wide6 == \/ options[t].family = 6 /\ ~options[t].v6only /\ socks[t].laddr = Unspecified
                     \/ options[s].family = 6 /\ ~options[s].v6only /\ addr = Unspecified
        IN  /\ options[t].type = options[s].type
            /\ socks[t].lport = port
            /\ IF same THEN Unspecified \in {socks[t].laddr, addr} \/ socks[t].laddr = addr ELSE wide6
            /\ ~(options[s].reuseport /\ options[t].reuseport)

has_route_to(family, remote) ==
    \/ remote \in Multicast \cup {Broadcast}
    \/ remote \in Routed
    \/ \E a \in Unicast(family) : remote \in OnLink[a]

IsDhcpClient(family, lport, rport) ==
    \/ family = 4 /\ lport = 68 /\ rport = 67
    \/ family = 6 /\ lport = 546 /\ rport = 547

(* The source address of a call to remote, None when there is none to use  *)
(* and the call fails.  A DHCP client sends from no address at all.        *)
_get_ip_addresses(s, lport, remote, rport) ==
    LET picked == pick_local_ip_address(options[s].family, remote)
    IN  IF socks[s].laddr # Unspecified THEN socks[s].laddr
        ELSE IF options[s].type = "dgram" /\ IsDhcpClient(options[s].family, lport, rport) THEN Unspecified
        ELSE IF picked = Unspecified THEN None ELSE picked

(* The destination 0.0.0.0 or :: marks a UDP socket unreachable. *)
Marked(s, remote) ==
    [socks[s] EXCEPT !.unreachable = @ \/ (options[s].type = "dgram" /\ remote = Unspecified)]

-----------------------------------------------------------------------------
(* The calls an application makes.                                         *)

Take(what) == what \in todo /\ todo' = todo \ {what}

NetworkUntouched == UNCHANGED <<options, tokens, pmtu, engines>>

udp_bind(c) ==
    LET s == c.sock
        ports == IF c.port > 0 THEN {c.port} ELSE pick_local_port
        refused == \/ socks[s].lport > 0
                   \/ c.addr \notin Unicast(options[s].family) \cup {Unspecified}
                   \/ c.port > 0 /\ ~options[s].reuseaddr /\ is_address_in_use(s, c.addr, c.port)
                   \/ ports = {}
    IN  /\ c.op = "bind" /\ options[s].type = "dgram"
        /\ IF refused THEN UNCHANGED <<socks, table>>
           ELSE \E port \in ports :
                    Rebind(s, [socks[s] EXCEPT !.laddr = c.addr, !.lport = port])
        /\ UNCHANGED <<sent, reading>>

raw_bind(c) ==
    LET s == c.sock
    IN  /\ c.op = "bind" /\ options[s].type = "raw"
        /\ IF c.addr \in Unicast(options[s].family) \cup {Unspecified}
           THEN Rebind(s, [socks[s] EXCEPT !.laddr = c.addr])
           ELSE UNCHANGED <<socks, table>>
        /\ UNCHANGED <<sent, reading>>

udp_connect(c) ==
    LET s == c.sock
        ports == IF socks[s].lport > 0 THEN {socks[s].lport} ELSE pick_local_port
        source == _get_ip_addresses(s, socks[s].lport, c.addr, c.port)
    IN  /\ c.op = "connect" /\ options[s].type = "dgram"
        /\ IF ports = {} THEN UNCHANGED <<socks, table>>
           ELSE IF source = None
           THEN socks' = [socks EXCEPT ![s] = Marked(s, c.addr)] /\ UNCHANGED table
           ELSE \E port \in ports :
                    Rebind(s, [Marked(s, c.addr) EXCEPT
                                  !.laddr = source, !.lport = port,
                                  !.raddr = c.addr, !.rport = c.port])
        /\ UNCHANGED <<sent, reading>>

raw_connect(c) ==
    LET s == c.sock
        source == _get_ip_addresses(s, socks[s].lport, c.addr, c.port)
    IN  /\ c.op = "connect" /\ options[s].type = "raw"
        /\ IF source # None
           THEN Rebind(s, [socks[s] EXCEPT !.laddr = source, !.raddr = c.addr, !.rport = c.port])
           ELSE UNCHANGED <<socks, table>>
        /\ UNCHANGED <<sent, reading>>

Packet(s, src, dst, dport) ==
    [kind |-> options[s].type, family |-> options[s].family, src |-> src, dst |-> dst,
     sport |-> socks[s].lport, dport |-> dport]

MayBroadcast(s, remote) == remote = Broadcast => options[s].broadcast

udp_send(c) ==
    LET s == c.sock
    IN  /\ c.op = "send" /\ options[s].type = "dgram"
        /\ IF Unspecified = socks[s].raddr \/ socks[s].rport = 0 THEN UNCHANGED <<socks, sent>>
           ELSE IF socks[s].unreachable
           THEN socks' = [socks EXCEPT ![s].unreachable = FALSE] /\ UNCHANGED sent
           ELSE /\ sent' = IF has_route_to(options[s].family, socks[s].raddr)
                              /\ MayBroadcast(s, socks[s].raddr)
                           THEN sent \cup {Packet(s, socks[s].laddr, socks[s].raddr, socks[s].rport)}
                           ELSE sent
                /\ UNCHANGED socks
        /\ UNCHANGED <<table, reading>>

raw_send(c) ==
    LET s == c.sock
    IN  /\ c.op = "send" /\ options[s].type = "raw"
        /\ sent' = IF socks[s].raddr # Unspecified /\ has_route_to(options[s].family, socks[s].raddr)
                   THEN sent \cup {Packet(s, socks[s].laddr, socks[s].raddr, 0)}
                   ELSE sent
        /\ UNCHANGED <<socks, table, reading>>

(* The port a first sendto takes stays taken when the send itself fails. *)
udp_sendto(c) ==
    LET s == c.sock
        ports == IF socks[s].lport > 0 THEN {socks[s].lport} ELSE pick_local_port
        goes == /\ has_route_to(options[s].family, c.addr)
                /\ MayBroadcast(s, c.addr)
    IN  /\ c.op = "sendto" /\ options[s].type = "dgram"
        /\ IF ports = {}
           THEN /\ table' = unregister(table, s, socket_id(s, socks[s]))
                /\ UNCHANGED <<socks, sent>>
           ELSE \E port \in ports :
                /\ IF socks[s].lport > 0
                   THEN socks' = [socks EXCEPT ![s] = Marked(s, c.addr)] /\ UNCHANGED table
                   ELSE Rebind(s, [Marked(s, c.addr) EXCEPT !.lport = port])
                /\ LET source == _get_ip_addresses(s, port, c.addr, c.port)
                   IN  sent' = IF source # None /\ goes
                               THEN sent \cup {[Packet(s, source, c.addr, c.port) EXCEPT !.sport = port]}
                               ELSE sent
        /\ UNCHANGED reading

raw_sendto(c) ==
    LET s == c.sock
        source == _get_ip_addresses(s, socks[s].lport, c.addr, c.port)
    IN  /\ c.op = "sendto" /\ options[s].type = "raw"
        /\ sent' = IF source # None /\ has_route_to(options[s].family, c.addr)
                   THEN sent \cup {Packet(s, source, c.addr, 0)}
                   ELSE sent
        /\ UNCHANGED <<socks, table, reading>>

-----------------------------------------------------------------------------
(* Reading, and closing.                                                   *)

Box(c) == IF c.op = "errqueue" THEN "errors" ELSE "rx"

(* Seeded fault: the reader that finds the socket closed keeps the permit. *)
Acquired_PermitKept(rec, c) ==
    IF c.op # "errqueue" /\ rec.closed THEN rec
    ELSE [rec EXCEPT ![Box(c)].queue = IF @ = <<>> THEN @ ELSE Tail(@)]

(* What a read does once it holds a permit: on a closed socket it passes   *)
(* the permit on to the next reader, otherwise it takes the oldest entry.  *)
(* The error queue is read without looking whether the socket is closed.   *)
Acquired(rec, c) ==
    IF c.op # "errqueue" /\ rec.closed THEN [rec EXCEPT !.rx = release(@)]
    ELSE [rec EXCEPT ![Box(c)].queue = IF @ = <<>> THEN @ ELSE Tail(@)]

(* _sem_acquire: take a free permit at once, else wait in line, or give up *)
(* if the socket does not block.                                           *)
_sem_acquire(c) ==
    LET s == c.sock
        q == socks[s][Box(c)]
    IN  /\ IF ~locked(q)
           THEN /\ socks' = [socks EXCEPT ![s] = Acquired([socks[s] EXCEPT ![Box(c)].value = @ - 1], c)]
                /\ UNCHANGED reading
           ELSE IF c.wait
           THEN /\ socks' = [socks EXCEPT ![s][Box(c)] = enter(@, c)]
                /\ reading' = reading \cup {c}
           ELSE UNCHANGED <<socks, reading>>
        /\ UNCHANGED <<table, sent>>

Read(c, op, type) == c.op = op /\ options[c.sock].type = type

_raise_if_closed(c) == socks[c.sock].closed /\ UNCHANGED <<socks, table, sent, reading>>

udp_recv(c) ==
    LET s == c.sock
    IN  /\ Read(c, "recv", "dgram")
        /\ \/ _raise_if_closed(c)
           \/ /\ ~socks[s].closed /\ socks[s].unreachable
              /\ socks' = [socks EXCEPT ![s].unreachable = FALSE]
              /\ UNCHANGED <<table, sent, reading>>
           \/ ~socks[s].closed /\ ~socks[s].unreachable /\ _sem_acquire(c)

UnlessClosed(c) == _raise_if_closed(c) \/ (~socks[c.sock].closed /\ _sem_acquire(c))

udp_recvfrom(c) == Read(c, "recvfrom", "dgram") /\ UnlessClosed(c)
udp_recvmsg(c) == Read(c, "recvmsg", "dgram") /\ UnlessClosed(c)
raw_recv(c) == Read(c, "recv", "raw") /\ UnlessClosed(c)
raw_recvfrom(c) == Read(c, "recvfrom", "raw") /\ UnlessClosed(c)
udp_recvmsg_errqueue(c) == Read(c, "errqueue", "dgram") /\ _sem_acquire(c)
tcp_recvmsg_errqueue(c) == Read(c, "errqueue", "stream") /\ _sem_acquire(c)

(* The read resumes with the permit it was granted. *)
Resume(c) ==
    /\ c \in reading
    /\ granted(socks[c.sock][Box(c)], c)
    /\ socks' = [socks EXCEPT ![c.sock] =
               Acquired([socks[c.sock] EXCEPT ![Box(c)] = leave(@, c, 0)], c)]
    /\ reading' = reading \ {c}
    /\ UNCHANGED <<options, table, tokens, pmtu, engines, sent, todo>>

(* The timeout of the read cancels the acquire; a permit granted in the    *)
(* same turn of the loop goes back and wakes the next reader.              *)
TimeOut(c) ==
    LET q == socks[c.sock][Box(c)]
        back == IF granted(q, c) THEN 1 ELSE 0
    IN  /\ c \in reading
        /\ socks' = [socks EXCEPT ![c.sock][Box(c)] = leave(@, c, back)]
        /\ reading' = reading \ {c}
        /\ UNCHANGED <<options, table, tokens, pmtu, engines, sent, todo>>

(* close() is synchronous; it wakes one reader, who wakes the next. *)
Closing(s) ==
    /\ table' = unregister(table, s, socket_id(s, socks[s]))
    /\ socks' = [socks EXCEPT ![s].closed = TRUE, ![s].rx = release(@)]
    /\ UNCHANGED <<sent, reading>>

udp_close(c) == c.op = "close" /\ options[c.sock].type = "dgram" /\ Closing(c.sock)
raw_close(c) == c.op = "close" /\ options[c.sock].type = "raw" /\ Closing(c.sock)

Call(c) ==
    /\ Take(c)
    /\ \/ udp_bind(c) \/ raw_bind(c) \/ udp_connect(c) \/ raw_connect(c)
       \/ udp_send(c) \/ raw_send(c) \/ udp_sendto(c) \/ raw_sendto(c)
       \/ udp_recv(c) \/ udp_recvfrom(c) \/ udp_recvmsg(c) \/ raw_recv(c) \/ raw_recvfrom(c)
       \/ udp_recvmsg_errqueue(c) \/ tcp_recvmsg_errqueue(c) \/ udp_close(c) \/ raw_close(c)
    /\ NetworkUntouched

-----------------------------------------------------------------------------
(* A packet arrives.                                                       *)

(* process_udp_packet and process_raw_packet *)
process_packet(rec, p) ==
    IF rec.closed \/ Len(rec.rx.queue) >= MaxQueue THEN rec
    ELSE [rec EXCEPT !.rx = release([rec.rx EXCEPT !.queue = Append(@, p)])]

Deliver(s, p) == socks' = [socks EXCEPT ![s] = process_packet(@, p)]

raw_socket_ids(p, proto) ==
    LET id(laddr, raddr) == [family |-> p.family, type |-> "raw", laddr |-> laddr,
                             lport |-> proto, raddr |-> raddr, rport |-> 0]
    IN  <<id(p.dst, p.src), id(p.dst, Unspecified), id(Unspecified, Unspecified)>>

(* Seeded fault: the wildcard identifier is tried before the local one. *)
udp_socket_ids_WildcardFirst(family, laddr, lport, raddr, rport) ==
    LET id(l, r, rp) == [family |-> family, type |-> "dgram", laddr |-> l,
                         lport |-> lport, raddr |-> r, rport |-> rp]
    IN  <<id(laddr, raddr, rport), id(Unspecified, Unspecified, 0), id(laddr, Unspecified, 0)>>

udp_socket_ids(family, laddr, lport, raddr, rport) ==
    LET id(l, r, rp) == [family |-> family, type |-> "dgram", laddr |-> l,
                         lport |-> lport, raddr |-> r, rport |-> rp]
    IN  IF family = 4 /\ lport = 68 /\ rport = 67
        THEN <<id(Unspecified, raddr, 67), id(Unspecified, Broadcast, 67)>>
        ELSE IF family = 6 /\ lport = 546 /\ rport = 547
        THEN <<id(Unspecified, "dhcp6", 547), id(Unspecified, "dhcp6 servers", 547)>>
        ELSE <<id(laddr, raddr, rport), id(laddr, Unspecified, 0), id(Unspecified, Unspecified, 0)>>

(* Ip4 source filters; a socket without one admits every source. *)
_ip4_multicast_source_admits(s, p) ==
    p.family = 4 /\ p.dst \in Multicast => p.src \notin options[s].excluded

(* The protocol number in the IP header: an IPv6 extension header hides   *)
(* the transport from the RAW lookup.                                     *)
OuterProto(p) == IF p.extended THEN HopByHop ELSE p.proto

RawMatch(p) == walk(table, raw_socket_ids(p, OuterProto(p)), Socket)

(* A RAW socket takes the packet away from the transport handlers. *)
ip_rx_raw(p) ==
    LET hit == RawMatch(p)
    IN  /\ hit.sock # None
        /\ table' = hit.table
        /\ IF _ip4_multicast_source_admits(hit.sock, p) THEN Deliver(hit.sock, p) ELSE UNCHANGED socks
        /\ UNCHANGED <<tokens, pmtu, engines, sent>>

inbound_src_invalid(p) == p.src \in Multicast \cup {Broadcast, Unspecified}

should_emit_icmp_error(p) == p.dst \notin Multicast \cup {Broadcast} /\ ~inbound_src_invalid(p)

(* try_emit_icmp_error: the limiter is asked only when an error may be sent. *)
PortUnreachable(p) ==
    IF should_emit_icmp_error(p) /\ tokens[p.family] >= 1
    THEN /\ tokens' = [tokens EXCEPT ![p.family] = @ - 1]
         /\ sent' = sent \cup {[kind |-> "unreachable", family |-> p.family, src |-> p.dst, dst |-> p.src,
                                sport |-> p.dport, dport |-> p.sport]}
    ELSE UNCHANGED <<tokens, sent>>

(* A zero checksum over IPv6 is accepted when a socket the datagram might  *)
(* go to has opted in; asking the table passes the turn on.                *)
retry_zero_cksum_ip6(ids) == walk(table, ids, {s \in Socket : options[s].no_check6_rx})

phrx_udp(p) ==
    LET ids   == udp_socket_ids(p.family, p.dst, p.dport, p.src, p.sport)
        zero  == p.family = 6 /\ ~p.checksum
        opted == retry_zero_cksum_ip6(ids)
        start == IF zero THEN opted.table ELSE table
        hit   == walk(start, ids, {s \in Socket : _ip4_multicast_source_admits(s, p)})
    IN  /\ p.proto = Udp /\ RawMatch(p).sock = None
        /\ IF zero /\ opted.sock = None
           THEN table' = opted.table /\ UNCHANGED <<socks, tokens, sent>>
           ELSE /\ table' = hit.table
                /\ IF hit.sock # None
                   THEN Deliver(hit.sock, p) /\ UNCHANGED <<tokens, sent>>
                   ELSE /\ IF p.src = Unspecified THEN UNCHANGED <<tokens, sent>>
                           ELSE IF EchoNative /\ p.dport = 7
                           THEN /\ sent' = sent \cup {[kind |-> "echo", family |-> p.family, src |-> p.dst,
                                                       dst |-> p.src, sport |-> 7, dport |-> p.sport]}
                                /\ UNCHANGED tokens
                           ELSE PortUnreachable(p)
                        /\ UNCHANGED socks
        /\ UNCHANGED <<pmtu, engines>>

EchoAnswer(p, source) ==
    sent \cup {[kind |-> "echo_reply", family |-> p.family, src |-> source, dst |-> p.src,
                sport |-> 0, dport |-> 0]}

IcmpMessage(p, family, kind) ==
    p.family = family /\ p.proto = Icmp(family) /\ p.kind = kind /\ RawMatch(p).sock = None

icmp4_echo_request(p) ==
    LET group == p.dst \in Multicast \cup {Broadcast}
    IN  /\ IcmpMessage(p, 4, "echo_request")
        /\ sent' = IF group /\ ~AnswerAll THEN sent
                   ELSE EchoAnswer(p, IF group /\ Hosts[4] # <<>> THEN Hosts[4][1] ELSE p.dst)
        /\ UNCHANGED <<socks, table, tokens, pmtu, engines>>

icmp6_echo_request(p) ==
    /\ IcmpMessage(p, 6, "echo_request")
    /\ sent' = EchoAnswer(p, p.dst)
    /\ UNCHANGED <<socks, table, tokens, pmtu, engines>>

(* The ICMP handlers look for a RAW socket once more.  For IPv4 that is    *)
(* the lookup the IP handler has just made in vain; for IPv6 the socket of *)
(* ICMPv6 is found here when extension headers hid the protocol before.    *)
icmp4_echo_reply(p) ==
    /\ IcmpMessage(p, 4, "echo_reply")
    /\ UNCHANGED <<socks, table, tokens, pmtu, engines, sent>>

icmp6_echo_reply(p) ==
    LET hit == walk(table, raw_socket_ids(p, p.proto), Socket)
    IN  /\ IcmpMessage(p, 6, "echo_reply")
        /\ table' = hit.table
        /\ IF hit.sock # None THEN Deliver(hit.sock, p) ELSE UNCHANGED socks
        /\ UNCHANGED <<tokens, pmtu, engines, sent>>

-----------------------------------------------------------------------------
(* An ICMP error arrives.  inner is what parse_embedded_l4 reads from the  *)
(* packet it quotes: the protocol and the addresses and ports as this host *)
(* sent them; its proto is "none" when there is nothing to be read.        *)

icmp4_to_errno(kind, code) ==
    IF kind = "parameter_problem" THEN "EPROTO"
    ELSE IF kind = "time_exceeded" THEN "EHOSTUNREACH"
    ELSE CASE code \in {0, 6, 7, 9, 11} -> "ENETUNREACH"
           [] code = 2 -> "ENOPROTOOPT"
           [] code = 3 -> "ECONNREFUSED"
           [] code = 4 -> "EMSGSIZE"
           [] code = 5 -> "EOPNOTSUPP"
           [] code = 8 -> "EHOSTDOWN"
           [] OTHER -> "EHOSTUNREACH"

icmp6_to_errno(kind, code) ==
    IF kind = "parameter_problem" THEN "EPROTO"
    ELSE IF kind = "time_exceeded" THEN "EHOSTUNREACH"
    ELSE CASE code = 0 -> "ENETUNREACH"
           [] code \in {1, 5, 6} -> "EACCES"
           [] code = 4 -> "ECONNREFUSED"
           [] OTHER -> "EHOSTUNREACH"

build_icmp_error_entry(p) ==
    [errno |-> IF p.family = 6 THEN icmp6_to_errno(p.kind, p.code) ELSE icmp4_to_errno(p.kind, p.code),
     kind |-> p.kind, code |-> p.code, offender |-> p.src, info |-> 0]

(* Seeded fault: an append to the full queue releases a permit as well. *)
_enqueue_error_AlwaysReleases(rec, recverr, entry) ==
    IF ~recverr THEN rec
    ELSE [rec EXCEPT !.errors = release([rec.errors EXCEPT !.queue =
             IF Len(@) = MaxErrors THEN Append(Tail(@), entry) ELSE Append(@, entry)])]

(* The error queue is a deque that drops its oldest entry when it is full; *)
(* an append that only replaces an entry adds no permit.                   *)
_enqueue_error(rec, recverr, entry) ==
    IF ~recverr THEN rec
    ELSE IF Len(rec.errors.queue) = MaxErrors
    THEN [rec EXCEPT !.errors.queue = Append(Tail(@), entry)]
    ELSE [rec EXCEPT !.errors = release([rec.errors EXCEPT !.queue = Append(@, entry)])]

udp_notify_unreachable(rec, s, p) ==
    _enqueue_error([rec EXCEPT !.unreachable = TRUE], options[s].recverr, build_icmp_error_entry(p))

notify_error(rec, s, p) == _enqueue_error(rec, options[s].recverr, build_icmp_error_entry(p))

TooBigEntry(p) ==
    [errno |-> "EMSGSIZE", kind |-> p.kind, code |-> p.code, offender |-> p.src, info |-> p.mtu]

(* The adapter is made once, for the remote address of that moment. *)
_ensure_plpmtud_adapter(rec, family) ==
    IF rec.adapter # None THEN rec.adapter
    ELSE IF rec.raddr = Unspecified \/ ~has_route_to(family, rec.raddr) THEN None
    ELSE rec.raddr

(* The classical report is recorded for the destination the packet quotes  *)
(* and for the one the socket is connected to, and the search engine of    *)
(* the socket is published for the latter.                                 *)
udp_notify_pmtu(s, p, dst) ==
    LET rec == socks[s]
        adapter == _ensure_plpmtud_adapter(rec, p.family)
        heard == (<<p.family, rec.raddr>> :> p.mtu) @@ (<<p.family, dst>> :> p.mtu)
    IN  /\ pmtu' = heard @@ pmtu
        /\ engines' = IF adapter = None THEN engines
                      ELSE (<<p.family, rec.raddr>> :> adapter) @@ engines
        /\ socks' = [socks EXCEPT ![s] =
               _enqueue_error([rec EXCEPT !.adapter = adapter], options[s].recverr, TooBigEntry(p))]

IcmpError(p, family, kind) ==
    IcmpMessage(p, family, kind) /\ UNCHANGED <<tokens, sent>>

Unclaimed(hit) == hit.sock = None /\ UNCHANGED <<socks, pmtu, engines>>

(* The UDP socket a quoted datagram was sent from. *)
UdpOrigin(p) ==
    walk(table, udp_socket_ids(p.family, p.inner.laddr, p.inner.lport, p.inner.raddr, p.inner.rport), Socket)

(* The TCP socket of a quoted segment.  It hears of the error only with a  *)
(* session, and only if the quoted sequence number is in its window.       *)
TcpOrigin(p) ==
    walk(table, <<[family |-> p.family, type |-> "stream", laddr |-> p.inner.laddr, lport |-> p.inner.lport,
                   raddr |-> p.inner.raddr, rport |-> p.inner.rport]>>, Socket)

TcpHears(p) == TcpOrigin(p).sock # None /\ options[TcpOrigin(p).sock].session /\ p.inner.in_window

(* session.tcp_fsm(icmp=...) and then the notification of the socket. *)
TcpNotified(p, category, entry) ==
    LET s == TcpOrigin(p).sock
    IN  socks' = [socks EXCEPT ![s] =
            _enqueue_error([socks[s] EXCEPT !.signals = @ \cup {category}], options[s].recverr, entry)]

DispatchTcp(p, category, entry) ==
    /\ p.inner.proto = "tcp"
    /\ table' = TcpOrigin(p).table
    /\ IF TcpHears(p) THEN TcpNotified(p, category, entry) ELSE UNCHANGED socks
    /\ UNCHANGED <<pmtu, engines>>

DispatchUdp(p) ==
    /\ p.inner.proto = "udp"
    /\ table' = UdpOrigin(p).table
    /\ \/ Unclaimed(UdpOrigin(p))
       \/ LET s == UdpOrigin(p).sock
          IN  /\ s # None
              /\ socks' = [socks EXCEPT ![s] =
                     IF p.kind = "unreachable" THEN udp_notify_unreachable(@, s, p)
                     ELSE notify_error(@, s, p)]
              /\ UNCHANGED <<pmtu, engines>>

DispatchUdpPmtu(p) ==
    /\ p.inner.proto = "udp"
    /\ table' = UdpOrigin(p).table
    /\ \/ Unclaimed(UdpOrigin(p))
       \/ UdpOrigin(p).sock # None /\ udp_notify_pmtu(UdpOrigin(p).sock, p, p.inner.raddr)

Unparsed(p) == p.inner.proto = "none" /\ UNCHANGED <<socks, table, pmtu, engines>>

FragNeeded(p) == p.code = 4 /\ p.mtu # 0

icmp4_dispatch_udp(p) == IF FragNeeded(p) THEN DispatchUdpPmtu(p) ELSE DispatchUdp(p)

icmp4_dispatch_tcp(p) ==
    IF FragNeeded(p) THEN DispatchTcp(p, "pmtu", TooBigEntry(p))
    ELSE DispatchTcp(p, "unreachable", build_icmp_error_entry(p))

icmp4_destination_unreachable(p) ==
    /\ IcmpError(p, 4, "unreachable")
    /\ Unparsed(p) \/ icmp4_dispatch_udp(p) \/ icmp4_dispatch_tcp(p)

icmp4_time_exceeded(p) ==
    /\ IcmpError(p, 4, "time_exceeded")
    /\ Unparsed(p) \/ DispatchUdp(p) \/ DispatchTcp(p, p.kind, build_icmp_error_entry(p))

icmp4_parameter_problem(p) ==
    /\ IcmpError(p, 4, "parameter_problem")
    /\ Unparsed(p) \/ DispatchUdp(p) \/ DispatchTcp(p, p.kind, build_icmp_error_entry(p))

icmp6_destination_unreachable(p) ==
    /\ IcmpError(p, 6, "unreachable")
    /\ Unparsed(p) \/ DispatchUdp(p) \/ DispatchTcp(p, p.kind, build_icmp_error_entry(p))

icmp6_time_exceeded(p) ==
    /\ IcmpError(p, 6, "time_exceeded")
    /\ Unparsed(p) \/ DispatchUdp(p) \/ DispatchTcp(p, p.kind, build_icmp_error_entry(p))

icmp6_parameter_problem(p) ==
    /\ IcmpError(p, 6, "parameter_problem")
    /\ Unparsed(p) \/ DispatchUdp(p) \/ DispatchTcp(p, p.kind, build_icmp_error_entry(p))

icmp6_packet_too_big(p) ==
    /\ IcmpError(p, 6, "too_big")
    /\ Unparsed(p) \/ DispatchUdpPmtu(p) \/ DispatchTcp(p, "pmtu", TooBigEntry(p))

Arrive(p) ==
    /\ p.op = "arrive" /\ Take(p)
    /\ \/ ip_rx_raw(p) \/ phrx_udp(p)
       \/ icmp4_echo_request(p) \/ icmp6_echo_request(p) \/ icmp4_echo_reply(p) \/ icmp6_echo_reply(p)
       \/ icmp4_destination_unreachable(p) \/ icmp4_time_exceeded(p) \/ icmp4_parameter_problem(p)
       \/ icmp6_destination_unreachable(p) \/ icmp6_time_exceeded(p) \/ icmp6_parameter_problem(p)
       \/ icmp6_packet_too_big(p)
    /\ UNCHANGED <<options, reading>>

(* Time passes and the limiter earns a token. *)
Refill(family) ==
    /\ tokens[family] < Burst
    /\ tokens' = [tokens EXCEPT ![family] = @ + 1]
    /\ UNCHANGED <<options, socks, table, pmtu, engines, sent, reading, todo>>

-----------------------------------------------------------------------------
(* A socket as its constructor leaves it; a TCP socket is connected.       *)
Fresh(o, at) ==
    [laddr |-> at.laddr, lport |-> IF o.type = "raw" THEN o.proto ELSE at.lport,
     raddr |-> at.raddr, rport |-> at.rport,
     unreachable |-> FALSE, closed |-> FALSE, rx |-> EmptyQueue, errors |-> EmptyQueue,
     adapter |-> None, signals |-> {}]

Init ==
    \E plan \in Plans :
        /\ options = plan.options
        /\ socks = [s \in Socket |-> Fresh(plan.options[s], plan.at[s])]
        /\ table = [id \in {socket_id(s, socks[s]) : s \in {t \in Socket : options[t].type = "stream"}} |->
                       [cohort |-> <<CHOOSE s \in Socket : socket_id(s, socks[s]) = id>>, cursor |-> 0]]
        /\ tokens = [family \in {4, 6} |-> Burst]
        /\ pmtu = <<>>
        /\ engines = <<>>
        /\ sent = {}
        /\ reading = {}
        /\ todo = plan.todo

Next ==
    \/ \E c \in todo : Call(c) \/ Arrive(c)
    \/ \E c \in reading : Resume(c) \/ TimeOut(c)
    \/ \E family \in {4, 6} : Refill(family)

(* The event loop keeps running the reads that were granted a permit. *)
Spec == Init /\ [][Next]_vars /\ WF_vars(\E c \in reading : Resume(c))

-----------------------------------------------------------------------------
(* Properties.                                                             *)

GrantedIn(q) == Cardinality({i \in DOMAIN q.waiters : q.waiters[i].granted})

Counts(q) ==
    /\ q.value + GrantedIn(q) = Len(q.queue)
    /\ q.value > 0 => GrantedIn(q) > 0 \/ q.waiters = <<>>

(* On an open socket the permits of the receive semaphore, free or granted *)
(* to a reader that has not run yet, are exactly the queued datagrams, and *)
(* nobody waits while one is free unless a reader that will wake it is due *)
(* to run: no read pops an empty queue, none sleeps next to a datagram.    *)
(* The error queue keeps this across overflow and after close as well      *)
(* (udp__socket.py process_udp_packet, recv__mv, _enqueue_error).          *)
PermitsMatchQueue ==
    \A s \in Socket : (socks[s].closed \/ Counts(socks[s].rx)) /\ Counts(socks[s].errors)

Orphaned(c) == c.op # "errqueue" /\ socks[c.sock].closed

(* Every reader that is waiting for data when the socket is closed comes   *)
(* back: close() releases one permit only, and each woken reader passes it *)
(* on (udp__socket.py and raw__socket.py close, recv).                     *)
CloseWakesReaders ==
    (\E c \in reading : Orphaned(c)) ~> (\A c \in reading : ~Orphaned(c))

(* How well a socket fits a datagram: by all four of its addresses and     *)
(* ports, by the local address, by the port alone, or not at all.          *)
Fit(s, p) ==
    LET r == socks[s]
        open == r.raddr = Unspecified /\ r.rport = 0
    IN  IF s \notin Registered \/ options[s].type # "dgram" \/ options[s].family # p.family
           \/ r.lport # p.dport THEN 0
        ELSE IF r.laddr = p.dst /\ r.raddr = p.src /\ r.rport = p.sport THEN 3
        ELSE IF r.laddr = p.dst /\ open THEN 2
        ELSE IF r.laddr = Unspecified /\ open THEN 1 ELSE 0

(* Among the sockets that fit equally well one may refuse the datagram. *)
Refuses(s, p) == ~_ip4_multicast_source_admits(s, p)

(* A datagram that no RAW socket takes is queued on at most one socket,    *)
(* and no socket that fits it better is passed over, unless a socket there *)
(* filters its source.  When it is queued nowhere, the sockets it fits     *)
(* include one that is closed, full, filtering, or has not opted in to     *)
(* zero checksums; and the sender is told "port unreachable" only when     *)
(* each such group filters it (packet_handler__udp__rx.py _phrx_udp, the   *)
(* DHCP client ports apart).                                               *)
DeliveredToBest ==
    [][\A p \in todo \ todo' :
        LET grew == {s \in Socket : Len(socks'[s].rx.queue) > Len(socks[s].rx.queue)}
            Skipped(t) == \E u \in Socket : Fit(u, p) = Fit(t, p) /\ Refuses(u, p)
            Stuck(t) == \E u \in Socket :
                /\ Fit(u, p) = Fit(t, p)
                /\ socks[u].closed \/ Len(socks[u].rx.queue) = MaxQueue \/ Refuses(u, p)
        IN  p.op = "arrive" /\ p.proto = Udp /\ RawMatch(p).sock = None
                /\ ~IsDhcpClient(p.family, p.dport, p.sport) =>
            /\ Cardinality(grew) <= 1
            /\ \A s \in grew : /\ Fit(s, p) > 0
                               /\ \A t \in Socket : Fit(t, p) > Fit(s, p) => Skipped(t)
            /\ grew = {} /\ (p.family = 4 \/ p.checksum) =>
                   \A t \in Socket : Fit(t, p) > 0 => \E u \in Socket : Fit(u, p) >= Fit(t, p) /\ Stuck(u)
            /\ sent' # sent => \A t \in Socket : Fit(t, p) > 0 => Skipped(t)]_vars

(* No two open UDP sockets hold overlapping local addresses on one port    *)
(* unless one of them has SO_REUSEADDR or both have SO_REUSEPORT, whatever *)
(* bind, connect, sendto and close did before: within a family when either *)
(* address is the wildcard, across families when a dual-stack socket is on *)
(* the IPv6 wildcard (socket__bind_helpers.py is_address_in_use).          *)
BindingsDistinct ==
    \A s, t \in {u \in Registered : options[u].type = "dgram" /\ ~socks[u].closed} :
        LET wide6(u, v) == options[u].family = 6 /\ ~options[u].v6only /\ socks[u].laddr = Unspecified
                           /\ options[v].family = 4
        IN  s # t /\ socks[s].lport = socks[t].lport =>
            \/ options[s].reuseaddr \/ options[t].reuseaddr
            \/ options[s].reuseport /\ options[t].reuseport
            \/ IF options[s].family = options[t].family
               THEN Unspecified \notin {socks[s].laddr, socks[t].laddr} /\ socks[s].laddr # socks[t].laddr
               ELSE ~wide6(s, t) /\ ~wide6(t, s)

=============================================================================
