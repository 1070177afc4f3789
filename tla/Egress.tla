------------------------------- MODULE Egress -------------------------------
(***************************************************************************)
(* The way out of the stack: _phtx_ip4 and _phtx_ip6 (source validation    *)
(* and selection, destination gates, fragmentation), the route table they  *)
(* resolve the next hop in, and _phtx_ethernet, which finds the frame's    *)
(* destination MAC or parks the frame with the neighbour cache.  Every     *)
(* send runs in one stretch of the event loop, so it is one action.        *)
(*                                                                         *)
(* A packet is its addresses, TTL (0: not given), kind, payload length and *)
(* IPv4 options; a frame on the TX ring is what the ring was given, with   *)
(* the ghost field "of", the packet it carries.                            *)
(***************************************************************************)
EXTENDS NetAddr, FiniteSets

CONSTANTS Plans,       \* an interface, routes, packets to send and routes to add
          MaxRoutes    \* how many routes there are at a time

VARIABLES
  iface,    \* PacketHandler: addresses, groups, MTU, layer, sysctls, neighbours
  fib,      \* stack.ip4_fib and stack.ip6_fib in one sequence
  ip4_id,   \* PacketHandler._ip4_id
  ring,     \* the TX ring: every frame ever given to it
  parked,   \* frames waiting for their next hop's MAC
  todo,     \* the packets callers have yet to send
  offers    \* the routes that may be added

vars == << iface, fib, ip4_id, ring, parked, todo, offers >>

IP4__DEFAULT_TTL == 64
IP6__DEFAULT_HOP_LIMIT == 64
Drop(status) == [status |-> status]
Dropped(r) == "status" \in DOMAIN r
Use(src) == [src |-> src]

InNetwork(a, net) == Len(a) = Len(net[1]) /\ Masked(a, net[2]) = Masked(net[1], net[2])
LastOf(net) ==
  [i \in DOMAIN net[1] |->
     LET kept == net[2] - 8 * (i - 1)
         free == IF kept >= 8 THEN 0 ELSE IF kept <= 0 THEN 8 ELSE 8 - kept
     IN net[1][i] - (net[1][i] % 2 ^ free) + 2 ^ free - 1]
AddressesOf(ifaddrs) == [i \in DOMAIN ifaddrs |-> ifaddrs[i][1]]
ip4_broadcast == {LastOf(iface.ip4[i]) : i \in DOMAIN iface.ip4} \cup {Ones(4)}

-----------------------------------------------------------------------------
(* Source selection.                                                       *)

INTERFACE_LOCAL == 1
LINK_LOCAL == 2
GLOBAL == 14
ip4_address_scope(a) == IF Ip4Loopback(a) THEN INTERFACE_LOCAL ELSE IF Ip4LinkLocal(a) THEN LINK_LOCAL ELSE GLOBAL
ip6_address_scope(a) ==
  CASE Ip6Multicast(a) -> a[2] % 16
    [] Ip6Loopback(a)  -> INTERFACE_LOCAL
    [] Ip6LinkLocal(a) -> LINK_LOCAL
    [] OTHER           -> GLOBAL

AddressBit(a, k) == (a[1 + (k - 1) \div 8] \div 2 ^ (7 - ((k - 1) % 8))) % 2
common_prefix_len(a, b) ==
  LET apart == {k \in 1 .. 8 * Len(a) : AddressBit(a, k) # AddressBit(b, k)}
  IN IF apart = {} THEN 8 * Len(a) ELSE (CHOOSE k \in apart : \A j \in apart : k <= j) - 1

\* DEFAULT_POLICY_TABLE: << prefix, length, label >>, the first match counts.
PolicyTable ==
  << << Zeros(15) \o << 1 >>, 128, 0 >>, << Ip4MappedPrefix \o Zeros(4), 96, 4 >>, << Zeros(16), 96, 3 >>,
     << << 32, 1 >> \o Zeros(14), 32, 5 >>, << << 32, 2 >> \o Zeros(14), 16, 2 >>,
     << << 63, 254 >> \o Zeros(14), 16, 12 >>, << << 254, 192 >> \o Zeros(14), 10, 11 >>,
     << << 252 >> \o Zeros(15), 7, 13 >>, << Zeros(16), 0, 1 >> >>
PolicyLabel(a) ==
  PolicyTable[CHOOSE i \in DOMAIN PolicyTable :
                /\ InNetwork(a, PolicyTable[i])
                /\ \A j \in 1 .. (i - 1) : ~InNetwork(a, PolicyTable[j])][3]

\* Python's order of equally long tuples, and the first element of a list
\* that sort(key=..., reverse=True) puts in front.
TupleLess(s, t) == \E i \in DOMAIN s : s[i] < t[i] /\ \A j \in 1 .. (i - 1) : s[j] = t[j]
Winner(candidates, Key(_)) ==
  candidates[CHOOSE i \in DOMAIN candidates :
               /\ \A j \in DOMAIN candidates : ~TupleLess(Key(candidates[i]), Key(candidates[j]))
               /\ \A j \in 1 .. (i - 1) : TupleLess(Key(candidates[j]), Key(candidates[i]))]

ScopeRank(src, dst) == IF src >= dst THEN << 1, -src >> ELSE << 0, src >>
Rank4(src, dst) ==
  Append(ScopeRank(ip4_address_scope(src), ip4_address_scope(dst)), common_prefix_len(src, dst))
select_ip4_source(dst) ==
  LET candidates == AddressesOf(iface.ip4)
      Key(src) == Rank4(src, dst)
  IN IF candidates = << >> THEN << >>
     ELSE IF dst \in Range(candidates) THEN dst
     ELSE Winner(candidates, Key)

Rank6(src, dst) ==
  ScopeRank(ip6_address_scope(src), ip6_address_scope(dst))
  \o << IF src \in iface.deprecated THEN 0 ELSE 1,
        IF PolicyLabel(src) = PolicyLabel(dst) THEN 1 ELSE 0,
        IF iface.use_tempaddr = 2 /\ src \in iface.temporary THEN 1 ELSE 0,
        common_prefix_len(src, dst) >>

\* Seeded fault: the widest source there is, however narrow.
SelectIp6Widest(dst) ==
  LET candidates == AddressesOf(iface.ip6)
      Key(src) == Rank6(src, dst)
  IN IF candidates = << >> THEN << >>
     ELSE IF dst \in Range(candidates) THEN dst
     ELSE Winner(candidates, Key)

select_ip6_source(dst) ==
  LET candidates == AddressesOf(iface.ip6)
      Key(src) == Rank6(src, dst)
      winner == Winner(candidates, Key)
  IN IF candidates = << >> THEN << >>
     ELSE IF dst \in Range(candidates) THEN dst
     ELSE IF ip6_address_scope(winner) < ip6_address_scope(dst) THEN << >>
     ELSE winner

-----------------------------------------------------------------------------
(* The route table.  A route is its destination network, its gateway       *)
(* (<< >>: on the link), its metric and its interface.                     *)

ConnectedRoutes ==
  LET nets == iface.ip4 \o iface.ip6
  IN [i \in DOMAIN nets |-> [destination |-> << Masked(nets[i][1], nets[i][2]), nets[i][2] >>,
                             gateway |-> << >>, metric |-> 0, oif |-> iface.ifindex]]

\* Seeded fault: a cheaper route wins over a more specific one.
RouteKeyMetricFirst(r) == << -r.metric, r.destination[2], IF r.gateway = << >> THEN 1 ELSE 0 >>
RouteKey(r) == << r.destination[2], -r.metric, IF r.gateway = << >> THEN 1 ELSE 0 >>

\* RouteTable.lookup: the first of the best of the routes that match.
lookup(dst) ==
  LET Matches(r) == InNetwork(dst, r.destination)
      matches == SelectSeq(fib \o ConnectedRoutes, Matches)
  IN IF matches = << >> THEN << >> ELSE << Winner(matches, RouteKey) >>

RouteRemoved(destination, gateway) ==
  LET Kept(r) == ~(r.destination = destination /\ (gateway = << >> \/ r.gateway = gateway))
  IN SelectSeq(fib, Kept)
RoutesOffInterface(oif) == LET Kept(r) == r.oif # oif IN SelectSeq(fib, Kept)

-----------------------------------------------------------------------------
(* Ethernet: where a frame for a destination goes.                         *)

Out(mac) == [to |-> "ring", mac |-> mac]
Park(hop) == [to |-> "parked", hop |-> hop]
Nowhere == [to |-> "dropped"]

\* Through the route table and the neighbour cache of the interface.
NextHopFor(dst) ==
  LET route == lookup(dst)
      hop == IF route[1].gateway = << >> THEN dst ELSE route[1].gateway
  IN IF route = << >> THEN Nowhere
     ELSE IF hop \in DOMAIN iface.neighbours THEN Out(iface.neighbours[hop])
     ELSE Park(hop)

\* The network and the broadcast address of the network the source is in.
BroadcastsFrom(src) ==
  UNION {{Masked(n[1], n[2]), LastOf(n)} : n \in {m \in Range(iface.ip4) : m[1] = src}}

phtx_ethernet(src, dst) ==
  CASE Len(dst) = 16 /\ Ip6Multicast(dst)        -> Out(ip6_multicast_mac(dst))
    [] Len(dst) = 4 /\ Ip4Multicast(dst)         -> Out(ip4_multicast_mac(dst))
    [] Len(dst) = 4 /\ Ip4LimitedBroadcast(dst)  -> Out(Ones(6))
    [] Len(dst) = 4 /\ dst \in BroadcastsFrom(src) -> Out(Ones(6))
    [] OTHER                                     -> NextHopFor(dst)

\* What the frames of one packet, which share their addresses, do to the
\* ring and to the parked frames; an L3 interface has no next hop to find.
Emit(src, dst, frames) ==
  LET way == IF iface.layer = "L3" THEN Out(<< >>) ELSE phtx_ethernet(src, dst)
  IN /\ ring' = IF way.to = "ring" THEN ring \o [i \in DOMAIN frames |-> frames[i] @@ [mac |-> way.mac]]
                ELSE ring
     /\ parked' = IF way.to = "parked" THEN parked \o [i \in DOMAIN frames |-> frames[i] @@ [hop |-> way.hop]]
                  ELSE parked

-----------------------------------------------------------------------------
(* Fragmentation.                                                          *)

\* Seeded fault: the chunks are not cut at multiples of eight.
ChunksUnaligned(size, room) ==
  [i \in 1 .. ((size + room - 1) \div room) |->
     [off |-> (i - 1) * room, len |-> IF i * room >= size THEN size - (i - 1) * room ELSE room,
      mf |-> i * room < size]]

\* iter_fragment_chunks, for room of at least eight bytes.
iter_fragment_chunks(size, room) ==
  LET step == room - (room % 8)
  IN [i \in 1 .. ((size + step - 1) \div step) |->
        [off |-> (i - 1) * step, len |-> IF i * step >= size THEN size - (i - 1) * step ELSE step,
         mf |-> i * step < size]]

OptionsLen(options) == SumFunction([i \in DOMAIN options |-> options[i].len])
Copied(options) == LET IsCopied(o) == o.copied IN SelectSeq(options, IsCopied)
PaddedLen(options) == 4 * ((OptionsLen(options) + 3) \div 4)

\* The IPv4 header of a fragment: all options in the first, the copied ones,
\* padded, in the others.
FragmentHlen(options, off) == 20 + IF off = 0 THEN OptionsLen(options) ELSE PaddedLen(Copied(options))

-----------------------------------------------------------------------------
(* IPv4.                                                                   *)

IsDhcpClient(src, p) == Unspecified(src) /\ p.kind = "udp" /\ p.ports = << 68, 67 >>

validate_src_ip4_address(p) ==
  LET own == AddressesOf(iface.ip4)
      first == IF own = << >> THEN Drop("SRC_REPLACE") ELSE Use(own[1])
      OfBroadcast(n) == LastOf(n) = p.src
  IN IF ~(p.src \in Range(own) \cup iface.groups4 \cup ip4_broadcast \/ Unspecified(p.src)) THEN Drop("SRC_NOT_OWNED")
     ELSE IF p.src \in iface.groups4 THEN first
     ELSE IF Ip4LimitedBroadcast(p.src) THEN first
     ELSE IF p.src \in ip4_broadcast THEN Use(SelectSeq(iface.ip4, OfBroadcast)[1][1])
     ELSE IF IsDhcpClient(p.src, p) THEN Use(p.src)
     ELSE IF Unspecified(p.src) /\ select_ip4_source(p.dst) = << >> THEN Drop("SRC_UNSPECIFIED")
     ELSE IF Unspecified(p.src) THEN Use(select_ip4_source(p.dst))
     ELSE Use(p.src)

\* The gates between a valid source and the assembler.
Ip4Admitted(src, p) ==
  /\ ~Unspecified(p.dst)
  /\ (Ip4LimitedBroadcast(p.dst) \/ p.dst \in ip4_broadcast)
       => iface.allow_broadcast \/ IsDhcpClient(src, p)
  /\ Ip4LinkLocal(src) = Ip4LinkLocal(p.dst)

Ip4Frame(src, p, id, chunk, hlen) ==
  [of |-> p, src |-> src, dst |-> p.dst, id |-> id, chunk |-> chunk, hlen |-> hlen,
   ttl |-> IF p.ttl # 0 THEN p.ttl ELSE IF Ip4Multicast(p.dst) THEN 1 ELSE IP4__DEFAULT_TTL]
Whole(p) == [off |-> 0, len |-> p.size, mf |-> FALSE]

phtx_ip4(p) ==
  LET valid == validate_src_ip4_address(p)
      hlen == 20 + OptionsLen(p.options)
      fits == hlen + p.size <= iface.mtu
      id == (ip4_id + 1) % 65536
      chunks == iter_fragment_chunks(p.size, iface.mtu - hlen)
  IN /\ p \in todo /\ Len(p.dst) = 4
     /\ todo' = todo \ {p}
     /\ UNCHANGED << iface, fib, offers >>
     /\ IF ~iface.ip4_support \/ Dropped(valid) \/ ~Ip4Admitted(valid.src, p) \/ (~fits /\ p.df)
        THEN UNCHANGED << ip4_id, ring, parked >>
        ELSE IF fits
        THEN UNCHANGED ip4_id /\ Emit(valid.src, p.dst, << Ip4Frame(valid.src, p, -1, Whole(p), hlen) >>)
        ELSE /\ ip4_id' = id
             /\ Emit(valid.src, p.dst,
                     [i \in DOMAIN chunks |->
                        Ip4Frame(valid.src, p, id, chunks[i], FragmentHlen(p.options, chunks[i].off))])

-----------------------------------------------------------------------------
(* IPv6.                                                                   *)

\* Only these payloads may leave with an unspecified source: a Neighbor
\* Solicitation without a source link-layer address, and an MLDv2 report
\* that is not behind a Hop-by-Hop header.
NdpKinds == {"ns_probe", "ns"}
SourcelessIp6(p) == p.kind \in {"ns_probe", "mld2_report"}

validate_src_ip6_address(p) ==
  LET own == AddressesOf(iface.ip6)
  IN IF ~(p.src \in Range(own) \cup iface.groups6 \/ Unspecified(p.src)) THEN Drop("SRC_NOT_OWNED")
     ELSE IF p.src \in iface.groups6 THEN IF own = << >> THEN Drop("SRC_MULTICAST") ELSE Use(own[1])
     ELSE IF Unspecified(p.src) /\ SourcelessIp6(p) THEN Use(p.src)
     ELSE IF Unspecified(p.src) /\ Ip6Unicast(p.dst) /\ select_ip6_source(p.dst) # << >>
     THEN Use(select_ip6_source(p.dst))
     ELSE IF Unspecified(p.src) THEN Drop("SRC_UNSPECIFIED")
     ELSE IF ip6_address_scope(p.src) < ip6_address_scope(p.dst) THEN Drop("SRC_SCOPE_MISMATCH")
     ELSE Use(p.src)

effective_ip6_hop_limit == IF iface.cur_hop_limit # 0 THEN iface.cur_hop_limit ELSE IP6__DEFAULT_HOP_LIMIT
Ip6Frame(src, p, id, chunk, hlen, hop) ==
  [of |-> p, src |-> src, dst |-> p.dst, id |-> id, chunk |-> chunk, hlen |-> hlen, ttl |-> hop]

\* _phtx_ip6_frag sends each chunk through _phtx_ip6 again: the source is
\* validated once more, now with a fragment as the payload, and no hop limit
\* is given, so that the fragment takes the default.
Ip6Fragments(src, p, id) ==
  LET chunks == iter_fragment_chunks(p.size, iface.mtu - 48)
      again == validate_src_ip6_address([p EXCEPT !.src = src, !.kind = "fragment"])
  IN IF Dropped(again) THEN << >>
     ELSE [i \in DOMAIN chunks |-> Ip6Frame(again.src, p, id, chunks[i], 48, effective_ip6_hop_limit)]

phtx_ip6(p) ==
  LET valid == validate_src_ip6_address(p)
      fits == 40 + p.size <= iface.mtu
      id == Len(ring) + Len(parked) + 1     \* secrets.randbelow: a fresh number
      hop == IF p.ttl # 0 THEN p.ttl ELSE effective_ip6_hop_limit
  IN /\ p \in todo /\ Len(p.dst) = 16
     /\ todo' = todo \ {p}
     /\ UNCHANGED << iface, fib, ip4_id, offers >>
     /\ IF ~iface.ip6_support \/ Dropped(valid) \/ Unspecified(p.dst) \/ (~fits /\ p.kind \in NdpKinds)
        THEN UNCHANGED << ring, parked >>
        ELSE Emit(valid.src, p.dst,
                  IF fits THEN << Ip6Frame(valid.src, p, -1, Whole(p), 40, hop) >>
                  ELSE Ip6Fragments(valid.src, p, id))

-----------------------------------------------------------------------------
(* The route table changes, and neighbours answer.                         *)

add(r) ==
  /\ Len(fib) < MaxRoutes
  /\ fib' = Append(fib, r)
  /\ UNCHANGED << iface, ip4_id, ring, parked, todo, offers >>

remove(destination, gateway) ==
  /\ fib' = RouteRemoved(destination, gateway)
  /\ fib' # fib
  /\ UNCHANGED << iface, ip4_id, ring, parked, todo, offers >>

remove_by_oif(oif) ==
  /\ fib' = RoutesOffInterface(oif)
  /\ fib' # fib
  /\ UNCHANGED << iface, ip4_id, ring, parked, todo, offers >>

\* The neighbour cache learns the MAC of a next hop and sends what waits for it.
NeighbourResolved(hop, mac) ==
  LET Waits(f) == f.hop = hop
      WaitsForAnother(f) == f.hop # hop
      flushed == SelectSeq(parked, Waits)
  IN /\ flushed # << >>
     /\ iface' = [iface EXCEPT !.neighbours = @ @@ (hop :> mac)]
     /\ ring' = ring \o [i \in DOMAIN flushed |-> flushed[i] @@ [mac |-> mac]]
     /\ parked' = SelectSeq(parked, WaitsForAnother)
     /\ UNCHANGED << fib, ip4_id, todo, offers >>

Init ==
  /\ ip4_id = 65535 /\ ring = << >> /\ parked = << >>
  /\ \E plan \in Plans :
       iface = plan.iface /\ fib = plan.fib /\ todo = plan.packets /\ offers = plan.routes

Next ==
  \/ \E p \in todo : phtx_ip4(p)
  \/ \E p \in todo : phtx_ip6(p)
  \/ \E r \in offers : add(r)
  \/ \E r \in Range(fib) : remove(r.destination, << >>)
  \/ \E r \in Range(fib) : remove(r.destination, r.gateway)
  \/ remove_by_oif(iface.ifindex)
  \/ \E i \in DOMAIN parked : NeighbourResolved(parked[i].hop, << 2, 0, 0, 0, 0, 9 >>)

Spec == Init /\ [][Next]_vars

-----------------------------------------------------------------------------
(* What must hold.                                                         *)

Frames == Range(ring) \cup Range(parked)

\* Whatever source a caller asks for, and however it is replaced, a packet
\* leaves with a unicast address of the interface, or with none only as a
\* DHCP client's broadcast, a duplicate-address probe or an MLDv2 report; a
\* link-local IPv4 address never talks past the link, and an IPv6 source the
\* caller did not take from a group never has a smaller scope than its
\* destination.
SourceIsOurs ==
  \A f \in Frames :
    IF Unspecified(f.src) THEN IsDhcpClient(f.src, f.of) \/ SourcelessIp6(f.of)
    ELSE /\ f.src \in Range(AddressesOf(iface.ip4 \o iface.ip6))
         /\ Len(f.src) = 4 => Ip4LinkLocal(f.src) = Ip4LinkLocal(f.dst)
         /\ Len(f.src) = 16 /\ f.of.src \notin iface.groups6
              => ip6_address_scope(f.src) >= ip6_address_scope(f.dst)

\* The fragments of a packet carry its bytes, every one once; all but the last
\* have a length that is a multiple of eight and say that more follow; each
\* fits the MTU; and no other packet's fragments have their identification,
\* also when the 16-bit counter wraps in between.
FragmentsRebuild ==
  \A f \in Frames :
    LET same == {g \in Frames : g.of = f.of /\ g.id = f.id}
    IN /\ f.hlen + f.chunk.len <= iface.mtu
       /\ f.chunk.mf => f.chunk.len % 8 = 0
       /\ \A b \in {0, f.of.size - 1} \cup {g.chunk.off : g \in same} \cup {g.chunk.off + g.chunk.len - 1 : g \in same} :
            Cardinality({g \in same : b \in g.chunk.off .. (g.chunk.off + g.chunk.len - 1)}) = 1
       /\ Cardinality({g \in same : ~g.chunk.mf}) = 1
       /\ \A g \in Frames : g.id = f.id /\ g.id # -1 /\ Len(g.dst) = Len(f.dst) => g.of = f.of

\* The next hop of the route that the table as it is now prefers: among the
\* longest matching prefixes the cheapest, and there one on the link.
BestRoutes(dst) ==
  LET matching == {r \in Range(fib \o ConnectedRoutes) : InNetwork(dst, r.destination)}
      longest == {r \in matching : \A s \in matching : s.destination[2] <= r.destination[2]}
      cheapest == {r \in longest : \A s \in longest : r.metric <= s.metric}
      onlink == {r \in cheapest : r.gateway = << >>}
  IN IF onlink # {} THEN onlink ELSE cheapest
HopsFor(dst) == {IF r.gateway = << >> THEN dst ELSE r.gateway : r \in BestRoutes(dst)}

\* A unicast packet is sent to, or waits for, the next hop that the routes of
\* that moment prefer; without a route it does not leave; and a frame that
\* waited goes to the station it waited for.
NextHopIsPreferred ==
  [][\A p \in todo \ todo' :
       LET sent == {f \in Range(ring') \ Range(ring) : f.of = p}
           waiting == {f \in Range(parked') \ Range(parked) : f.of = p}
       IN /\ \A f \in waiting : f.hop \in HopsFor(f.dst) \ DOMAIN iface.neighbours
          /\ \A f \in sent : iface.layer = "L2" /\ MacUnicast(f.mac)
                              => \E h \in HopsFor(f.dst) \cap DOMAIN iface.neighbours : f.mac = iface.neighbours[h]]_vars

=============================================================================
