----------------------------- MODULE WireFormats ----------------------------
(***************************************************************************)
(* One packet from the assembler that builds it to the parser that reads   *)
(* it: Ethernet II or IEEE 802.3 with LLC and SNAP, then ARP or IP, the    *)
(* IPv6 extension headers, and the message.  The receiver takes the        *)
(* parsers in the order the RX handlers call them: link, network layer,    *)
(* one extension header at a time, message.  What the handlers do besides  *)
(* (sockets, caches, the ICMP error a bad packet is answered with) is not  *)
(* part of the formats: a packet is read, or it is dropped.                *)
(*                                                                         *)
(* A packet is [ link, ver, net, chain, kind, msg ]: link is "ethernet" or *)
(* "snap", ver 0 (ARP), 4 or 6, net the fields of the IP header, chain the *)
(* extension headers, msg the message of a kind of Kinds.                  *)
(***************************************************************************)
EXTENDS WireLink, WireIp4, WireIp6, WireTransport, WireIcmp4, WireIgmp, WireIcmp6, WireDhcp4,
        WireDhcp6

CONSTANT Packets    \* the packets the assemblers are asked for

VARIABLES
  packet,    \* the packet of this behaviour
  stage,     \* how far it has come
  frame,     \* packet_rx.frame: the bytes not yet parsed
  ip,        \* what the upper parsers read of packet_rx.ip
  got        \* the message that was read
vars == << packet, stage, frame, ip, got >>

Stages == { "asked", "refused", "built", "sent", "net", "chain", "message", "delivered", "dropped" }
Kinds == { "arp", "tcp", "udp", "dhcp4", "dhcp6", "icmp4", "igmp", "icmp6" }

\* IpProto.from_proto.
IP6_HBH == 0
IP6_ROUTING == 43
IP6_FRAG == 44
IP6_DEST_OPTS == 60
Ip6ExtensionHeaders == { IP6_HBH, IP6_ROUTING, IP6_FRAG, IP6_DEST_OPTS }
from_proto(kind) ==
  CASE kind = "icmp4" -> 1
    [] kind = "igmp" -> 2
    [] kind = "tcp" -> 6
    [] kind \in { "udp", "dhcp4", "dhcp6" } -> 17
    [] kind = "icmp6" -> 58

-----------------------------------------------------------------------------
(* Messages.                                                               *)

\* The UDP datagram the DHCP clients send their packet in.
DhcpDatagram(kind, m) ==
  IF kind = "dhcp4"
  THEN [ sport |-> 68, dport |-> 67, no_cksum |-> FALSE, payload |-> Dhcp4Bytes(m) ]
  ELSE [ sport |-> 546, dport |-> 547, no_cksum |-> FALSE, payload |-> Dhcp6Bytes(m) ]

MessageLegal(kind, m) ==
  CASE kind = "arp" -> ArpAssemblerLegal(m)
    [] kind = "tcp" -> TcpAssemblerLegal(m)
    [] kind = "udp" -> UdpHeaderLegal(UdpAssembler(m))
    [] kind = "dhcp4" -> Dhcp4AssemblerLegal(m)
    [] kind = "dhcp6" -> Dhcp6AssemblerLegal(m)
    [] kind = "icmp4" -> Icmp4AssemblerLegal(m)
    [] kind = "igmp" -> IgmpAssemblerLegal(m)
    [] kind = "icmp6" -> Icmp6AssemblerLegal(m)

MessageBytes(kind, m, pshdr_sum) ==
  CASE kind = "arp" -> ArpHeaderBytes(m)
    [] kind = "tcp" -> TcpBytes(m, pshdr_sum)
    [] kind = "udp" -> UdpBytes(m, pshdr_sum)
    [] kind \in { "dhcp4", "dhcp6" } -> UdpBytes(DhcpDatagram(kind, m), pshdr_sum)
    [] kind = "icmp4" -> Icmp4Assembled(m)
    [] kind = "igmp" -> IgmpBytes(m)
    [] kind = "icmp6" -> Icmp6Bytes(m, pshdr_sum)

\* The message as its constructor leaves it: an ICMP error cuts its quote.
MessageBuilt(kind, m) ==
  CASE kind = "icmp4" -> Icmp4Built(m)
    [] kind = "icmp6" -> Icmp6Built(m)
    [] OTHER -> m

\* No option of a list was refused.
AllRead(options) == \A i \in DOMAIN options : options[i] # Rejected

\* A reader's _validate_integrity and _parse.
DatagramRead(b, n, ver, pshdr_sum) ==
  IF UdpParserIntegrity(b, n, pshdr_sum, ver, FALSE) /\ UdpParserSanity(UdpParserParse(b))
  THEN UdpParserParse(b) ELSE Rejected
MessageRead(kind, b, n, view) ==
  CASE kind = "arp" -> IF ArpParserIntegrity(b) THEN ArpHeaderFrom(b) ELSE Rejected
    [] kind = "tcp" ->
         IF TcpParserIntegrity(b, n, view.pshdr_sum) /\ AllRead(TcpParserParse(b, n).options)
         THEN TcpParserParse(b, n) ELSE Rejected
    [] kind = "udp" -> DatagramRead(b, n, view.ver, view.pshdr_sum)
    [] kind = "dhcp4" ->
         LET d == DatagramRead(b, n, view.ver, view.pshdr_sum)
         IN IF d # Rejected /\ Dhcp4ParserIntegrity(d.payload) THEN Dhcp4ParserParse(d.payload) ELSE Rejected
    [] kind = "dhcp6" ->
         LET d == DatagramRead(b, n, view.ver, view.pshdr_sum)
         IN IF d # Rejected /\ Dhcp6ParserIntegrity(d.payload) THEN Dhcp6ParserParse(d.payload) ELSE Rejected
    [] kind = "icmp4" -> IF Icmp4ParserIntegrity(b, n) THEN Icmp4ParserParse(b, n) ELSE Rejected
    [] kind = "igmp" -> IF IgmpParserIntegrity(b, n) THEN IgmpParserParse(b, n) ELSE Rejected
    [] kind = "icmp6" ->
         IF Icmp6ParserIntegrity(b, n, view.pshdr_sum) THEN Icmp6ParserParse(b, n) ELSE Rejected

MessageSane(kind, m, view) ==
  CASE kind = "arp" -> ArpParserSanity(m)
    [] kind = "tcp" -> TcpParserSanity(m)
    [] kind = "dhcp4" -> Dhcp4ParserSanity(m)
    [] kind = "dhcp6" -> Dhcp6ParserSanity(m)
    [] kind = "icmp6" -> Icmp6ParserSanity(m, view)
    [] OTHER -> TRUE

-----------------------------------------------------------------------------
(* Extension headers.                                                      *)

ExtLegal(h) ==
  CASE h.ext = IP6_HBH -> Ip6HbhAssemblerLegal(h)
    [] h.ext = IP6_ROUTING -> Ip6RoutingAssemblerLegal(h)
    [] h.ext = IP6_FRAG -> Ip6FragHeaderLegal(Ip6FragAssembler(h))
    [] h.ext = IP6_DEST_OPTS -> Ip6DestOptsAssemblerLegal(h)
ExtBytes(h) ==
  CASE h.ext = IP6_HBH -> Ip6HbhBytes(h)
    [] h.ext = IP6_ROUTING -> Ip6RoutingBytes(h)
    [] h.ext = IP6_FRAG -> Ip6FragBytes(h)
    [] h.ext = IP6_DEST_OPTS -> Ip6DestOptsBytes(h)

\* check_ext_hdr_option_caps.  The isinstance tests name the Hop-by-Hop
\* classes, so padding and unknown Destination Options are not counted.
IP6__EXT_HDR_MAX_OPTIONS == 16
IP6__EXT_HDR_MAX_PAD_BYTES == 16
IP6__EXT_HDR_MAX_UNKNOWN_OPTIONS == 2
check_ext_hdr_option_caps(options) == Len(options) <= IP6__EXT_HDR_MAX_OPTIONS
check_hbh_option_caps(options) ==
  LET pads == SelectSeq(options, LAMBDA o : o.type \in { PAD1, PADN })
  IN /\ check_ext_hdr_option_caps(options)
     /\ Len(Ip6HbhOptionsBytes(pads)) <= IP6__EXT_HDR_MAX_PAD_BYTES
     /\ Len(SelectSeq(options, LAMBDA o : o.type \notin Ip6HbhOptionType)) <= IP6__EXT_HDR_MAX_UNKNOWN_OPTIONS

ExtRead(next, b) ==
  CASE next = IP6_HBH ->
         IF /\ Ip6HbhParserIntegrity(b) /\ Ip6HbhOptionsSanity(Slice(b, 2, (At(b, 1) + 1) * 8))
            /\ AllRead(Ip6HbhParserParse(b).options)
            /\ check_hbh_option_caps(Ip6HbhParserParse(b).options)
         THEN Ip6HbhParserParse(b) ELSE Rejected
    [] next = IP6_ROUTING ->
         IF Ip6RoutingParserIntegrity(b) THEN Ip6RoutingParserParse(b) ELSE Rejected
    [] next = IP6_FRAG ->
         IF Ip6FragParserIntegrity(b) /\ Ip6FragParserSanity(Ip6FragParserParse(b))
         THEN Ip6FragParserParse(b) ELSE Rejected
    [] next = IP6_DEST_OPTS ->
         IF /\ Ip6DestOptsParserIntegrity(b) /\ Ip6DestOptsOptionsSanity(Slice(b, 2, (At(b, 1) + 1) * 8))
            /\ AllRead(Ip6DestOptsParserParse(b).options)
            /\ check_ext_hdr_option_caps(Ip6DestOptsParserParse(b).options)
         THEN Ip6DestOptsParserParse(b) ELSE Rejected

\* The Next Header values of the IP header and the chain, in order.
NextHeaders(p) == [i \in DOMAIN p.chain |-> p.chain[i].ext] \o << from_proto(p.kind) >>
Chained(p, message) ==
  FoldRight(LAMBDA i, b : ExtBytes([next |-> NextHeaders(p)[i + 1], payload |-> b] @@ p.chain[i]),
            [i \in DOMAIN p.chain |-> i], message)

-----------------------------------------------------------------------------
(* Assembly.                                                               *)

\* A pseudo-header counts the message's own length n and protocol, also behind
\* extension headers (__send_icmp6_mld_via_hbh_ra).
SenderPshdr(p, n) ==
  CASE p.ver = 4 -> Ip4PshdrSum([ src |-> p.net.src, dst |-> p.net.dst, proto |-> from_proto(p.kind) ], n)
    [] p.ver = 6 -> Ip6PshdrSum([ src |-> p.net.src, dst |-> p.net.dst, dlen |-> n,
                                  next |-> from_proto(p.kind) ])
    [] OTHER -> NoSum
NetPacket(p, message) ==
  IF p.ver = 4 THEN [ proto |-> from_proto(p.kind), payload |-> message ] @@ p.net
  ELSE [ next |-> NextHeaders(p)[1], payload |-> Chained(p, message) ] @@ p.net
NetLegal(p, n) ==
  CASE p.ver = 4 -> Ip4AssemblerLegal(n)
    [] p.ver = 6 -> Ip6HeaderLegal(Ip6Header(n))
    [] OTHER -> TRUE
NetBytes(p, n) ==
  CASE p.ver = 4 -> Ip4Bytes(n)
    [] p.ver = 6 -> Ip6Bytes(n)
    [] OTHER -> n
EtherType(p) ==
  CASE p.ver = 0 -> EtherTypeArp [] p.ver = 4 -> EtherTypeIp4 [] p.ver = 6 -> EtherTypeIp6

Station == << 2, 0, 0, 0, 0, 1 >>
Peer    == << 2, 0, 0, 0, 0, 2 >>
LinkBytes(p, b) ==
  IF p.link = "ethernet"
  THEN EthernetBytes([ dst |-> Peer, src |-> Station, type |-> EtherType(p), payload |-> b ])
  ELSE LET snap == SnapBytes([ oui |-> 0, pid |-> EtherType(p), payload |-> b ])
       IN Ethernet8023Bytes([ dst |-> Peer, src |-> Station,
                              payload |-> LlcBytes([ dsap |-> 170, ssap |-> 170, control |-> 3,
                                                     payload |-> snap ]) ])
LinkLegal(p, b) == p.link = "snap" => Len(b) + 8 <= Ethernet8023MaxPayload

-----------------------------------------------------------------------------
(* The steps.                                                              *)

NoView == [ ver |-> 0, next |-> 0, dlen |-> 0, pshdr_sum |-> NoSum ]

Init ==
  /\ packet \in Packets
  /\ stage = "asked"
  /\ frame = << >>
  /\ ip = NoView
  /\ got = Rejected

\* An assembler whose assertions hold serialises its part of the packet;
\* otherwise the AssertionError reaches its caller.
Refuse == stage' = "refused" /\ UNCHANGED << packet, frame, ip, got >>
AssembleMessage ==
  /\ stage = "asked"
  /\ IF /\ MessageLegal(packet.kind, packet.msg)
        /\ \A i \in DOMAIN packet.chain : ExtLegal([next |-> 0, payload |-> << >>] @@ packet.chain[i])
     THEN \E n \in { Len(MessageBytes(packet.kind, packet.msg, NoSum)) } :
            /\ frame' = MessageBytes(packet.kind, packet.msg, SenderPshdr(packet, n))
            /\ stage' = "built"
            /\ UNCHANGED << packet, ip, got >>
     ELSE Refuse
Encapsulate ==
  /\ stage = "built"
  /\ \E net \in { IF packet.ver = 0 THEN frame ELSE NetPacket(packet, frame) } :
       IF NetLegal(packet, net)
       THEN \E b \in { NetBytes(packet, net) } :
              IF LinkLegal(packet, b)
              THEN frame' = LinkBytes(packet, b) /\ stage' = "sent" /\ UNCHANGED << packet, ip, got >>
              ELSE Refuse
       ELSE Refuse

Drop == stage' = "dropped" /\ UNCHANGED << packet, frame, ip, got >>

\* EthernetParser, or Ethernet8023Parser, LlcParser and SnapParser.
LinkRx ==
  /\ stage = "sent"
  /\ \E ether \in { EthernetParserParse(frame) } :
       IF ether.type >= 1536
       THEN IF EthernetParserIntegrity(frame) /\ EthernetParserSanity(ether)
            THEN frame' = ether.payload /\ stage' = "net" /\ UNCHANGED << packet, ip, got >>
            ELSE Drop
       ELSE \E old \in { Ethernet8023ParserParse(frame) } : \E llc \in { LlcParserParse(old.payload) } :
              IF /\ Ethernet8023ParserIntegrity(frame) /\ Ethernet8023ParserSanity(old)
                 /\ LlcParserIntegrity(old.payload) /\ SnapParserIntegrity(llc.payload)
              THEN /\ frame' = SnapParserParse(llc.payload).payload
                   /\ stage' = "net" /\ UNCHANGED << packet, ip, got >>
              ELSE Drop

\* An ARP frame goes to ArpParser as it is; Ip4Parser strips its header.
ArpRx ==
  /\ stage = "net" /\ packet.ver = 0
  /\ stage' = "message"
  /\ UNCHANGED << packet, frame, ip, got >>
Ip4Rx ==
  /\ stage = "net" /\ packet.ver = 4
  /\ IF Ip4ParserIntegrity(frame)
     THEN \E h \in { Ip4ParserParse(frame) } :
            IF AllRead(h.options) /\ Ip4ParserSanity(h)
            THEN /\ ip' = [ ver |-> 4, next |-> h.proto, dlen |-> Len(h.payload), hop |-> h.ttl,
                            src |-> h.src, dst |-> h.dst, net |-> h,
                            pshdr_sum |-> Ip4PshdrSum(h, Len(h.payload)) ]
                 /\ frame' = h.payload
                 /\ stage' = "message"
                 /\ UNCHANGED << packet, got >>
            ELSE Drop
     ELSE Drop

\* Ip6Parser.  dlen, next and the pseudo-header sum are those of
\* the IPv6 header for as long as the packet lives.
Ip6View(h, n) ==
  [ ver |-> 6, next |-> h.next, dlen |-> n, hop |-> h.hop, src |-> h.src, dst |-> h.dst, net |-> h,
    pshdr_sum |-> Ip6PshdrSum([ src |-> h.src, dst |-> h.dst, dlen |-> n, next |-> h.next ]) ]
Ip6Rx ==
  /\ stage = "net" /\ packet.ver = 6
  /\ IF Ip6ParserIntegrity(frame)
     THEN \E h \in { Ip6ParserParse(frame) } :
            IF Ip6ParserSanity(h)
            THEN /\ ip' = [ current_next |-> h.next, non_hbh_seen |-> FALSE ] @@ Ip6View(h, Len(h.payload))
                 /\ frame' = h.payload
                 /\ stage' = IF h.next \in Ip6ExtensionHeaders THEN "chain" ELSE "message"
                 /\ UNCHANGED << packet, got >>
            ELSE Drop
     ELSE Drop

\* One turn of _phrx_ip6__walk_chain.  A whole datagram in one fragment comes
\* back as a new packet with a header of its own.
Unfragmented(h) ==
  [ current_next |-> h.next, non_hbh_seen |-> FALSE ]
  @@ Ip6View([ next |-> h.next ] @@ ip.net, Len(h.payload))
ChainRx ==
  /\ stage = "chain"
  /\ \E h \in { ExtRead(ip.current_next, frame) } :
       IF h = Rejected \/ (ip.current_next = IP6_HBH /\ ip.non_hbh_seen) THEN Drop
       ELSE /\ ip' = IF ip.current_next = IP6_FRAG THEN Unfragmented(h)
                     ELSE [ ip EXCEPT !.current_next = h.next,
                                      !.non_hbh_seen = @ \/ ip.current_next # IP6_HBH ]
            /\ frame' = h.payload
            /\ stage' = IF h.next \in Ip6ExtensionHeaders THEN "chain" ELSE "message"
            /\ UNCHANGED << packet, got >>

\* The message's parser.  ICMPv6 takes its length from ip6.dlen, the others
\* from the length of the payload that is left.
MessageRx ==
  /\ stage = "message"
  /\ \E n \in { IF packet.kind = "icmp6" THEN ip.dlen ELSE Len(frame) } :
     \E m \in { MessageRead(packet.kind, frame, n, ip) } :
       IF m # Rejected /\ MessageSane(packet.kind, m, ip)
       THEN got' = m /\ stage' = "delivered" /\ UNCHANGED << packet, frame, ip >>
       ELSE Drop

Next == AssembleMessage \/ Encapsulate \/ LinkRx \/ ArpRx \/ Ip4Rx \/ Ip6Rx \/ ChainRx \/ MessageRx
Spec == Init /\ [][Next]_vars

-----------------------------------------------------------------------------
(* Properties.                                                             *)

\* What was delivered is what was sent: every field of the message and of the
\* IP header survives the assemblers' packing and the parsers' unpacking,
\* whatever options and extension headers lie between them.
ReadsBack ==
  stage = "delivered" =>
    /\ got = MessageBuilt(packet.kind, packet.msg)
    /\ packet.ver # 0 => \A f \in DOMAIN packet.net : ip.net[f] = packet.net[f]

\* No parser drops a packet its own assembler built, except behind extension
\* headers: there ip6.dlen and the pseudo-header sum still are those of the
\* IPv6 header, and the transport parsers refuse what they are given.
OwnPacketsAccepted ==
  stage = "dropped" => \E i \in DOMAIN packet.chain : packet.chain[i].ext # IP6_FRAG

=============================================================================
