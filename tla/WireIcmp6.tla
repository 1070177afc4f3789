------------------------------ MODULE WireIcmp6 -----------------------------
(***************************************************************************)
(* ICMPv6: error and echo messages, Neighbor Discovery, Multicast Listener *)
(* Discovery 1 and 2.  Names as in WireIcmp4; a reader also gets ip, the   *)
(* record [hop, src, dst] of the IPv6 header its sanity checks look at.    *)
(***************************************************************************)
EXTENDS WireNd

Ip6PayloadMax == 65535

DestinationUnreachable6 == 1
PacketTooBig6 == 2
TimeExceeded6 == 3
ParameterProblem6 == 4
EchoRequest6 == 128
EchoReply6 == 129
ListenerQuery == 130
Mld1Report == 131
Mld1Done == 132
RouterSolicitation == 133
RouterAdvertisement == 134
NeighborSolicitation == 135
NeighborAdvertisement == 136
Redirect == 137
Mld2Report == 143

\* What an error message quotes: the first bytes that fit 1280.
Icmp6Quoted(data) == Slice(data, 0, 1280 - 40 - 8)

Icmp6ErrorLegal(m) == Len(m.data) <= Ip6PayloadMax - 8

Icmp6DestinationUnreachableLegal(m) == Icmp6ErrorLegal(m)
Icmp6DestinationUnreachableBytes(m) == << DestinationUnreachable6, m.code >> \o Zeros(6) \o m.data
Icmp6DestinationUnreachableRead(frame, n) ==
  IF Holds(frame, n, 8) /\ At(frame, 1) \in 0 .. 7
  THEN [ type |-> DestinationUnreachable6, code |-> At(frame, 1),
         data |-> Icmp6Quoted(From(frame, 8)) ]
  ELSE Rejected

Icmp6PacketTooBigLegal(m) == is_uint32(m.mtu) /\ Icmp6ErrorLegal(m)
Icmp6PacketTooBigBytes(m) == << PacketTooBig6, m.code, 0, 0 >> \o U32(m.mtu) \o m.data
Icmp6PacketTooBigRead(frame, n) ==
  IF Holds(frame, n, 8) /\ At(frame, 1) = 0
  THEN [ type |-> PacketTooBig6, code |-> 0, mtu |-> Get32(frame, 4),
         data |-> Icmp6Quoted(From(frame, 8)) ]
  ELSE Rejected

Icmp6TimeExceededLegal(m) == Icmp6ErrorLegal(m)
Icmp6TimeExceededBytes(m) == << TimeExceeded6, m.code >> \o Zeros(6) \o m.data
Icmp6TimeExceededRead(frame, n) ==
  IF Holds(frame, n, 8) /\ At(frame, 1) \in 0 .. 1
  THEN [ type |-> TimeExceeded6, code |-> At(frame, 1), data |-> Icmp6Quoted(From(frame, 8)) ]
  ELSE Rejected

Icmp6ParameterProblemLegal(m) == is_uint32(m.pointer) /\ Icmp6ErrorLegal(m)
Icmp6ParameterProblemBytes(m) == << ParameterProblem6, m.code, 0, 0 >> \o U32(m.pointer) \o m.data
Icmp6ParameterProblemRead(frame, n) ==
  IF Holds(frame, n, 8) /\ At(frame, 1) \in 0 .. 3
  THEN [ type |-> ParameterProblem6, code |-> At(frame, 1), pointer |-> Get32(frame, 4),
         data |-> Icmp6Quoted(From(frame, 8)) ]
  ELSE Rejected

Icmp6Echo(type, frame, n) ==
  IF Holds(frame, n, 8) /\ At(frame, 1) = 0
  THEN [ type |-> type, code |-> 0, id |-> Get16(frame, 4), seq |-> Get16(frame, 6),
         data |-> From(frame, 8) ]
  ELSE Rejected
Icmp6EchoRequestLegal(m) ==
  is_uint16(m.id) /\ is_uint16(m.seq) /\ Len(m.data) <= Ip6PayloadMax - 8
Icmp6EchoRequestBytes(m) == << EchoRequest6, m.code, 0, 0 >> \o U16(m.id) \o U16(m.seq) \o m.data
Icmp6EchoRequestRead(frame, n) == Icmp6Echo(EchoRequest6, frame, n)
Icmp6EchoReplyLegal(m) ==
  is_uint16(m.id) /\ is_uint16(m.seq) /\ Len(m.data) <= Ip6PayloadMax - 8
Icmp6EchoReplyBytes(m) == << EchoReply6, m.code, 0, 0 >> \o U16(m.id) \o U16(m.seq) \o m.data
Icmp6EchoReplyRead(frame, n) == Icmp6Echo(EchoReply6, frame, n)

\* An unknown type is carried verbatim and, unlike ICMPv4's, read.
Icmp6UnknownBytes(m) == << m.type, m.code, 0, 0 >> \o m.data
Icmp6UnknownRead(frame) ==
  [ type |-> At(frame, 0), code |-> At(frame, 1), data |-> From(frame, 4) ]

-----------------------------------------------------------------------------
(* Neighbor Discovery.                                                     *)

NdMessageRead(frame, n, fixed, m) ==
  IF Holds(frame, n, fixed) /\ At(frame, 1) = 0 /\ NdOptionsIntegrity(frame, fixed)
     /\ m.options # << Rejected >>
  THEN m ELSE Rejected

RouterSolicitationBytes(m) ==
  << RouterSolicitation, m.code >> \o Zeros(6) \o NdOptionsBytes(m.options)
RouterSolicitationSane(m, ip) ==
  /\ ip.hop = 255
  /\ Ip6Unicast(ip.src) \/ Unspecified(ip.src)
  /\ ip.dst = Ip6AllRouters
  /\ ~(Unspecified(ip.src) /\ NdSource(m.options) # << >>)
RouterSolicitationRead(frame, n) ==
  NdMessageRead(frame, n, 8,
    [ type |-> RouterSolicitation, code |-> At(frame, 1), options |-> NdOptionsFrom(From(frame, 8)) ])

RouterAdvertisementLegal(m) ==
  /\ is_uint8(m.hop) /\ is_uint16(m.router_lifetime)
  /\ is_uint32(m.reachable_time) /\ is_uint32(m.retrans_timer)
RouterAdvertisementBytes(m) ==
  << RouterAdvertisement, m.code, 0, 0, m.hop,
     Bit(m.flag_m) * 128 + Bit(m.flag_o) * 64 + m.prf * 8 >>
  \o U16(m.router_lifetime) \o U32(m.reachable_time) \o U32(m.retrans_timer)
  \o NdOptionsBytes(m.options)
RouterAdvertisementSane(ip) ==
  ip.hop = 255 /\ Ip6LinkLocal(ip.src) /\ (Ip6Unicast(ip.dst) \/ ip.dst = Ip6AllNodes)
RouterAdvertisementRead(frame, n) ==
  NdMessageRead(frame, n, 16,
    [ type |-> RouterAdvertisement, code |-> At(frame, 1), hop |-> At(frame, 4),
      flag_m |-> At(frame, 5) \div 128 = 1, flag_o |-> (At(frame, 5) \div 64) % 2 = 1,
      prf |-> (At(frame, 5) \div 8) % 4, router_lifetime |-> Get16(frame, 6),
      reachable_time |-> Get32(frame, 8), retrans_timer |-> Get32(frame, 12),
      options |-> NdOptionsFrom(From(frame, 16)) ])

NeighborSolicitationBytes(m) ==
  << NeighborSolicitation, m.code >> \o Zeros(6) \o m.target_address \o NdOptionsBytes(m.options)
NeighborSolicitationSane(m, ip) ==
  LET group == solicited_node_multicast(m.target_address)
  IN /\ ip.hop = 255
     /\ Ip6Unicast(ip.src) \/ Unspecified(ip.src)
     /\ ip.dst \in { m.target_address, group }
     /\ Ip6Unicast(m.target_address)
     /\ Unspecified(ip.src) => ip.dst = group /\ NdSource(m.options) = << >>
NeighborSolicitationRead(frame, n) ==
  NdMessageRead(frame, n, 24,
    [ type |-> NeighborSolicitation, code |-> At(frame, 1), target_address |-> Slice(frame, 8, 24),
      options |-> NdOptionsFrom(From(frame, 24)) ])

NeighborAdvertisementBytes(m) ==
  << NeighborAdvertisement, m.code, 0, 0,
     Bit(m.flag_r) * 128 + Bit(m.flag_s) * 64 + Bit(m.flag_o) * 32, 0, 0, 0 >>
  \o m.target_address \o NdOptionsBytes(m.options)
NeighborAdvertisementSane(m, ip) ==
  /\ ip.hop = 255
  /\ Ip6Unicast(ip.src)
  /\ ip.dst = Ip6AllNodes \/ (m.flag_s /\ Ip6Unicast(ip.dst))
NeighborAdvertisementRead(frame, n) ==
  NdMessageRead(frame, n, 24,
    [ type |-> NeighborAdvertisement, code |-> At(frame, 1), flag_r |-> At(frame, 4) \div 128 = 1,
      flag_s |-> (At(frame, 4) \div 64) % 2 = 1, flag_o |-> (At(frame, 4) \div 32) % 2 = 1,
      target_address |-> Slice(frame, 8, 24), options |-> NdOptionsFrom(From(frame, 24)) ])

RedirectBytes(m) ==
  << Redirect, m.code >> \o Zeros(6) \o m.target_address \o m.destination_address
  \o NdOptionsBytes(m.options)
RedirectSane(m, ip) ==
  ip.hop = 255 /\ Ip6LinkLocal(ip.src) /\ ~Ip6Multicast(m.destination_address)
RedirectRead(frame, n) ==
  NdMessageRead(frame, n, 40,
    [ type |-> Redirect, code |-> At(frame, 1), target_address |-> Slice(frame, 8, 24),
      destination_address |-> Slice(frame, 24, 40), options |-> NdOptionsFrom(From(frame, 40)) ])

-----------------------------------------------------------------------------
(* Multicast Listener Discovery.  Queries are only read.  A reader keeps   *)
(* the code of a report whatever it is.                                    *)

Mld1ReportBytes(m) == << Mld1Report, m.code >> \o Zeros(6) \o m.multicast_address
Mld1ReportRead(frame, n) ==
  IF Holds(frame, n, 24)
  THEN [ type |-> Mld1Report, code |-> At(frame, 1), multicast_address |-> Slice(frame, 8, 24) ]
  ELSE Rejected
Mld1DoneBytes(m) == << Mld1Done, m.code >> \o Zeros(6) \o m.multicast_address
Mld1DoneRead(frame, n) ==
  IF Holds(frame, n, 24)
  THEN [ type |-> Mld1Done, code |-> At(frame, 1), multicast_address |-> Slice(frame, 8, 24) ]
  ELSE Rejected
Mld1QueryRead(frame, n) ==
  IF Holds(frame, n, 24)
  THEN [ type |-> ListenerQuery, version |-> 1, maximum_response |-> Get16(frame, 4),
         multicast_address |-> Slice(frame, 8, 24) ]
  ELSE Rejected
Mld2QueryRead(frame, n) ==
  IF Holds(frame, n, 28) /\ n >= 28 + 16 * Get16(frame, 26)
  THEN [ type |-> ListenerQuery, version |-> 2, maximum_response |-> Get16(frame, 4),
         multicast_address |-> Slice(frame, 8, 24), s_flag |-> (At(frame, 24) \div 8) % 2 = 1,
         qrv |-> At(frame, 24) % 8, qqic |-> At(frame, 25),
         source_addresses |-> Pieces(frame, 28, 28 + 16 * Get16(frame, 26), 16) ]
  ELSE Rejected

Mld2RecordLegal(r) ==
  /\ Ip6Multicast(r.multicast_address)
  /\ \A i \in DOMAIN r.source_addresses : Ip6Unicast(r.source_addresses[i])
  /\ is_4_byte_alligned(Len(r.aux_data))
Mld2RecordLen(r) == 20 + 16 * Len(r.source_addresses) + Len(r.aux_data)
Mld2RecordBytes(r) ==
  << r.type, Len(r.aux_data) \div 4 >> \o U16(Len(r.source_addresses)) \o r.multicast_address
  \o FlattenSeq(r.source_addresses) \o r.aux_data
Mld2RecordFrom(b) ==
  LET end == 20 + 16 * Get16(b, 2)
  IN [ type |-> At(b, 0), multicast_address |-> Slice(b, 4, 20),
       source_addresses |-> Pieces(b, 20, end, 16), aux_data |-> Slice(b, end, end + 4 * At(b, 1)) ]

Mld2ReportLegal(m) ==
  /\ \A i \in DOMAIN m.records : Mld2RecordLegal(m.records[i])
  /\ FoldLeft(LAMBDA s, r : s + Mld2RecordLen(r), 0, m.records) <= Ip6PayloadMax - 8
Mld2ReportBytes(m) ==
  << Mld2Report, m.code >> \o Zeros(4) \o U16(Len(m.records))
  \o FlattenSeq([i \in DOMAIN m.records |-> Mld2RecordBytes(m.records[i])])
Mld2RecordsEnd(frame, n) ==
  FoldLeft(LAMBDA at, k : IF at = -1 \/ at + 20 > n THEN -1
                          ELSE at + 20 + 4 * At(frame, at + 1) + 16 * Get16(frame, at + 2),
           8, [k \in 1 .. Get16(frame, 6) |-> k])
Mld2ReportRead(frame, n) ==
  LET step(st, k) ==
        LET r == Mld2RecordFrom(st.left)
        IN [ records |-> Append(st.records, r), left |-> From(st.left, Mld2RecordLen(r)) ]
      read == FoldLeft(step, [ records |-> << >>, left |-> From(frame, 8) ],
                       [k \in 1 .. Get16(frame, 6) |-> k]).records
  IN IF Holds(frame, n, 8) /\ Mld2RecordsEnd(frame, n) = n
        /\ \A i \in DOMAIN read : Mld2RecordLegal(read[i])
     THEN [ type |-> Mld2Report, code |-> At(frame, 1), records |-> read ]
     ELSE Rejected

-----------------------------------------------------------------------------
(* The assembler and the parser.                                           *)

Icmp6Codes(type) ==
  CASE type = DestinationUnreachable6 -> 0 .. 7
    [] type = TimeExceeded6 -> 0 .. 1
    [] type = ParameterProblem6 -> 0 .. 3
    [] OTHER -> { 0 }
Icmp6Known == 1 .. 4 \cup 128 .. 137 \cup { Mld2Report }

Icmp6AssemblerLegal(m) ==
  /\ m.type \in Icmp6Known => m.code \in Icmp6Codes(m.type)
  /\ CASE m.type = DestinationUnreachable6 -> Icmp6DestinationUnreachableLegal(m)
       [] m.type = PacketTooBig6 -> Icmp6PacketTooBigLegal(m)
       [] m.type = TimeExceeded6 -> Icmp6TimeExceededLegal(m)
       [] m.type = ParameterProblem6 -> Icmp6ParameterProblemLegal(m)
       [] m.type = EchoRequest6 -> Icmp6EchoRequestLegal(m)
       [] m.type = EchoReply6 -> Icmp6EchoReplyLegal(m)
       [] m.type = RouterAdvertisement -> RouterAdvertisementLegal(m)
       [] m.type = Mld2Report -> Mld2ReportLegal(m)
       [] OTHER -> TRUE
  /\ "options" \in DOMAIN m => \A i \in DOMAIN m.options : NdOptionLegal(m.options[i])

Icmp6Quotes(type) == type \in 1 .. 4
Icmp6Built(m) == IF Icmp6Quotes(m.type) THEN [ m EXCEPT !.data = Icmp6Quoted(m.data) ] ELSE m

Icmp6MessageBytes(m) ==
  CASE m.type = DestinationUnreachable6 -> Icmp6DestinationUnreachableBytes(m)
    [] m.type = PacketTooBig6 -> Icmp6PacketTooBigBytes(m)
    [] m.type = TimeExceeded6 -> Icmp6TimeExceededBytes(m)
    [] m.type = ParameterProblem6 -> Icmp6ParameterProblemBytes(m)
    [] m.type = EchoRequest6 -> Icmp6EchoRequestBytes(m)
    [] m.type = EchoReply6 -> Icmp6EchoReplyBytes(m)
    [] m.type = RouterSolicitation -> RouterSolicitationBytes(m)
    [] m.type = RouterAdvertisement -> RouterAdvertisementBytes(m)
    [] m.type = NeighborSolicitation -> NeighborSolicitationBytes(m)
    [] m.type = NeighborAdvertisement -> NeighborAdvertisementBytes(m)
    [] m.type = Redirect -> RedirectBytes(m)
    [] m.type = Mld1Report -> Mld1ReportBytes(m)
    [] m.type = Mld1Done -> Mld1DoneBytes(m)
    [] m.type = Mld2Report -> Mld2ReportBytes(m)
    [] OTHER -> Icmp6UnknownBytes(m)

\* Mutant: the checksum is taken before an error's quote is cut.
CksumBeforeCut(m, pshdr_sum) ==
  Stamped(Icmp6MessageBytes(Icmp6Built(m)), inet_cksum(<< Icmp6MessageBytes(m) >>, pshdr_sum))

Icmp6Bytes(m, pshdr_sum) ==
  LET b == Icmp6MessageBytes(Icmp6Built(m)) IN Stamped(b, inet_cksum(<< b >>, pshdr_sum))

Icmp6ParserIntegrity(frame, n, pshdr_sum) ==
  Holds(frame, n, 4) /\ inet_cksum(<< Slice(frame, 0, n) >>, pshdr_sum) = 0

Icmp6ParserParse(frame, n) ==
  LET type == At(frame, 0)
  IN CASE type = DestinationUnreachable6 -> Icmp6DestinationUnreachableRead(frame, n)
       [] type = PacketTooBig6 -> Icmp6PacketTooBigRead(frame, n)
       [] type = TimeExceeded6 -> Icmp6TimeExceededRead(frame, n)
       [] type = ParameterProblem6 -> Icmp6ParameterProblemRead(frame, n)
       [] type = EchoRequest6 -> Icmp6EchoRequestRead(frame, n)
       [] type = EchoReply6 -> Icmp6EchoReplyRead(frame, n)
       [] type = RouterSolicitation -> RouterSolicitationRead(frame, n)
       [] type = RouterAdvertisement -> RouterAdvertisementRead(frame, n)
       [] type = NeighborSolicitation -> NeighborSolicitationRead(frame, n)
       [] type = NeighborAdvertisement -> NeighborAdvertisementRead(frame, n)
       [] type = Redirect -> RedirectRead(frame, n)
       [] type = Mld2Report -> Mld2ReportRead(frame, n)
       [] type = Mld1Report -> Mld1ReportRead(frame, n)
       [] type = Mld1Done -> Mld1DoneRead(frame, n)
       [] type = ListenerQuery -> IF n = 24 THEN Mld1QueryRead(frame, n) ELSE Mld2QueryRead(frame, n)
       [] OTHER -> Icmp6UnknownRead(frame)

Icmp6ParserSanity(m, ip) ==
  CASE m.type = RouterSolicitation -> RouterSolicitationSane(m, ip)
    [] m.type = RouterAdvertisement -> RouterAdvertisementSane(ip)
    [] m.type = NeighborSolicitation -> NeighborSolicitationSane(m, ip)
    [] m.type = NeighborAdvertisement -> NeighborAdvertisementSane(m, ip)
    [] m.type = Redirect -> RedirectSane(m, ip)
    [] m.type \in { Mld1Report, Mld1Done, Mld2Report } -> ip.hop = 1
    [] OTHER -> TRUE
=============================================================================
