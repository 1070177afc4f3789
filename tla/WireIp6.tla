------------------------------ MODULE WireIp6 -------------------------------
(***************************************************************************)
(* The IPv6 header and its extension headers: fragment, routing,           *)
(* hop-by-hop and destination options, with their assemblers and parsers.  *)
(* Names as in WireIp4 and WireTransport.                                  *)
(***************************************************************************)
EXTENDS Wire

Ip6HeaderLegal(h) ==
  /\ is_uint6(h.dscp) /\ is_uint2(h.ecn) /\ is_uint20(h.flow) /\ is_uint16(h.dlen)
  /\ is_uint8(h.next) /\ is_uint8(h.hop)

\* Mutant: the flow label is cut to the 16 bits of the second half.
FlowLabelCut(h) ==
  U16(6 * 4096 + h.dscp * 64 + h.ecn * 16) \o U16(h.flow % K)
  \o U16(h.dlen) \o << h.next, h.hop >> \o h.src \o h.dst

\* ver << 28 | dscp << 22 | ecn << 20 | flow, written as its two halves.
Ip6HeaderBytes(h) ==
  U16(6 * 4096 + h.dscp * 64 + h.ecn * 16 + h.flow \div K) \o U16(h.flow % K)
  \o U16(h.dlen) \o << h.next, h.hop >> \o h.src \o h.dst

Ip6HeaderFrom(b) ==
  LET hi == Get16(b, 0)
  IN [ dscp |-> (hi \div 64) % 64, ecn |-> (hi \div 16) % 4,
       flow |-> (hi % 16) * K + Get16(b, 2), dlen |-> Get16(b, 4),
       next |-> At(b, 6), hop |-> At(b, 7), src |-> Slice(b, 8, 24), dst |-> Slice(b, 24, 40) ]

Ip6Header(m) ==
  [ dscp |-> m.dscp, ecn |-> m.ecn, flow |-> m.flow, dlen |-> Len(m.payload), next |-> m.next,
    hop |-> m.hop, src |-> m.src, dst |-> m.dst ]

Ip6Bytes(m) == Ip6HeaderBytes(Ip6Header(m)) \o m.payload

\* Five 64-bit words: the addresses, then the length and the next header.
Ip6PshdrSum(h) ==
  LET b == h.src \o h.dst \o U32(h.dlen) \o << 0, 0, 0, h.next >>
  IN [k \in 1 .. 4 |-> WordSum(b, 2 * (4 - k), 8, 5)]

Ip6ParserIntegrity(frame) ==
  /\ Len(frame) >= 40
  /\ At(frame, 0) \div 16 = 6
  /\ Get16(frame, 4) = Len(frame) - 40

Ip6ParserParse(frame) ==
  LET h == Ip6HeaderFrom(frame)
  IN [ dscp |-> h.dscp, ecn |-> h.ecn, flow |-> h.flow, next |-> h.next, hop |-> h.hop,
       src |-> h.src, dst |-> h.dst, payload |-> Slice(frame, 40, 40 + h.dlen) ]

Ip6ParserSanity(m) ==
  /\ m.hop # 0
  /\ m.src # Zeros(15) \o << 1 >>
  /\ m.src[1] # 255

-----------------------------------------------------------------------------
(* Fragment header.                                                        *)

Ip6FragHeaderLegal(h) ==
  is_uint8(h.next) /\ is_uint13(h.offset \div 8) /\ is_8_byte_alligned(h.offset) /\ is_uint32(h.id)
Ip6FragHeaderBytes(h) == << h.next, 0 >> \o U16(h.offset + Bit(h.flag_mf)) \o U32(h.id)
Ip6FragHeaderFrom(b) ==
  [ next |-> At(b, 0), offset |-> (Get16(b, 2) \div 8) * 8, flag_mf |-> Get16(b, 2) % 2 = 1,
    id |-> Get32(b, 4) ]

Ip6FragAssembler(m) ==
  [ next |-> m.next, offset |-> m.offset, flag_mf |-> m.flag_mf, id |-> m.id ]
Ip6FragBytes(m) == Ip6FragHeaderBytes(Ip6FragAssembler(m)) \o m.payload
Ip6FragParserIntegrity(frame) == Len(frame) >= 8
Ip6FragParserParse(frame) ==
  LET h == Ip6FragHeaderFrom(frame)
  IN [ next |-> h.next, offset |-> h.offset, flag_mf |-> h.flag_mf, id |-> h.id,
       payload |-> From(frame, 8) ]
Ip6FragParserSanity(m) == m.flag_mf => Len(m.payload) % 8 = 0

-----------------------------------------------------------------------------
(* Routing header.  RH0 (type 0) is neither built nor accepted.            *)

Ip6RoutingHeaderLegal(h) ==
  is_uint8(h.next) /\ is_uint8(h.hdr_ext_len) /\ is_uint8(h.routing_type) /\ is_uint8(h.segments_left)
Ip6RoutingHeaderBytes(h) == << h.next, h.hdr_ext_len, h.routing_type, h.segments_left >>
Ip6RoutingHeaderFrom(b) ==
  [ next |-> At(b, 0), hdr_ext_len |-> At(b, 1), routing_type |-> At(b, 2), segments_left |-> At(b, 3) ]

Ip6RoutingHeader(m) ==
  [ next |-> m.next, hdr_ext_len |-> (4 + Len(m.data)) \div 8 - 1,
    routing_type |-> m.routing_type, segments_left |-> m.segments_left ]
Ip6RoutingAssemblerLegal(m) ==
  m.routing_type # 0 /\ (4 + Len(m.data)) % 8 = 0 /\ Ip6RoutingHeaderLegal(Ip6RoutingHeader(m))
Ip6RoutingBytes(m) == Ip6RoutingHeaderBytes(Ip6RoutingHeader(m)) \o m.data \o m.payload
Ip6RoutingParserIntegrity(frame) ==
  Len(frame) >= 4 /\ (At(frame, 1) + 1) * 8 <= Len(frame) /\ At(frame, 2) # 0
Ip6RoutingParserParse(frame) ==
  LET h == Ip6RoutingHeaderFrom(frame)
      total == (h.hdr_ext_len + 1) * 8
  IN [ next |-> h.next, routing_type |-> h.routing_type, segments_left |-> h.segments_left,
       data |-> Slice(frame, 4, total), payload |-> From(frame, total) ]

-----------------------------------------------------------------------------
(* Hop-by-hop options.  The length byte counts the data only.              *)

PAD1 == 0
PADN == 1
HBH_ROUTER_ALERT == 5
CALIPSO == 7
JUMBO_PAYLOAD == 194
Ip6HbhOptionType == { PAD1, PADN, HBH_ROUTER_ALERT, CALIPSO, JUMBO_PAYLOAD }

Ip6HbhOptionPad1Bytes == << PAD1 >>
Ip6HbhOptionPad1From(b) == IF b # << >> /\ At(b, 0) = PAD1 THEN [ type |-> PAD1 ] ELSE Rejected

Ip6HbhOptionPadNLegal(o) == is_uint8(2 + Len(o.data))
Ip6HbhOptionPadNBytes(o) == << PADN, Len(o.data) >> \o o.data
Ip6HbhOptionPadNFrom(b) ==
  IF Len(b) >= 2 /\ At(b, 1) + 2 <= Len(b)
  THEN [ type |-> PADN, data |-> Slice(b, 2, 2 + At(b, 1)) ] ELSE Rejected

Ip6HbhOptionRouterAlertLegal(o) == is_uint16(o.value)
Ip6HbhOptionRouterAlertBytes(o) == << HBH_ROUTER_ALERT, 2 >> \o U16(o.value)
Ip6HbhOptionRouterAlertFrom(b) ==
  IF Len(b) >= 4 /\ At(b, 1) = 2
  THEN [ type |-> HBH_ROUTER_ALERT, value |-> Get16(b, 2) ] ELSE Rejected

Ip6HbhOptionJumboPayloadLegal(o) == is_uint32(o.value) /\ o.value > K - 1
Ip6HbhOptionJumboPayloadBytes(o) == << JUMBO_PAYLOAD, 4 >> \o U32(o.value)
Ip6HbhOptionJumboPayloadFrom(b) ==
  IF Len(b) >= 6 /\ At(b, 1) = 4 /\ Get32(b, 2) > K - 1
  THEN [ type |-> JUMBO_PAYLOAD, value |-> Get32(b, 2) ] ELSE Rejected

Ip6HbhOptionCalipsoLegal(o) ==
  /\ is_uint32(o.doi) /\ is_uint8(o.sens_level) /\ is_uint16(o.checksum)
  /\ Len(o.compartment_bitmap) % 4 = 0
  /\ is_uint8(10 + Len(o.compartment_bitmap))
Ip6HbhOptionCalipsoBytes(o) ==
  << CALIPSO, 8 + Len(o.compartment_bitmap) >> \o U32(o.doi)
  \o << Len(o.compartment_bitmap) \div 4, o.sens_level >> \o U16(o.checksum) \o o.compartment_bitmap
Ip6HbhOptionCalipsoFrom(b) ==
  IF Len(b) >= 10 /\ At(b, 1) = 8 + At(b, 6) * 4 /\ Len(b) >= 2 + At(b, 1)
  THEN [ type |-> CALIPSO, doi |-> Get32(b, 2), sens_level |-> At(b, 7), checksum |-> Get16(b, 8),
         compartment_bitmap |-> Slice(b, 10, 10 + At(b, 6) * 4) ]
  ELSE Rejected

Ip6HbhOptionUnknownLegal(o) == o.type \notin Ip6HbhOptionType /\ is_uint8(2 + Len(o.data))
Ip6HbhOptionUnknownBytes(o) == << o.type, Len(o.data) >> \o o.data
Ip6HbhOptionUnknownFrom(b) ==
  IF Len(b) >= 2 /\ At(b, 0) \notin Ip6HbhOptionType /\ At(b, 1) + 2 <= Len(b)
  THEN [ type |-> At(b, 0), data |-> Slice(b, 2, 2 + At(b, 1)) ] ELSE Rejected

Ip6HbhOptionLegal(o) ==
  CASE o.type = PAD1 -> TRUE
    [] o.type = PADN -> Ip6HbhOptionPadNLegal(o)
    [] o.type = HBH_ROUTER_ALERT -> Ip6HbhOptionRouterAlertLegal(o)
    [] o.type = CALIPSO -> Ip6HbhOptionCalipsoLegal(o)
    [] o.type = JUMBO_PAYLOAD -> Ip6HbhOptionJumboPayloadLegal(o)
    [] OTHER -> Ip6HbhOptionUnknownLegal(o)

Ip6HbhOptionBytes(o) ==
  CASE o.type = PAD1 -> Ip6HbhOptionPad1Bytes
    [] o.type = PADN -> Ip6HbhOptionPadNBytes(o)
    [] o.type = HBH_ROUTER_ALERT -> Ip6HbhOptionRouterAlertBytes(o)
    [] o.type = CALIPSO -> Ip6HbhOptionCalipsoBytes(o)
    [] o.type = JUMBO_PAYLOAD -> Ip6HbhOptionJumboPayloadBytes(o)
    [] OTHER -> Ip6HbhOptionUnknownBytes(o)

Ip6HbhOptionsBytes(os) == FlattenSeq([i \in DOMAIN os |-> Ip6HbhOptionBytes(os[i])])

\* Ip6HbhOptions.validate_integrity: the type-length walk.
RECURSIVE Ip6HbhOptionsIntegrity(_)
Ip6HbhOptionsIntegrity(b) ==
  \/ b = << >>
  \/ At(b, 0) = PAD1 /\ Ip6HbhOptionsIntegrity(From(b, 1))
  \/ /\ At(b, 0) # PAD1
     /\ Len(b) >= 2 /\ 2 + At(b, 1) <= Len(b)
     /\ Ip6HbhOptionsIntegrity(From(b, 2 + At(b, 1)))

\* Ip6HbhOptions.validate_sanity: the top two bits of an unknown type say
\* what to do with the packet; only 00 lets it pass.
RECURSIVE Ip6HbhOptionsSanity(_)
Ip6HbhOptionsSanity(b) ==
  \/ b = << >>
  \/ At(b, 0) = PAD1 /\ Ip6HbhOptionsSanity(From(b, 1))
  \/ /\ At(b, 0) \in Ip6HbhOptionType \ { PAD1 } \/ (At(b, 0) # PAD1 /\ At(b, 0) \div 64 = 0)
     /\ Ip6HbhOptionsSanity(From(b, 2 + At(b, 1)))

RECURSIVE Ip6HbhOptionsFrom(_)
Ip6HbhOptionsFrom(b) ==
  IF b = << >> THEN << >>
  ELSE LET o == CASE At(b, 0) = PAD1 -> Ip6HbhOptionPad1From(b)
                  [] At(b, 0) = PADN -> Ip6HbhOptionPadNFrom(b)
                  [] At(b, 0) = HBH_ROUTER_ALERT -> Ip6HbhOptionRouterAlertFrom(b)
                  [] At(b, 0) = CALIPSO -> Ip6HbhOptionCalipsoFrom(b)
                  [] At(b, 0) = JUMBO_PAYLOAD -> Ip6HbhOptionJumboPayloadFrom(b)
                  [] OTHER -> Ip6HbhOptionUnknownFrom(b)
       IN IF o = Rejected THEN << o >>
          ELSE << o >> \o Ip6HbhOptionsFrom(From(b, Len(Ip6HbhOptionBytes(o))))

Ip6HbhHeaderLegal(h) == is_uint8(h.next) /\ is_uint8(h.hdr_ext_len)
Ip6HbhHeaderBytes(h) == << h.next, h.hdr_ext_len >>
Ip6HbhHeaderFrom(b) == [ next |-> At(b, 0), hdr_ext_len |-> At(b, 1) ]

Ip6HbhHeader(m) ==
  [ next |-> m.next, hdr_ext_len |-> (2 + Len(Ip6HbhOptionsBytes(m.options))) \div 8 - 1 ]
Ip6HbhAssemblerLegal(m) ==
  /\ \A i \in DOMAIN m.options : Ip6HbhOptionLegal(m.options[i])
  /\ (2 + Len(Ip6HbhOptionsBytes(m.options))) % 8 = 0
  /\ Len(Ip6HbhOptionsBytes(m.options)) <= 2046
  /\ Ip6HbhHeaderLegal(Ip6HbhHeader(m))
Ip6HbhBytes(m) == Ip6HbhHeaderBytes(Ip6HbhHeader(m)) \o Ip6HbhOptionsBytes(m.options) \o m.payload
Ip6HbhParserIntegrity(frame) ==
  /\ Len(frame) >= 2 /\ (At(frame, 1) + 1) * 8 <= Len(frame)
  /\ Ip6HbhOptionsIntegrity(Slice(frame, 2, (At(frame, 1) + 1) * 8))
Ip6HbhParserParse(frame) ==
  LET h == Ip6HbhHeaderFrom(frame)
      total == (h.hdr_ext_len + 1) * 8
  IN [ next |-> h.next, options |-> Ip6HbhOptionsFrom(Slice(frame, 2, total)),
       payload |-> From(frame, total) ]

-----------------------------------------------------------------------------
(* Destination options: the same shape, with one option of its own.        *)

TUNNEL_ENCAPSULATION_LIMIT == 4
Ip6DestOptsOptionType == { PAD1, PADN, TUNNEL_ENCAPSULATION_LIMIT }

Ip6DestOptsOptionPad1Bytes == << PAD1 >>
Ip6DestOptsOptionPad1From(b) == IF b # << >> /\ At(b, 0) = PAD1 THEN [ type |-> PAD1 ] ELSE Rejected
Ip6DestOptsOptionPadNLegal(o) == is_uint8(2 + Len(o.data))
Ip6DestOptsOptionPadNBytes(o) == << PADN, Len(o.data) >> \o o.data
Ip6DestOptsOptionPadNFrom(b) ==
  IF Len(b) >= 2 /\ At(b, 1) + 2 <= Len(b)
  THEN [ type |-> PADN, data |-> Slice(b, 2, 2 + At(b, 1)) ] ELSE Rejected
TunnelEncapsulationLimitLegal(o) == is_uint8(o.value)
TunnelEncapsulationLimitBytes(o) == << TUNNEL_ENCAPSULATION_LIMIT, 1, o.value >>
TunnelEncapsulationLimitFrom(b) ==
  IF Len(b) >= 3 /\ At(b, 1) = 1
  THEN [ type |-> TUNNEL_ENCAPSULATION_LIMIT, value |-> At(b, 2) ] ELSE Rejected
Ip6DestOptsOptionUnknownLegal(o) == o.type \notin Ip6DestOptsOptionType /\ is_uint8(2 + Len(o.data))
Ip6DestOptsOptionUnknownBytes(o) == << o.type, Len(o.data) >> \o o.data
Ip6DestOptsOptionUnknownFrom(b) ==
  IF Len(b) >= 2 /\ At(b, 0) \notin Ip6DestOptsOptionType /\ At(b, 1) + 2 <= Len(b)
  THEN [ type |-> At(b, 0), data |-> Slice(b, 2, 2 + At(b, 1)) ] ELSE Rejected

Ip6DestOptsOptionLegal(o) ==
  CASE o.type = PAD1 -> TRUE
    [] o.type = PADN -> Ip6DestOptsOptionPadNLegal(o)
    [] o.type = TUNNEL_ENCAPSULATION_LIMIT -> TunnelEncapsulationLimitLegal(o)
    [] OTHER -> Ip6DestOptsOptionUnknownLegal(o)
Ip6DestOptsOptionBytes(o) ==
  CASE o.type = PAD1 -> Ip6DestOptsOptionPad1Bytes
    [] o.type = PADN -> Ip6DestOptsOptionPadNBytes(o)
    [] o.type = TUNNEL_ENCAPSULATION_LIMIT -> TunnelEncapsulationLimitBytes(o)
    [] OTHER -> Ip6DestOptsOptionUnknownBytes(o)
Ip6DestOptsOptionsBytes(os) == FlattenSeq([i \in DOMAIN os |-> Ip6DestOptsOptionBytes(os[i])])

RECURSIVE Ip6DestOptsOptionsIntegrity(_)
Ip6DestOptsOptionsIntegrity(b) ==
  \/ b = << >>
  \/ At(b, 0) = PAD1 /\ Ip6DestOptsOptionsIntegrity(From(b, 1))
  \/ /\ At(b, 0) # PAD1
     /\ Len(b) >= 2 /\ 2 + At(b, 1) <= Len(b)
     /\ Ip6DestOptsOptionsIntegrity(From(b, 2 + At(b, 1)))

RECURSIVE Ip6DestOptsOptionsSanity(_)
Ip6DestOptsOptionsSanity(b) ==
  \/ b = << >>
  \/ At(b, 0) = PAD1 /\ Ip6DestOptsOptionsSanity(From(b, 1))
  \/ /\ At(b, 0) \in Ip6DestOptsOptionType \ { PAD1 } \/ (At(b, 0) # PAD1 /\ At(b, 0) \div 64 = 0)
     /\ Ip6DestOptsOptionsSanity(From(b, 2 + At(b, 1)))

RECURSIVE Ip6DestOptsOptionsFrom(_)
Ip6DestOptsOptionsFrom(b) ==
  IF b = << >> THEN << >>
  ELSE LET o == CASE At(b, 0) = PAD1 -> Ip6DestOptsOptionPad1From(b)
                  [] At(b, 0) = PADN -> Ip6DestOptsOptionPadNFrom(b)
                  [] At(b, 0) = TUNNEL_ENCAPSULATION_LIMIT -> TunnelEncapsulationLimitFrom(b)
                  [] OTHER -> Ip6DestOptsOptionUnknownFrom(b)
       IN IF o = Rejected THEN << o >>
          ELSE << o >> \o Ip6DestOptsOptionsFrom(From(b, Len(Ip6DestOptsOptionBytes(o))))

Ip6DestOptsHeaderLegal(h) == is_uint8(h.next) /\ is_uint8(h.hdr_ext_len)
Ip6DestOptsHeaderBytes(h) == << h.next, h.hdr_ext_len >>
Ip6DestOptsHeaderFrom(b) == [ next |-> At(b, 0), hdr_ext_len |-> At(b, 1) ]
Ip6DestOptsHeader(m) ==
  [ next |-> m.next, hdr_ext_len |-> (2 + Len(Ip6DestOptsOptionsBytes(m.options))) \div 8 - 1 ]
Ip6DestOptsAssemblerLegal(m) ==
  /\ \A i \in DOMAIN m.options : Ip6DestOptsOptionLegal(m.options[i])
  /\ (2 + Len(Ip6DestOptsOptionsBytes(m.options))) % 8 = 0
  /\ Len(Ip6DestOptsOptionsBytes(m.options)) <= 2046
  /\ Ip6DestOptsHeaderLegal(Ip6DestOptsHeader(m))
Ip6DestOptsBytes(m) ==
  Ip6DestOptsHeaderBytes(Ip6DestOptsHeader(m)) \o Ip6DestOptsOptionsBytes(m.options) \o m.payload
Ip6DestOptsParserIntegrity(frame) ==
  /\ Len(frame) >= 2 /\ (At(frame, 1) + 1) * 8 <= Len(frame)
  /\ Ip6DestOptsOptionsIntegrity(Slice(frame, 2, (At(frame, 1) + 1) * 8))
Ip6DestOptsParserParse(frame) ==
  LET h == Ip6DestOptsHeaderFrom(frame)
      total == (h.hdr_ext_len + 1) * 8
  IN [ next |-> h.next, options |-> Ip6DestOptsOptionsFrom(Slice(frame, 2, total)),
       payload |-> From(frame, total) ]
=============================================================================
