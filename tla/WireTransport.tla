--------------------------- MODULE WireTransport ----------------------------
(***************************************************************************)
(* TCP with its options, UDP and raw payloads: assemblers and parsers.     *)
(* <Class>Legal is __post_init__ (or the assembler's asserts), <Class>Bytes*)
(* is __buffer__, <Class>From is from_buffer with its _validate_integrity. *)
(* A segment or datagram is read against the pseudo-header sum and payload *)
(* length of the IP packet that carries it.                                *)
(***************************************************************************)
EXTENDS Wire

\* TcpOptionType.
T_EOL == 0
T_NOP == 1
T_MSS == 2
T_WSCALE == 3
T_SACKPERM == 4
T_SACK == 5
T_TIMESTAMPS == 8
T_FASTOPEN == 34
T_ACCECN0 == 172
T_ACCECN1 == 174
TcpOptionType == { T_EOL, T_NOP, T_MSS, T_WSCALE, T_SACKPERM, T_SACK, T_TIMESTAMPS,
                   T_FASTOPEN, T_ACCECN0, T_ACCECN1 }


-----------------------------------------------------------------------------
(* The TCP header.  flags is the record of the nine flag_* fields.         *)

TcpHeaderLegal(h) ==
  /\ is_uint16(h.sport) /\ is_uint16(h.dport) /\ is_uint32(h.seq) /\ is_uint32(h.ack)
  /\ is_uint6(h.hlen) /\ is_4_byte_alligned(h.hlen)
  /\ is_uint16(h.win) /\ is_uint16(h.cksum) /\ is_uint16(h.urg)

TcpHeaderBytes(h) ==
  LET f == h.flags
  IN U16(h.sport) \o U16(h.dport) \o U32(h.seq) \o U32(h.ack)
     \o U16(h.hlen * 1024 + Bit(f.ns) * 256 + Bit(f.cwr) * 128 + Bit(f.ece) * 64
            + Bit(f.urg) * 32 + Bit(f.ack) * 16 + Bit(f.psh) * 8 + Bit(f.rst) * 4
            + Bit(f.syn) * 2 + Bit(f.fin))
     \o U16(h.win) \o U16(0) \o U16(h.urg)

TcpHeaderFrom(b) ==
  LET w == Get16(b, 12)
      On(k) == (w \div k) % 2 = 1
  IN [ sport |-> Get16(b, 0), dport |-> Get16(b, 2), seq |-> Get32(b, 4), ack |-> Get32(b, 8),
       hlen |-> (w \div 4096) * 4,
       flags |-> [ ns |-> On(256), cwr |-> On(128), ece |-> On(64), urg |-> On(32),
                   ack |-> On(16), psh |-> On(8), rst |-> On(4), syn |-> On(2), fin |-> On(1) ],
       win |-> Get16(b, 14), cksum |-> Get16(b, 16), urg |-> Get16(b, 18) ]

-----------------------------------------------------------------------------
(* TCP options.                                                            *)

TcpOptionEolBytes == << T_EOL >>
TcpOptionEolFrom(b) == IF b # << >> /\ At(b, 0) = T_EOL THEN [ type |-> T_EOL ] ELSE Rejected
TcpOptionNopBytes == << T_NOP >>
TcpOptionNopFrom(b) == IF b # << >> /\ At(b, 0) = T_NOP THEN [ type |-> T_NOP ] ELSE Rejected

TcpOptionMssLegal(o) == is_uint16(o.mss)
TcpOptionMssBytes(o) == << T_MSS, 4 >> \o U16(o.mss)
TcpOptionMssFrom(b) ==
  IF Len(b) >= 2 /\ At(b, 1) = 4 /\ At(b, 1) <= Len(b)
  THEN [ type |-> T_MSS, mss |-> Get16(b, 2) ] ELSE Rejected

\* A shift above 14 is read as 14 (RFC 7323).
TcpOptionWscaleLegal(o) == is_uint8(o.wscale) /\ o.wscale <= 14
TcpOptionWscaleBytes(o) == << T_WSCALE, 3, o.wscale >>
TcpOptionWscaleFrom(b) ==
  IF Len(b) >= 2 /\ At(b, 1) = 3 /\ At(b, 1) <= Len(b)
  THEN [ type |-> T_WSCALE, wscale |-> IF At(b, 2) < 14 THEN At(b, 2) ELSE 14 ] ELSE Rejected

TcpOptionSackpermBytes == << T_SACKPERM, 2 >>
TcpOptionSackpermFrom(b) ==
  IF Len(b) >= 2 /\ At(b, 1) = 2 THEN [ type |-> T_SACKPERM ] ELSE Rejected

TcpSackBlockLegal(k) == is_uint32(k.left) /\ is_uint32(k.right)
TcpSackBlockBytes(k) == U32(k.left) \o U32(k.right)
TcpOptionSackLegal(o) ==
  Len(o.blocks) <= 4 /\ \A i \in DOMAIN o.blocks : TcpSackBlockLegal(o.blocks[i])
TcpOptionSackBytes(o) ==
  << T_SACK, 2 + 8 * Len(o.blocks) >>
  \o FlattenSeq([i \in DOMAIN o.blocks |-> TcpSackBlockBytes(o.blocks[i])])
TcpOptionSackFrom(b) ==
  LET len == At(b, 1)
      ps  == Pieces(b, 2, len, 8)
  IN IF Len(b) >= 2 /\ len <= Len(b) /\ (len - 2) % 8 = 0 /\ (len - 2) \div 8 <= 4
     THEN [ type |-> T_SACK,
            blocks |-> [i \in DOMAIN ps |-> [ left |-> Get32(ps[i], 0), right |-> Get32(ps[i], 4) ]] ]
     ELSE Rejected

TcpOptionTimestampsLegal(o) == is_uint32(o.tsval) /\ is_uint32(o.tsecr)
TcpOptionTimestampsBytes(o) == << T_TIMESTAMPS, 10 >> \o U32(o.tsval) \o U32(o.tsecr)
TcpOptionTimestampsFrom(b) ==
  IF Len(b) >= 2 /\ At(b, 1) = 10 /\ At(b, 1) <= Len(b)
  THEN [ type |-> T_TIMESTAMPS, tsval |-> Get32(b, 2), tsecr |-> Get32(b, 6) ] ELSE Rejected

TcpOptionFastOpenLegal(o) == Len(o.cookie) = 0 \/ Len(o.cookie) \in 4 .. 16
TcpOptionFastOpenBytes(o) == << T_FASTOPEN, 2 + Len(o.cookie) >> \o o.cookie
TcpOptionFastOpenFrom(b) ==
  IF /\ Len(b) >= 2 /\ At(b, 1) >= 2 /\ At(b, 1) <= Len(b)
     /\ At(b, 1) - 2 = 0 \/ At(b, 1) - 2 \in 4 .. 16
  THEN [ type |-> T_FASTOPEN, cookie |-> Slice(b, 2, At(b, 1)) ] ELSE Rejected

\* AccECN: up to three 24-bit counters, a later one only with the earlier
\* ones; kind 0 orders them ee0b, eceb, ee1b and kind 1 the other way round.
CountersLegal(cs) ==
  /\ \A i \in 1 .. 2 : cs[i + 1] # Absent => cs[i] # Absent
  /\ \A i \in 1 .. 3 : cs[i] # Absent => is_uint24(cs[i])
CountersBytes(cs) ==
  FlattenSeq([i \in 1 .. 3 |-> IF cs[i] = Absent THEN << >> ELSE U24(cs[i])])
CountersFrom(b) ==
  [i \in 1 .. 3 |-> IF At(b, 1) >= 2 + 3 * i THEN Get24(b, 3 * i - 1) ELSE Absent]
CountersLen(b) == Len(b) >= 2 /\ At(b, 1) \in { 2, 5, 8, 11 } /\ At(b, 1) <= Len(b)

TcpOptionAccecn0Legal(o) == CountersLegal(<< o.ee0b, o.eceb, o.ee1b >>)
TcpOptionAccecn0Bytes(o) ==
  LET body == CountersBytes(<< o.ee0b, o.eceb, o.ee1b >>)
  IN << T_ACCECN0, 2 + Len(body) >> \o body
TcpOptionAccecn0From(b) ==
  LET cs == CountersFrom(b)
  IN IF CountersLen(b)
     THEN [ type |-> T_ACCECN0, ee0b |-> cs[1], eceb |-> cs[2], ee1b |-> cs[3] ] ELSE Rejected

TcpOptionAccecn1Legal(o) == CountersLegal(<< o.ee1b, o.eceb, o.ee0b >>)
TcpOptionAccecn1Bytes(o) ==
  LET body == CountersBytes(<< o.ee1b, o.eceb, o.ee0b >>)
  IN << T_ACCECN1, 2 + Len(body) >> \o body
TcpOptionAccecn1From(b) ==
  LET cs == CountersFrom(b)
  IN IF CountersLen(b)
     THEN [ type |-> T_ACCECN1, ee0b |-> cs[3], eceb |-> cs[2], ee1b |-> cs[1] ] ELSE Rejected

TcpOptionUnknownLegal(o) == o.type \notin TcpOptionType /\ is_uint8(2 + Len(o.data))
TcpOptionUnknownBytes(o) == << o.type, 2 + Len(o.data) >> \o o.data
TcpOptionUnknownFrom(b) ==
  IF Len(b) >= 2 /\ At(b, 0) \notin TcpOptionType /\ At(b, 1) <= Len(b)
  THEN [ type |-> At(b, 0), data |-> Slice(b, 2, At(b, 1)) ] ELSE Rejected

TcpOptionLegal(o) ==
  CASE o.type \in { T_EOL, T_NOP, T_SACKPERM } -> TRUE
    [] o.type = T_MSS -> TcpOptionMssLegal(o)
    [] o.type = T_WSCALE -> TcpOptionWscaleLegal(o)
    [] o.type = T_SACK -> TcpOptionSackLegal(o)
    [] o.type = T_TIMESTAMPS -> TcpOptionTimestampsLegal(o)
    [] o.type = T_FASTOPEN -> TcpOptionFastOpenLegal(o)
    [] o.type = T_ACCECN0 -> TcpOptionAccecn0Legal(o)
    [] o.type = T_ACCECN1 -> TcpOptionAccecn1Legal(o)
    [] OTHER -> TcpOptionUnknownLegal(o)

TcpOptionBytes(o) ==
  CASE o.type = T_EOL -> TcpOptionEolBytes
    [] o.type = T_NOP -> TcpOptionNopBytes
    [] o.type = T_SACKPERM -> TcpOptionSackpermBytes
    [] o.type = T_MSS -> TcpOptionMssBytes(o)
    [] o.type = T_WSCALE -> TcpOptionWscaleBytes(o)
    [] o.type = T_SACK -> TcpOptionSackBytes(o)
    [] o.type = T_TIMESTAMPS -> TcpOptionTimestampsBytes(o)
    [] o.type = T_FASTOPEN -> TcpOptionFastOpenBytes(o)
    [] o.type = T_ACCECN0 -> TcpOptionAccecn0Bytes(o)
    [] o.type = T_ACCECN1 -> TcpOptionAccecn1Bytes(o)
    [] OTHER -> TcpOptionUnknownBytes(o)

TcpOptionsBytes(os) == FlattenSeq([i \in DOMAIN os |-> TcpOptionBytes(os[i])])

\* TcpOptions.validate_integrity.
RECURSIVE TcpOptionsWalk(_, _, _)
TcpOptionsWalk(frame, hlen, offset) ==
  \/ offset >= hlen
  \/ At(frame, offset) = T_EOL
  \/ At(frame, offset) = T_NOP /\ TcpOptionsWalk(frame, hlen, offset + 1)
  \/ /\ At(frame, offset) \notin { T_EOL, T_NOP }
     /\ At(frame, offset + 1) >= 2
     /\ offset + At(frame, offset + 1) <= hlen
     /\ TcpOptionsWalk(frame, hlen, offset + At(frame, offset + 1))

TcpOptionFrom(b) ==
  CASE At(b, 0) = T_EOL -> TcpOptionEolFrom(b)
    [] At(b, 0) = T_NOP -> TcpOptionNopFrom(b)
    [] At(b, 0) = T_MSS -> TcpOptionMssFrom(b)
    [] At(b, 0) = T_WSCALE -> TcpOptionWscaleFrom(b)
    [] At(b, 0) = T_SACKPERM -> TcpOptionSackpermFrom(b)
    [] At(b, 0) = T_SACK -> TcpOptionSackFrom(b)
    [] At(b, 0) = T_TIMESTAMPS -> TcpOptionTimestampsFrom(b)
    [] At(b, 0) = T_FASTOPEN -> TcpOptionFastOpenFrom(b)
    [] At(b, 0) = T_ACCECN0 -> TcpOptionAccecn0From(b)
    [] At(b, 0) = T_ACCECN1 -> TcpOptionAccecn1From(b)
    [] OTHER -> TcpOptionUnknownFrom(b)

RECURSIVE TcpOptionsFrom(_)
TcpOptionsFrom(b) ==
  IF b = << >> THEN << >>
  ELSE LET o == TcpOptionFrom(b)
       IN IF o = Rejected \/ o.type = T_EOL THEN << o >>
          ELSE << o >> \o TcpOptionsFrom(From(b, Len(TcpOptionBytes(o))))

-----------------------------------------------------------------------------
(* The TCP assembler and parser.                                           *)

TcpHeader(m) ==
  [ sport |-> m.sport, dport |-> m.dport, seq |-> m.seq, ack |-> m.ack,
    hlen |-> 20 + Len(TcpOptionsBytes(m.options)), flags |-> m.flags,
    win |-> m.win, cksum |-> 0, urg |-> m.urg ]

TcpAssemblerLegal(m) ==
  /\ \A i \in DOMAIN m.options : TcpOptionLegal(m.options[i])
  /\ Len(TcpOptionsBytes(m.options)) <= 40
  /\ is_4_byte_alligned(Len(TcpOptionsBytes(m.options)))
  /\ (\E i \in DOMAIN m.options : m.options[i].type = T_EOL)
       => m.options[Len(m.options)].type = T_EOL
  /\ TcpHeaderLegal(TcpHeader(m))

TcpBytes(m, pshdr_sum) ==
  LET header  == TcpHeaderBytes(TcpHeader(m))
      options == TcpOptionsBytes(m.options)
  IN Slice(header, 0, 16) \o U16(inet_cksum(<< header, options, m.payload >>, pshdr_sum))
     \o From(header, 18) \o options \o m.payload

TcpParserIntegrity(frame, payload_len, pshdr_sum) ==
  /\ 20 <= payload_len /\ payload_len <= Len(frame)
  /\ LET hlen == (At(frame, 12) \div 16) * 4
     IN /\ 20 <= hlen /\ hlen <= payload_len
        /\ inet_cksum(<< Slice(frame, 0, payload_len) >>, pshdr_sum) = 0
        /\ TcpOptionsWalk(frame, hlen, 20)

TcpParserParse(frame, payload_len) ==
  LET h == TcpHeaderFrom(frame)
  IN [ sport |-> h.sport, dport |-> h.dport, seq |-> h.seq, ack |-> h.ack, flags |-> h.flags,
       win |-> h.win, urg |-> h.urg, options |-> TcpOptionsFrom(Slice(frame, 20, h.hlen)),
       payload |-> Slice(frame, h.hlen, payload_len) ]

TcpParserSanity(m) ==
  /\ m.sport # 0 /\ m.dport # 0
  /\ ~(m.flags.syn /\ m.flags.fin)
  /\ ~(m.flags.syn /\ m.flags.rst)
  /\ ~(m.flags.fin /\ m.flags.rst)
  /\ ~(m.flags.fin /\ ~m.flags.ack)

-----------------------------------------------------------------------------
(* UDP and raw payloads.                                                   *)

UdpHeaderLegal(h) ==
  is_uint16(h.sport) /\ is_uint16(h.dport) /\ is_uint16(h.plen) /\ is_uint16(h.cksum)
UdpHeaderBytes(h) == U16(h.sport) \o U16(h.dport) \o U16(h.plen) \o U16(0)
UdpHeaderFrom(b) ==
  [ sport |-> Get16(b, 0), dport |-> Get16(b, 2), plen |-> Get16(b, 4), cksum |-> Get16(b, 6) ]

UdpAssembler(m) ==
  [ sport |-> m.sport, dport |-> m.dport, plen |-> 8 + Len(m.payload), cksum |-> 0 ]

\* A computed 0 goes out as 0xFFFF; 0 on the wire means "no checksum".
UdpBytes(m, pshdr_sum) ==
  LET header == UdpHeaderBytes(UdpAssembler(m))
      cksum  == inet_cksum(<< header, m.payload >>, pshdr_sum)
      sent   == IF m.no_cksum THEN 0 ELSE IF cksum = 0 THEN K - 1 ELSE cksum
  IN Slice(header, 0, 6) \o U16(sent) \o m.payload

UdpParserIntegrity(frame, payload_len, pshdr_sum, ver, accept_zero_cksum_ip6) ==
  /\ 8 <= payload_len /\ payload_len <= Len(frame)
  /\ Get16(frame, 4) = payload_len
  /\ IF Get16(frame, 6) = 0
     THEN ver = 4 \/ accept_zero_cksum_ip6
     ELSE inet_cksum(<< Slice(frame, 0, payload_len) >>, pshdr_sum) = 0

UdpParserParse(frame) ==
  LET h == UdpHeaderFrom(frame)
  IN [ sport |-> h.sport, dport |-> h.dport, no_cksum |-> h.cksum = 0,
       payload |-> Slice(frame, 8, h.plen) ]

UdpParserSanity(m) == m.dport # 0

\* RawAssembler.  A raw ICMPv6 message gets its checksum from the kernel.
RawBytes(payload, ip_proto, pshdr_sum) ==
  IF ip_proto = 58 /\ Len(payload) >= 4
  THEN LET blank == Slice(payload, 0, 2) \o << 0, 0 >> \o From(payload, 4)
       IN Slice(payload, 0, 2) \o U16(inet_cksum(<< blank >>, pshdr_sum)) \o From(payload, 4)
  ELSE payload
=============================================================================
