------------------------------ MODULE WireIp4 -------------------------------
(***************************************************************************)
(* The IPv4 header, its options, the two assemblers and the parser.        *)
(* <Class>Legal is __post_init__, <Class>Bytes is __buffer__, <Class>Valid *)
(* is _validate_integrity and <Class>From is from_buffer.                  *)
(***************************************************************************)
EXTENDS Wire

EOL == 0
NOP == 1
RR == 7
TIMESTAMP == 68
LSRR == 131
CIPSO == 134
SSRR == 137
ROUTER_ALERT == 148
Ip4OptionType == { EOL, NOP, RR, TIMESTAMP, LSRR, CIPSO, SSRR, ROUTER_ALERT }

-----------------------------------------------------------------------------
(* Header.                                                                 *)

Ip4HeaderLegal(h) ==
  /\ h.hlen \in 20 .. 60 /\ is_4_byte_alligned(h.hlen)
  /\ is_uint6(h.dscp) /\ is_uint2(h.ecn)
  /\ is_uint16(h.plen) /\ h.plen >= 20
  /\ is_uint16(h.id)
  /\ is_uint13(h.offset \div 8) /\ is_8_byte_alligned(h.offset)
  /\ is_uint8(h.ttl) /\ is_uint8(h.proto) /\ is_uint16(h.cksum)

Ip4HeaderBytes(h) ==
  U8(4 * 16 + h.hlen \div 4) \o U8(h.dscp * 4 + h.ecn) \o U16(h.plen) \o U16(h.id)
  \o U16(Bit(h.flag_df) * 16384 + Bit(h.flag_mf) * 8192 + h.offset \div 8)
  \o U8(h.ttl) \o U8(h.proto) \o U16(0) \o h.src \o h.dst

Ip4HeaderFrom(b) ==
  LET flag__offset == Get16(b, 6)
  IN [ hlen |-> (At(b, 0) % 16) * 4, dscp |-> At(b, 1) \div 4, ecn |-> At(b, 1) % 4,
       plen |-> Get16(b, 2), id |-> Get16(b, 4),
       flag_df |-> (flag__offset \div 16384) % 2 = 1,
       flag_mf |-> (flag__offset \div 8192) % 2 = 1,
       offset |-> (flag__offset % 8192) * 8,
       ttl |-> At(b, 8), proto |-> At(b, 9), cksum |-> Get16(b, 10),
       src |-> Slice(b, 12, 16), dst |-> Slice(b, 16, 20) ]

-----------------------------------------------------------------------------
(* Options.  Record Route and the two source routes are the same class     *)
(* three times over; each has its own definitions, built on the first.     *)

Ip4OptionEolBytes == << EOL >>
Ip4OptionEolFrom(b) == IF b # << >> /\ At(b, 0) = EOL THEN [ type |-> EOL ] ELSE Rejected
Ip4OptionNopBytes == << NOP >>
Ip4OptionNopFrom(b) == IF b # << >> /\ At(b, 0) = NOP THEN [ type |-> NOP ] ELSE Rejected

Ip4OptionRrLegal(o) ==
  /\ is_uint8(o.pointer) /\ o.pointer >= 4 /\ (o.pointer - 4) % 4 = 0
  /\ Len(o.route) >= 1 /\ is_uint8(3 + 4 * Len(o.route))

Ip4OptionRrBytes(o) ==
  << o.type, 3 + 4 * Len(o.route), o.pointer >> \o FlattenSeq(o.route)

Ip4OptionRrValid(b) ==
  LET len == At(b, 1)
  IN /\ len >= 7 /\ (len - 3) % 4 = 0 /\ len <= Len(b)
     /\ At(b, 2) >= 4 /\ (At(b, 2) - 4) % 4 = 0

Ip4OptionRrFrom(b) ==
  IF Len(b) >= 7 /\ Ip4OptionRrValid(b)
  THEN [ type |-> At(b, 0), pointer |-> At(b, 2), route |-> Pieces(b, 3, At(b, 1), 4) ]
  ELSE Rejected

Ip4OptionLsrrLegal(o) == o.type = LSRR /\ Ip4OptionRrLegal(o)
Ip4OptionLsrrBytes(o) == Ip4OptionRrBytes(o)
Ip4OptionLsrrValid(b) == Ip4OptionRrValid(b)
Ip4OptionLsrrFrom(b) ==
  IF Len(b) >= 7 /\ At(b, 0) = LSRR /\ Ip4OptionLsrrValid(b) THEN Ip4OptionRrFrom(b) ELSE Rejected

Ip4OptionSsrrLegal(o) == o.type = SSRR /\ Ip4OptionRrLegal(o)
Ip4OptionSsrrBytes(o) == Ip4OptionRrBytes(o)
Ip4OptionSsrrValid(b) == Ip4OptionRrValid(b)
Ip4OptionSsrrFrom(b) ==
  IF Len(b) >= 7 /\ At(b, 0) = SSRR /\ Ip4OptionSsrrValid(b) THEN Ip4OptionRrFrom(b) ELSE Rejected

Ip4OptionRouterAlertLegal(o) == is_uint16(o.value)
Ip4OptionRouterAlertBytes(o) == << ROUTER_ALERT, 4 >> \o U16(o.value)
Ip4OptionRouterAlertValid(b) == At(b, 1) = 4 /\ At(b, 1) <= Len(b)
Ip4OptionRouterAlertFrom(b) ==
  IF Len(b) >= 4 /\ Ip4OptionRouterAlertValid(b)
  THEN [ type |-> ROUTER_ALERT, value |-> Get16(b, 2) ] ELSE Rejected

\* A CIPSO tag is the byte string of one tag; its second byte is its length.
Ip4OptionCipsoLegal(o) ==
  /\ is_uint32(o.doi)
  /\ \A i \in DOMAIN o.tags : Len(o.tags[i]) >= 2 /\ o.tags[i][2] = Len(o.tags[i])
  /\ 6 + Len(FlattenSeq(o.tags)) <= 255

Ip4OptionCipsoBytes(o) ==
  << CIPSO, 6 + Len(FlattenSeq(o.tags)) >> \o U32(o.doi) \o FlattenSeq(o.tags)

\* The tag walk of _validate_integrity, from offset to the option's end.
RECURSIVE CipsoTagsValid(_, _, _)
CipsoTagsValid(b, offset, end) ==
  \/ offset >= end
  \/ /\ end - offset >= 2
     /\ At(b, offset + 1) >= 2
     /\ offset + At(b, offset + 1) <= end
     /\ CipsoTagsValid(b, offset + At(b, offset + 1), end)

Ip4OptionCipsoValid(b) ==
  At(b, 1) >= 6 /\ At(b, 1) <= Len(b) /\ CipsoTagsValid(b, 6, At(b, 1))

RECURSIVE CipsoTags(_, _, _)
CipsoTags(b, offset, end) ==
  IF offset >= end THEN << >>
  ELSE << Slice(b, offset, offset + At(b, offset + 1)) >>
       \o CipsoTags(b, offset + At(b, offset + 1), end)

Ip4OptionCipsoFrom(b) ==
  IF Len(b) >= 6 /\ Ip4OptionCipsoValid(b)
  THEN [ type |-> CIPSO, doi |-> Get32(b, 2), tags |-> CipsoTags(b, 6, At(b, 1)) ]
  ELSE Rejected

\* Timestamp: flag 0 carries timestamps, flags 1 and 3 pairs of an address
\* and a timestamp.  An entry without an address has address << >>.
_entry_len_for_flag(flag) == IF flag \in { 1, 3 } THEN 8 ELSE 4

Ip4TimestampEntryBytes(e) == e.address \o U32(e.timestamp)

Ip4OptionTimestampLegal(o) ==
  /\ is_uint8(o.pointer) /\ o.pointer >= 5
  /\ is_uint4(o.overflow) /\ o.flag \in { 0, 1, 3 }
  /\ (o.pointer - 5) % _entry_len_for_flag(o.flag) = 0
  /\ Len(o.entries) >= 1
  /\ \A i \in DOMAIN o.entries : (o.entries[i].address = << >>) = (o.flag = 0)
  /\ is_uint8(4 + _entry_len_for_flag(o.flag) * Len(o.entries))

Ip4OptionTimestampBytes(o) ==
  << TIMESTAMP, 4 + _entry_len_for_flag(o.flag) * Len(o.entries),
     o.pointer, o.overflow * 16 + (o.flag % 16) >>
  \o FlattenSeq([i \in DOMAIN o.entries |-> Ip4TimestampEntryBytes(o.entries[i])])

Ip4OptionTimestampValid(b) ==
  LET len == At(b, 1)
      entry_len == _entry_len_for_flag(At(b, 3) % 16)
  IN /\ At(b, 3) % 16 \in { 0, 1, 3 }
     /\ len >= 4 + entry_len /\ (len - 4) % entry_len = 0 /\ len <= Len(b)
     /\ At(b, 2) >= 5 /\ (At(b, 2) - 5) % entry_len = 0

Ip4OptionTimestampFrom(b) ==
  LET entry_len == _entry_len_for_flag(At(b, 3) % 16)
      Entry(p) == [ address |-> Slice(p, 0, entry_len - 4),
                    timestamp |-> Get32(p, entry_len - 4) ]
      ps == Pieces(b, 4, At(b, 1), entry_len)
  IN IF Len(b) >= 4 /\ Ip4OptionTimestampValid(b)
     THEN [ type |-> TIMESTAMP, pointer |-> At(b, 2), overflow |-> At(b, 3) \div 16,
            flag |-> At(b, 3) % 16, entries |-> [i \in DOMAIN ps |-> Entry(ps[i])] ]
     ELSE Rejected

Ip4OptionUnknownLegal(o) == o.type \notin Ip4OptionType /\ is_uint8(2 + Len(o.data))
Ip4OptionUnknownBytes(o) == << o.type, 2 + Len(o.data) >> \o o.data
Ip4OptionUnknownValid(b) == At(b, 1) <= Len(b)
Ip4OptionUnknownFrom(b) ==
  IF Len(b) >= 2 /\ At(b, 0) \notin Ip4OptionType /\ Ip4OptionUnknownValid(b)
  THEN [ type |-> At(b, 0), data |-> Slice(b, 2, At(b, 1)) ] ELSE Rejected

-----------------------------------------------------------------------------
(* The option list.                                                        *)

Ip4OptionLegal(o) ==
  CASE o.type \in { EOL, NOP } -> TRUE
    [] o.type = LSRR -> Ip4OptionLsrrLegal(o)
    [] o.type = SSRR -> Ip4OptionSsrrLegal(o)
    [] o.type = RR -> Ip4OptionRrLegal(o)
    [] o.type = ROUTER_ALERT -> Ip4OptionRouterAlertLegal(o)
    [] o.type = TIMESTAMP -> Ip4OptionTimestampLegal(o)
    [] o.type = CIPSO -> Ip4OptionCipsoLegal(o)
    [] OTHER -> Ip4OptionUnknownLegal(o)

Ip4OptionBytes(o) ==
  CASE o.type = EOL -> Ip4OptionEolBytes
    [] o.type = NOP -> Ip4OptionNopBytes
    [] o.type = LSRR -> Ip4OptionLsrrBytes(o)
    [] o.type = SSRR -> Ip4OptionSsrrBytes(o)
    [] o.type = RR -> Ip4OptionRrBytes(o)
    [] o.type = ROUTER_ALERT -> Ip4OptionRouterAlertBytes(o)
    [] o.type = TIMESTAMP -> Ip4OptionTimestampBytes(o)
    [] o.type = CIPSO -> Ip4OptionCipsoBytes(o)
    [] OTHER -> Ip4OptionUnknownBytes(o)

Ip4OptionsBytes(os) == FlattenSeq([i \in DOMAIN os |-> Ip4OptionBytes(os[i])])

\* The walk of Ip4Options.validate_integrity over the header's option area.
RECURSIVE Ip4OptionsWalk(_, _, _)
Ip4OptionsWalk(frame, hlen, offset) ==
  \/ offset >= hlen
  \/ At(frame, offset) = EOL
  \/ At(frame, offset) = NOP /\ Ip4OptionsWalk(frame, hlen, offset + 1)
  \/ /\ At(frame, offset) \notin { EOL, NOP }
     /\ At(frame, offset + 1) >= 2
     /\ offset + At(frame, offset + 1) <= hlen
     /\ Ip4OptionsWalk(frame, hlen, offset + At(frame, offset + 1))

Ip4OptionFrom(b) ==
  CASE At(b, 0) = EOL -> Ip4OptionEolFrom(b)
    [] At(b, 0) = NOP -> Ip4OptionNopFrom(b)
    [] At(b, 0) = LSRR -> Ip4OptionLsrrFrom(b)
    [] At(b, 0) = SSRR -> Ip4OptionSsrrFrom(b)
    [] At(b, 0) = ROUTER_ALERT -> Ip4OptionRouterAlertFrom(b)
    [] At(b, 0) = RR -> Ip4OptionRrFrom(b)
    [] At(b, 0) = TIMESTAMP -> Ip4OptionTimestampFrom(b)
    [] At(b, 0) = CIPSO -> Ip4OptionCipsoFrom(b)
    [] OTHER -> Ip4OptionUnknownFrom(b)

\* Ip4Options.from_buffer: EOL ends the list; one rejected option rejects all.
RECURSIVE Ip4OptionsFrom(_)
Ip4OptionsFrom(b) ==
  IF b = << >> THEN << >>
  ELSE LET o == Ip4OptionFrom(b)
       IN IF o = Rejected \/ o.type = EOL THEN << o >>
          ELSE << o >> \o Ip4OptionsFrom(From(b, Len(Ip4OptionBytes(o))))

\* The options fragments after the first carry (RFC 791 copy flag, the top bit).
with_copy_flag(os, flag) == SelectSeq(os, LAMBDA o : (o.type \div 128 = 1) = flag)

-----------------------------------------------------------------------------
(* Assemblers and parser.                                                  *)

\* The two checks both assemblers make on their options.
Ip4OptionsLegal(os) ==
  /\ \A i \in DOMAIN os : Ip4OptionLegal(os[i])
  /\ Len(Ip4OptionsBytes(os)) <= 40
  /\ is_4_byte_alligned(Len(Ip4OptionsBytes(os)))
  /\ (\E i \in DOMAIN os : os[i].type = EOL) => os[Len(os)].type = EOL

\* The header the assemblers build: the lengths come from the parts, the
\* checksum covers header and options.
Ip4Header(m) ==
  LET hlen == 20 + Len(Ip4OptionsBytes(m.options))
  IN [ hlen |-> hlen, dscp |-> m.dscp, ecn |-> m.ecn, plen |-> hlen + Len(m.payload),
       id |-> m.id, flag_df |-> m.flag_df, flag_mf |-> m.flag_mf, offset |-> m.offset,
       ttl |-> m.ttl, proto |-> m.proto, cksum |-> 0, src |-> m.src, dst |-> m.dst ]

\* Ip4Assembler never fragments, Ip4FragAssembler never sets DF.
Ip4AssemblerLegal(m) ==
  /\ Ip4OptionsLegal(m.options) /\ Ip4HeaderLegal(Ip4Header(m))
  /\ ~m.flag_mf /\ m.offset = 0

Ip4FragAssemblerLegal(m) ==
  /\ Ip4OptionsLegal(m.options) /\ Ip4HeaderLegal(Ip4Header(m))
  /\ ~m.flag_df

Ip4Bytes(m) ==
  LET header  == Ip4HeaderBytes(Ip4Header(m))
      options == Ip4OptionsBytes(m.options)
  IN Slice(header, 0, 10) \o U16(inet_cksum(<< header, options >>, NoSum)) \o From(header, 12)
     \o options \o m.payload

Ip4ParserIntegrity(frame) ==
  /\ Len(frame) >= 20
  /\ At(frame, 0) \div 16 = 4
  /\ LET hlen == (At(frame, 0) % 16) * 4
         plen == Get16(frame, 2)
     IN /\ 20 <= hlen /\ hlen <= plen /\ plen <= Len(frame)
        /\ inet_cksum(<< Slice(frame, 0, hlen) >>, NoSum) = 0
        /\ Ip4OptionsWalk(frame, hlen, 20)

Ip4ParserParse(frame) ==
  LET h == Ip4HeaderFrom(frame)
  IN [ dscp |-> h.dscp, ecn |-> h.ecn, id |-> h.id, flag_df |-> h.flag_df,
       flag_mf |-> h.flag_mf, offset |-> h.offset, ttl |-> h.ttl, proto |-> h.proto,
       src |-> h.src, dst |-> h.dst,
       options |-> Ip4OptionsFrom(Slice(frame, 20, h.hlen)),
       payload |-> Slice(frame, h.hlen, h.plen) ]

\* _validate_sanity: is_invalid is 0.0.0.0/8 without 0.0.0.0, 240/4 is
\* reserved up to the limited broadcast address.
Ip4ParserSanity(m) ==
  /\ m.ttl # 0
  /\ ~(m.src[1] = 0 /\ m.src # << 0, 0, 0, 0 >>)
  /\ m.src[1] # 127
  /\ m.src[1] \notin 224 .. 239
  /\ m.src[1] \notin 240 .. 255
  /\ ~(m.flag_df /\ m.flag_mf)
  /\ ~(m.flag_df /\ m.offset # 0)

\* The pseudo-header the payload's checksum starts from.
Ip4PshdrSum(m, payload_len) ==
  pshdr_limbs(m.src \o m.dst \o << 0, m.proto >> \o U16(payload_len))
=============================================================================
