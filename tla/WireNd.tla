-------------------------------- MODULE WireNd -------------------------------
(***************************************************************************)
(* The options of ICMPv6 Neighbor Discovery, and the list of them a        *)
(* message carries.  NdXLegal is the option's __post_init__, NdXBytes its  *)
(* __buffer__, NdXFrom its _validate_integrity and from_buffer: the        *)
(* option at the front of b, or Rejected.                                  *)
(***************************************************************************)
EXTENDS NetAddr

NdSlla == 1
NdTlla == 2
NdPi == 3
NdRedirectedHeader == 4
NdMtu == 5
NdNonce == 14
NdRouteInfo == 24
NdRdnss == 25
NdRaFlags == 26
NdDnssl == 31
NdKnown == { NdSlla, NdTlla, NdPi, NdRedirectedHeader, NdMtu, NdNonce, NdRouteInfo, NdRdnss,
             NdRaFlags, NdDnssl }

\* buffer[1] << 3: an option's length on the wire.
NdWireLen(b) == 8 * At(b, 1)

NdSllaBytes(o) == << NdSlla, 1 >> \o o.slla
NdSllaFrom(b) ==
  IF Len(b) >= 8 /\ NdWireLen(b) = 8 THEN [ type |-> NdSlla, slla |-> Slice(b, 2, 8) ] ELSE Rejected
NdTllaBytes(o) == << NdTlla, 1 >> \o o.tlla
NdTllaFrom(b) ==
  IF Len(b) >= 8 /\ NdWireLen(b) = 8 THEN [ type |-> NdTlla, tlla |-> Slice(b, 2, 8) ] ELSE Rejected

NdMtuLegal(o) == is_uint32(o.mtu)
NdMtuBytes(o) == << NdMtu, 1, 0, 0 >> \o U32(o.mtu)
NdMtuFrom(b) ==
  IF Len(b) >= 8 /\ NdWireLen(b) = 8 THEN [ type |-> NdMtu, mtu |-> Get32(b, 4) ] ELSE Rejected

\* A nonce of any length is accepted and its first six bytes are kept.
NdNonceLegal(o) == Len(o.nonce) = 6
NdNonceBytes(o) == << NdNonce, 1 >> \o o.nonce
NdNonceFrom(b) ==
  IF NdWireLen(b) >= 8 /\ NdWireLen(b) <= Len(b)
  THEN [ type |-> NdNonce, nonce |-> Slice(b, 2, 8) ] ELSE Rejected

NdPiLegal(o) == is_uint32(o.valid_lifetime) /\ is_uint32(o.preferred_lifetime)
NdPiBytes(o) ==
  << NdPi, 4, o.prefix.len, Bit(o.flag_l) * 128 + Bit(o.flag_a) * 64 + Bit(o.flag_r) * 32 >>
  \o U32(o.valid_lifetime) \o U32(o.preferred_lifetime) \o Zeros(4) \o o.prefix.address
NdPiFrom(b) ==
  IF Len(b) >= 32 /\ NdWireLen(b) = 32 /\ At(b, 2) <= 128
  THEN [ type |-> NdPi, flag_l |-> At(b, 3) \div 128 = 1, flag_a |-> (At(b, 3) \div 64) % 2 = 1,
         flag_r |-> (At(b, 3) \div 32) % 2 = 1, valid_lifetime |-> Get32(b, 4),
         preferred_lifetime |-> Get32(b, 8),
         prefix |-> [ address |-> Masked(Slice(b, 16, 32), At(b, 2)), len |-> At(b, 2) ] ]
  ELSE Rejected

\* The flags are the six bytes of a 48-bit integer.  The length read is kept,
\* so that the list walks past a longer option.
NdRaFlagsBytes(o) == << NdRaFlags, 1 >> \o o.flags
NdRaFlagsFrom(b) ==
  IF NdWireLen(b) >= 8 /\ NdWireLen(b) <= Len(b)
  THEN [ type |-> NdRaFlags, flags |-> Slice(b, 2, 8), len |-> NdWireLen(b) ] ELSE Rejected

NdRdnssLegal(o) == is_uint32(o.lifetime)
NdRdnssBytes(o) ==
  << NdRdnss, 1 + 2 * Len(o.addresses), 0, 0 >> \o U32(o.lifetime) \o FlattenSeq(o.addresses)
NdRdnssFrom(b) ==
  IF NdWireLen(b) >= 8 /\ NdWireLen(b) <= Len(b) /\ (At(b, 1) - 1) % 2 = 0
  THEN [ type |-> NdRdnss, lifetime |-> Get32(b, 4), addresses |-> Pieces(b, 8, NdWireLen(b), 16) ]
  ELSE Rejected

\* As much of the redirected packet as fits a length below 256.
NdRedirectedHeaderLegal(o) == is_uint8(8 + Len(o.data)) /\ is_8_byte_alligned(8 + Len(o.data))
NdRedirectedHeaderBytes(o) ==
  << NdRedirectedHeader, (8 + Len(o.data)) \div 8 >> \o Zeros(6) \o o.data
NdRedirectedHeaderFrom(b) ==
  LET o == [ type |-> NdRedirectedHeader, data |-> Slice(b, 8, NdWireLen(b)) ]
  IN IF NdWireLen(b) >= 8 /\ NdWireLen(b) <= Len(b) /\ NdRedirectedHeaderLegal(o) THEN o ELSE Rejected

\* The prefix takes 0, 8 or 16 bytes, by its length.
NdRouteInfoLen(o) == IF o.prefix.len = 0 THEN 8 ELSE IF o.prefix.len <= 64 THEN 16 ELSE 24
NdRouteInfoLegal(o) == is_uint32(o.route_lifetime)
NdRouteInfoBytes(o) ==
  << NdRouteInfo, NdRouteInfoLen(o) \div 8, o.prefix.len, (o.prf % 4) * 8 >> \o U32(o.route_lifetime)
  \o Slice(o.prefix.address, 0, NdRouteInfoLen(o) - 8)
NdRouteInfoFrom(b) ==
  LET n == NdWireLen(b)
  IN IF n \in { 8, 16, 24 } /\ n <= Len(b) /\ At(b, 2) <= 128
        /\ (n = 8 => At(b, 2) = 0) /\ (n = 16 => At(b, 2) <= 64)
     THEN [ type |-> NdRouteInfo, prf |-> (At(b, 3) \div 8) % 4, route_lifetime |-> Get32(b, 4),
            prefix |-> [ address |-> Masked(Slice(b, 8, n) \o Zeros(24 - n), At(b, 2)),
                         len |-> At(b, 2) ] ]
     ELSE Rejected

-----------------------------------------------------------------------------
(* The search list.  A domain is the sequence of its labels, a label a     *)
(* sequence of ASCII bytes without the dot.                                *)

encode_domain(domain) ==
  FlattenSeq([i \in DOMAIN domain |-> << Len(domain[i]) >> \o domain[i]]) \o << 0 >>
EncodedDomains(domains) == FlattenSeq([i \in DOMAIN domains |-> encode_domain(domains[i])])

RECURSIVE decode_domains(_, _, _)
decode_domains(b, labels, domains) ==
  LET closed == IF labels = << >> THEN domains ELSE Append(domains, labels)
  IN IF b = << >> THEN closed
     ELSE IF b[1] = 0 THEN decode_domains(Tail(b), << >>, closed)
     ELSE IF b[1] > 63 \/ 1 + b[1] > Len(b) \/ \E i \in 2 .. 1 + b[1] : b[i] > 127 THEN domains
     ELSE decode_domains(From(b, 1 + b[1]), Append(labels, Slice(b, 1, 1 + b[1])), domains)

NdDnsslLen(o) == 8 + 8 * ((Len(EncodedDomains(o.domains)) + 7) \div 8)
NdDnsslLegal(o) ==
  /\ is_uint32(o.lifetime)
  /\ \A i \in DOMAIN o.domains : \A j \in DOMAIN o.domains[i] :
       /\ Len(o.domains[i][j]) \in 1 .. 63
       /\ \A k \in DOMAIN o.domains[i][j] : o.domains[i][j][k] < 128
NdDnsslBytes(o) ==
  LET encoded == EncodedDomains(o.domains)
  IN << NdDnssl, NdDnsslLen(o) \div 8, 0, 0 >> \o U32(o.lifetime) \o encoded
     \o Zeros(NdDnsslLen(o) - 8 - Len(encoded))
NdDnsslFrom(b) ==
  IF NdWireLen(b) >= 8 /\ NdWireLen(b) <= Len(b)
  THEN [ type |-> NdDnssl, lifetime |-> Get32(b, 4),
         domains |-> decode_domains(Slice(b, 8, NdWireLen(b)), << >>, << >>) ]
  ELSE Rejected

NdUnknownLegal(o) ==
  /\ o.type \notin NdKnown
  /\ is_uint8(2 + Len(o.data)) /\ is_8_byte_alligned(2 + Len(o.data))
NdUnknownBytes(o) == << o.type, (2 + Len(o.data)) \div 8 >> \o o.data
NdUnknownFrom(b) ==
  LET o == [ type |-> At(b, 0), data |-> Slice(b, 2, NdWireLen(b)) ]
  IN IF NdWireLen(b) <= Len(b) /\ NdUnknownLegal(o) THEN o ELSE Rejected

-----------------------------------------------------------------------------
(* The list.                                                               *)

NdOptionLegal(o) ==
  CASE o.type = NdMtu -> NdMtuLegal(o)
    [] o.type = NdNonce -> NdNonceLegal(o)
    [] o.type = NdPi -> NdPiLegal(o)
    [] o.type = NdRdnss -> NdRdnssLegal(o)
    [] o.type = NdRedirectedHeader -> NdRedirectedHeaderLegal(o)
    [] o.type = NdRouteInfo -> NdRouteInfoLegal(o)
    [] o.type = NdDnssl -> NdDnsslLegal(o)
    [] o.type \in { NdSlla, NdTlla, NdRaFlags } -> TRUE
    [] OTHER -> NdUnknownLegal(o)

NdOptionBytes(o) ==
  CASE o.type = NdSlla -> NdSllaBytes(o)
    [] o.type = NdTlla -> NdTllaBytes(o)
    [] o.type = NdPi -> NdPiBytes(o)
    [] o.type = NdRedirectedHeader -> NdRedirectedHeaderBytes(o)
    [] o.type = NdMtu -> NdMtuBytes(o)
    [] o.type = NdNonce -> NdNonceBytes(o)
    [] o.type = NdRouteInfo -> NdRouteInfoBytes(o)
    [] o.type = NdRdnss -> NdRdnssBytes(o)
    [] o.type = NdRaFlags -> NdRaFlagsBytes(o)
    [] o.type = NdDnssl -> NdDnsslBytes(o)
    [] OTHER -> NdUnknownBytes(o)

NdOptionFrom(b) ==
  LET type == At(b, 0)
  IN CASE type = NdSlla -> NdSllaFrom(b)
       [] type = NdTlla -> NdTllaFrom(b)
       [] type = NdPi -> NdPiFrom(b)
       [] type = NdRedirectedHeader -> NdRedirectedHeaderFrom(b)
       [] type = NdMtu -> NdMtuFrom(b)
       [] type = NdNonce -> NdNonceFrom(b)
       [] type = NdRouteInfo -> NdRouteInfoFrom(b)
       [] type = NdRdnss -> NdRdnssFrom(b)
       [] type = NdRaFlags -> NdRaFlagsFrom(b)
       [] type = NdDnssl -> NdDnsslFrom(b)
       [] OTHER -> NdUnknownFrom(b)

\* The len field the dispatch loop advances by: the class's own, except for
\* the RA flags.
NdOptionLen(o) == IF o.type = NdRaFlags THEN o.len ELSE Len(NdOptionBytes(o))

NdOptionsBytes(options) == FlattenSeq([i \in DOMAIN options |-> NdOptionBytes(options[i])])

\* Icmp6NdOptions.validate_integrity: the offsets at which an option starts
\* on the wire; the walk fails on a length below 8 or past the frame's end.
RECURSIVE NdOptionsIntegrity(_, _)
NdOptionsIntegrity(frame, offset) ==
  \/ offset = Len(frame)
  \/ /\ offset + 1 < Len(frame)
     /\ 8 * At(frame, offset + 1) >= 8
     /\ offset + 8 * At(frame, offset + 1) <= Len(frame)
     /\ NdOptionsIntegrity(frame, offset + 8 * At(frame, offset + 1))

\* Icmp6NdOptions.from_buffer: the options, << Rejected >> when one raises.
RECURSIVE NdOptionsFrom(_)
NdOptionsFrom(b) ==
  IF b = << >> THEN << >>
  ELSE LET o == IF Len(b) >= 2 THEN NdOptionFrom(b) ELSE Rejected
           rest == NdOptionsFrom(From(b, NdOptionLen(o)))
       IN IF o = Rejected \/ rest = << Rejected >> THEN << Rejected >> ELSE << o >> \o rest

\* The first link-layer address option of a kind, none is << >>; all prefixes.
NdFirst(options, type) == SelectSeq(options, LAMBDA o : o.type = type)
NdSource(options) ==
  IF NdFirst(options, NdSlla) = << >> THEN << >> ELSE NdFirst(options, NdSlla)[1].slla
NdTarget(options) ==
  IF NdFirst(options, NdTlla) = << >> THEN << >> ELSE NdFirst(options, NdTlla)[1].tlla
NdPrefixes(options) == NdFirst(options, NdPi)
=============================================================================
