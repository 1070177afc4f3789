------------------------------ MODULE WireDhcp6 -----------------------------
(***************************************************************************)
(* DHCPv6: the 4-byte header, the options and the packet.  Names as in     *)
(* WireNd.  Text (status_message) is the sequence of its bytes, DUIDs and  *)
(* the nested options of an IA are opaque bytes, as they are in the code.  *)
(***************************************************************************)
EXTENDS NetAddr

Dhcp6HeaderLegal(h) == is_uint24(h.xid)
Dhcp6HeaderBytes(h) == << h.msg_type >> \o U24(h.xid)
Dhcp6HeaderFrom(b) == [ msg_type |-> At(b, 0), xid |-> Get24(b, 1) ]

Dhcp6ClientId == 1
Dhcp6ServerId == 2
Dhcp6IaNa == 3
Dhcp6IaAddr == 5
Dhcp6Oro == 6
Dhcp6Preference == 7
Dhcp6ElapsedTime == 8
Dhcp6StatusCode == 13
Dhcp6RapidCommit == 14
Dhcp6DnsServers == 23
Dhcp6OptionKnown == { 1, 2, 3, 5, 6, 7, 8, 13, 14, 23 }

\* The option header, and what a reader asks of the length in it.
Dhcp6Tlv(type, data) == U16(type) \o U16(Len(data)) \o data
Dhcp6Sized(b, n) == Len(b) >= 4 /\ Get16(b, 2) = n /\ 4 + n <= Len(b)
Dhcp6AtLeast(b, n) == Len(b) >= 4 /\ Get16(b, 2) >= n /\ 4 + Get16(b, 2) <= Len(b)
Dhcp6Data(b) == Slice(b, 4, 4 + Get16(b, 2))

\* The constructor caps a DUID at 130 bytes, so a longer one is refused too.
Dhcp6ClientIdLegal(o) == Len(o.duid) \in 1 .. 130
Dhcp6ClientIdBytes(o) == Dhcp6Tlv(Dhcp6ClientId, o.duid)
Dhcp6ClientIdFrom(b) ==
  IF Dhcp6AtLeast(b, 1) /\ Get16(b, 2) <= 130
  THEN [ type |-> Dhcp6ClientId, duid |-> Dhcp6Data(b) ] ELSE Rejected
Dhcp6ServerIdLegal(o) == Len(o.duid) \in 1 .. 130
Dhcp6ServerIdBytes(o) == Dhcp6Tlv(Dhcp6ServerId, o.duid)
Dhcp6ServerIdFrom(b) ==
  IF Dhcp6AtLeast(b, 1) /\ Get16(b, 2) <= 130
  THEN [ type |-> Dhcp6ServerId, duid |-> Dhcp6Data(b) ] ELSE Rejected

Dhcp6IaNaLegal(o) == is_uint32(o.iaid) /\ is_uint32(o.t1) /\ is_uint32(o.t2)
Dhcp6IaNaBytes(o) == Dhcp6Tlv(Dhcp6IaNa, U32(o.iaid) \o U32(o.t1) \o U32(o.t2) \o o.options)
Dhcp6IaNaFrom(b) ==
  IF Dhcp6AtLeast(b, 12)
  THEN [ type |-> Dhcp6IaNa, iaid |-> Get32(b, 4), t1 |-> Get32(b, 8), t2 |-> Get32(b, 12),
         options |-> Slice(b, 16, 4 + Get16(b, 2)) ]
  ELSE Rejected

Dhcp6IaAddrLegal(o) == is_uint32(o.preferred_lifetime) /\ is_uint32(o.valid_lifetime)
Dhcp6IaAddrBytes(o) ==
  Dhcp6Tlv(Dhcp6IaAddr, o.address \o U32(o.preferred_lifetime) \o U32(o.valid_lifetime) \o o.options)
Dhcp6IaAddrFrom(b) ==
  IF Dhcp6AtLeast(b, 24)
  THEN [ type |-> Dhcp6IaAddr, address |-> Slice(b, 4, 20), preferred_lifetime |-> Get32(b, 20),
         valid_lifetime |-> Get32(b, 24), options |-> Slice(b, 28, 4 + Get16(b, 2)) ]
  ELSE Rejected

Dhcp6OroLegal(o) == Len(o.requested_options) >= 1
Dhcp6OroBytes(o) ==
  Dhcp6Tlv(Dhcp6Oro, FlattenSeq([i \in DOMAIN o.requested_options |-> U16(o.requested_options[i])]))
Dhcp6OroFrom(b) ==
  IF Dhcp6AtLeast(b, 2) /\ Get16(b, 2) % 2 = 0
  THEN [ type |-> Dhcp6Oro,
         requested_options |-> [k \in 1 .. Get16(b, 2) \div 2 |-> Get16(b, 2 + 2 * k)] ]
  ELSE Rejected

Dhcp6PreferenceLegal(o) == is_uint8(o.preference)
Dhcp6PreferenceBytes(o) == Dhcp6Tlv(Dhcp6Preference, << o.preference >>)
Dhcp6PreferenceFrom(b) ==
  IF Dhcp6Sized(b, 1) THEN [ type |-> Dhcp6Preference, preference |-> At(b, 4) ] ELSE Rejected

Dhcp6ElapsedTimeLegal(o) == is_uint16(o.elapsed_time)
Dhcp6ElapsedTimeBytes(o) == Dhcp6Tlv(Dhcp6ElapsedTime, U16(o.elapsed_time))
Dhcp6ElapsedTimeFrom(b) ==
  IF Dhcp6Sized(b, 2) THEN [ type |-> Dhcp6ElapsedTime, elapsed_time |-> Get16(b, 4) ] ELSE Rejected

Dhcp6StatusCodeBytes(o) == Dhcp6Tlv(Dhcp6StatusCode, U16(o.status_code) \o o.status_message)
Dhcp6StatusCodeFrom(b) ==
  IF Dhcp6AtLeast(b, 2)
  THEN [ type |-> Dhcp6StatusCode, status_code |-> Get16(b, 4),
         status_message |-> Slice(b, 6, 4 + Get16(b, 2)) ]
  ELSE Rejected

Dhcp6RapidCommitBytes(o) == Dhcp6Tlv(Dhcp6RapidCommit, << >>)
Dhcp6RapidCommitFrom(b) == IF Dhcp6Sized(b, 0) THEN [ type |-> Dhcp6RapidCommit ] ELSE Rejected

Dhcp6DnsServersLegal(o) == Len(o.dns_servers) >= 1
Dhcp6DnsServersBytes(o) == Dhcp6Tlv(Dhcp6DnsServers, FlattenSeq(o.dns_servers))
Dhcp6DnsServersFrom(b) ==
  IF Dhcp6AtLeast(b, 16) /\ Get16(b, 2) % 16 = 0
  THEN [ type |-> Dhcp6DnsServers, dns_servers |-> Pieces(b, 4, 4 + Get16(b, 2), 16) ]
  ELSE Rejected

Dhcp6OptionUnknownLegal(o) == o.type \notin Dhcp6OptionKnown /\ is_uint16(Len(o.data))
Dhcp6OptionUnknownBytes(o) == Dhcp6Tlv(o.type, o.data)
Dhcp6OptionUnknownFrom(b) ==
  IF Dhcp6AtLeast(b, 0) THEN [ type |-> Get16(b, 0), data |-> Dhcp6Data(b) ] ELSE Rejected

-----------------------------------------------------------------------------
(* The list of options.                                                    *)

Dhcp6OptionLegal(o) ==
  CASE o.type = Dhcp6ClientId -> Dhcp6ClientIdLegal(o)
    [] o.type = Dhcp6ServerId -> Dhcp6ServerIdLegal(o)
    [] o.type = Dhcp6IaNa -> Dhcp6IaNaLegal(o)
    [] o.type = Dhcp6IaAddr -> Dhcp6IaAddrLegal(o)
    [] o.type = Dhcp6Oro -> Dhcp6OroLegal(o)
    [] o.type = Dhcp6Preference -> Dhcp6PreferenceLegal(o)
    [] o.type = Dhcp6ElapsedTime -> Dhcp6ElapsedTimeLegal(o)
    [] o.type = Dhcp6DnsServers -> Dhcp6DnsServersLegal(o)
    [] o.type \notin Dhcp6OptionKnown -> Dhcp6OptionUnknownLegal(o)
    [] OTHER -> TRUE

Dhcp6OptionBytes(o) ==
  CASE o.type = Dhcp6ClientId -> Dhcp6ClientIdBytes(o)
    [] o.type = Dhcp6ServerId -> Dhcp6ServerIdBytes(o)
    [] o.type = Dhcp6IaNa -> Dhcp6IaNaBytes(o)
    [] o.type = Dhcp6IaAddr -> Dhcp6IaAddrBytes(o)
    [] o.type = Dhcp6Oro -> Dhcp6OroBytes(o)
    [] o.type = Dhcp6Preference -> Dhcp6PreferenceBytes(o)
    [] o.type = Dhcp6ElapsedTime -> Dhcp6ElapsedTimeBytes(o)
    [] o.type = Dhcp6StatusCode -> Dhcp6StatusCodeBytes(o)
    [] o.type = Dhcp6RapidCommit -> Dhcp6RapidCommitBytes(o)
    [] o.type = Dhcp6DnsServers -> Dhcp6DnsServersBytes(o)
    [] OTHER -> Dhcp6OptionUnknownBytes(o)
Dhcp6OptionsBytes(options) == FlattenSeq([i \in DOMAIN options |-> Dhcp6OptionBytes(options[i])])

Dhcp6OptionFrom(b) ==
  LET type == Get16(b, 0)
  IN CASE type = Dhcp6ClientId -> Dhcp6ClientIdFrom(b)
       [] type = Dhcp6ServerId -> Dhcp6ServerIdFrom(b)
       [] type = Dhcp6IaNa -> Dhcp6IaNaFrom(b)
       [] type = Dhcp6IaAddr -> Dhcp6IaAddrFrom(b)
       [] type = Dhcp6Oro -> Dhcp6OroFrom(b)
       [] type = Dhcp6Preference -> Dhcp6PreferenceFrom(b)
       [] type = Dhcp6ElapsedTime -> Dhcp6ElapsedTimeFrom(b)
       [] type = Dhcp6StatusCode -> Dhcp6StatusCodeFrom(b)
       [] type = Dhcp6RapidCommit -> Dhcp6RapidCommitFrom(b)
       [] type = Dhcp6DnsServers -> Dhcp6DnsServersFrom(b)
       [] OTHER -> Dhcp6OptionUnknownFrom(b)

\* Dhcp6Options.validate_integrity and from_buffer.
RECURSIVE Dhcp6OptionsIntegrity(_)
Dhcp6OptionsIntegrity(b) ==
  \/ b = << >>
  \/ /\ Len(b) >= 4
     /\ 4 + Get16(b, 2) <= Len(b)
     /\ Dhcp6OptionsIntegrity(From(b, 4 + Get16(b, 2)))
RECURSIVE Dhcp6OptionsFrom(_)
Dhcp6OptionsFrom(b) ==
  IF b = << >> THEN << >>
  ELSE LET here == Dhcp6OptionFrom(b)
           rest == Dhcp6OptionsFrom(From(b, 4 + Get16(b, 2)))
       IN IF here = Rejected \/ rest = << Rejected >> THEN << Rejected >> ELSE << here >> \o rest

-----------------------------------------------------------------------------
(* The packet.  Relay messages are neither built nor taken.                *)

Dhcp6AssemblerLegal(p) ==
  /\ p.header.msg_type \in 1 .. 11
  /\ Dhcp6HeaderLegal(p.header)
  /\ \A i \in DOMAIN p.options : Dhcp6OptionLegal(p.options[i])
Dhcp6Bytes(p) == Dhcp6HeaderBytes(p.header) \o Dhcp6OptionsBytes(p.options)
Dhcp6ParserIntegrity(frame) == Len(frame) >= 4 /\ Dhcp6OptionsIntegrity(From(frame, 4))
Dhcp6ParserParse(frame) ==
  LET options == Dhcp6OptionsFrom(From(frame, 4))
  IN IF options = << Rejected >> THEN Rejected
     ELSE [ header |-> Dhcp6HeaderFrom(frame), options |-> options ]
Dhcp6ParserSanity(p) == p.header.msg_type \in 1 .. 11
=============================================================================
