------------------------------ MODULE WireDhcp4 -----------------------------
(***************************************************************************)
(* DHCPv4: the 240-byte BOOTP header, the options and the packet.  Names   *)
(* as in WireNd.  Text (sname, file, host_name) is the sequence of its     *)
(* bytes; a subnet mask is its four bytes; a classless route is            *)
(* [address, len, router].                                                 *)
(***************************************************************************)
EXTENDS NetAddr

Ascii(s) == \A i \in DOMAIN s : s[i] < 128
Dhcp4MagicCookie == << 99, 130, 83, 99 >>

\* text + b"\0" * (n - len(text)) and back, sname.rstrip(b"\0").
PaddedTo(s, n) == s \o Zeros(n - Len(s))
Stripped(s) ==
  LET last == Max({ 0 } \cup { i \in DOMAIN s : s[i] # 0 }) IN SubSeq(s, 1, last)

Dhcp4HeaderLegal(h) ==
  /\ is_uint8(h.hops) /\ is_uint32(h.xid) /\ is_uint16(h.secs)
  /\ Len(h.sname) <= 64 /\ Len(h.file) <= 128
Dhcp4HeaderBytes(h) ==
  << h.operation, 1, 6, h.hops >> \o U32(h.xid) \o U16(h.secs) \o << Bit(h.flag_b) * 128, 0 >>
  \o h.ciaddr \o h.yiaddr \o h.siaddr \o h.giaddr \o PaddedTo(h.chaddr, 16)
  \o PaddedTo(h.sname, 64) \o PaddedTo(h.file, 128) \o Dhcp4MagicCookie
Dhcp4HeaderFrom(b) ==
  IF At(b, 1) = 1 /\ At(b, 2) = 6 /\ Slice(b, 236, 240) = Dhcp4MagicCookie
  THEN [ operation |-> At(b, 0), hops |-> At(b, 3), xid |-> Get32(b, 4), secs |-> Get16(b, 8),
         flag_b |-> At(b, 10) \div 128 = 1, ciaddr |-> Slice(b, 12, 16), yiaddr |-> Slice(b, 16, 20),
         siaddr |-> Slice(b, 20, 24), giaddr |-> Slice(b, 24, 28), chaddr |-> Slice(b, 28, 34),
         sname |-> Stripped(Slice(b, 44, 108)), file |-> Stripped(Slice(b, 108, 236)) ]
  ELSE Rejected

-----------------------------------------------------------------------------
(* Options.                                                                *)

Dhcp4Pad == 0
Dhcp4SubnetMask == 1
Dhcp4Router == 3
Dhcp4HostName == 12
Dhcp4ReqIpAddr == 50
Dhcp4LeaseTime == 51
Dhcp4Overload == 52
Dhcp4MessageType == 53
Dhcp4ServerId == 54
Dhcp4ParamReqList == 55
Dhcp4MaxMsgSize == 57
Dhcp4RenewalTime == 58
Dhcp4RebindingTime == 59
Dhcp4ClientId == 61
Dhcp4ClasslessStaticRoute == 121
Dhcp4End == 255
Dhcp4OptionKnown == { 0, 1, 3, 12, 50, 51, 52, 53, 54, 55, 57, 58, 59, 61, 121, 255 }

\* The value of an option whose length must be n, or lies in a range.
Dhcp4Sized(b, n) == Len(b) >= 2 /\ At(b, 1) = n /\ 2 + n <= Len(b)
Dhcp4AtLeast(b, n) == Len(b) >= 2 /\ At(b, 1) >= n /\ 2 + At(b, 1) <= Len(b)
Dhcp4Data(b) == Slice(b, 2, 2 + At(b, 1))

Dhcp4PadBytes(o) == << Dhcp4Pad >>
Dhcp4PadFrom(b) == [ type |-> Dhcp4Pad ]
Dhcp4EndBytes(o) == << Dhcp4End >>
Dhcp4EndFrom(b) == [ type |-> Dhcp4End ]

\* inverted & (inverted + 1) = 0: the ones come first.
ContiguousMask(m) == \E n \in 0 .. 32 : m = Masked(Ones(4), n)
Dhcp4SubnetMaskBytes(o) == << Dhcp4SubnetMask, 4 >> \o o.subnet_mask
Dhcp4SubnetMaskFrom(b) ==
  IF Dhcp4Sized(b, 4) /\ ContiguousMask(Slice(b, 2, 6))
  THEN [ type |-> Dhcp4SubnetMask, subnet_mask |-> Slice(b, 2, 6) ] ELSE Rejected

Dhcp4RouterLegal(o) == Len(o.routers) \in 1 .. 63
Dhcp4RouterBytes(o) == << Dhcp4Router, 4 * Len(o.routers) >> \o FlattenSeq(o.routers)
Dhcp4RouterFrom(b) ==
  IF Dhcp4AtLeast(b, 4) /\ At(b, 1) % 4 = 0
  THEN [ type |-> Dhcp4Router, routers |-> Pieces(b, 2, 2 + At(b, 1), 4) ] ELSE Rejected

\* Text that is not UTF-8 is rejected; here every byte below 128 is.
Dhcp4HostNameLegal(o) == Len(o.host_name) \in 1 .. 255
Dhcp4HostNameBytes(o) == << Dhcp4HostName, Len(o.host_name) >> \o o.host_name
Dhcp4HostNameFrom(b) ==
  IF Dhcp4AtLeast(b, 1) /\ Ascii(Dhcp4Data(b))
  THEN [ type |-> Dhcp4HostName, host_name |-> Dhcp4Data(b) ] ELSE Rejected

Dhcp4ReqIpAddrBytes(o) == << Dhcp4ReqIpAddr, 4 >> \o o.req_ip_addr
Dhcp4ReqIpAddrFrom(b) ==
  IF Dhcp4Sized(b, 4) THEN [ type |-> Dhcp4ReqIpAddr, req_ip_addr |-> Slice(b, 2, 6) ] ELSE Rejected
Dhcp4ServerIdBytes(o) == << Dhcp4ServerId, 4 >> \o o.server_id
Dhcp4ServerIdFrom(b) ==
  IF Dhcp4Sized(b, 4) THEN [ type |-> Dhcp4ServerId, server_id |-> Slice(b, 2, 6) ] ELSE Rejected

Dhcp4LeaseTimeLegal(o) == is_uint32(o.lease_time)
Dhcp4LeaseTimeBytes(o) == << Dhcp4LeaseTime, 4 >> \o U32(o.lease_time)
Dhcp4LeaseTimeFrom(b) ==
  IF Dhcp4Sized(b, 4) THEN [ type |-> Dhcp4LeaseTime, lease_time |-> Get32(b, 2) ] ELSE Rejected
Dhcp4RenewalTimeLegal(o) == is_uint32(o.renewal_time)
Dhcp4RenewalTimeBytes(o) == << Dhcp4RenewalTime, 4 >> \o U32(o.renewal_time)
Dhcp4RenewalTimeFrom(b) ==
  IF Dhcp4Sized(b, 4) THEN [ type |-> Dhcp4RenewalTime, renewal_time |-> Get32(b, 2) ] ELSE Rejected
Dhcp4RebindingTimeLegal(o) == is_uint32(o.rebinding_time)
Dhcp4RebindingTimeBytes(o) == << Dhcp4RebindingTime, 4 >> \o U32(o.rebinding_time)
Dhcp4RebindingTimeFrom(b) ==
  IF Dhcp4Sized(b, 4) THEN [ type |-> Dhcp4RebindingTime, rebinding_time |-> Get32(b, 2) ] ELSE Rejected

Dhcp4OverloadLegal(o) == o.value \in 1 .. 3
Dhcp4OverloadBytes(o) == << Dhcp4Overload, 1, o.value >>
Dhcp4OverloadFrom(b) ==
  IF Dhcp4Sized(b, 1) /\ At(b, 2) \in 1 .. 3
  THEN [ type |-> Dhcp4Overload, value |-> At(b, 2) ] ELSE Rejected
includes_file(o) == o.value \in { 1, 3 }
includes_sname(o) == o.value \in { 2, 3 }

Dhcp4MessageTypeBytes(o) == << Dhcp4MessageType, 1, o.message_type >>
Dhcp4MessageTypeFrom(b) ==
  IF Dhcp4Sized(b, 1) THEN [ type |-> Dhcp4MessageType, message_type |-> At(b, 2) ] ELSE Rejected

Dhcp4ParamReqListLegal(o) == Len(o.param_req_list) \in 1 .. 255
Dhcp4ParamReqListBytes(o) == << Dhcp4ParamReqList, Len(o.param_req_list) >> \o o.param_req_list
Dhcp4ParamReqListFrom(b) ==
  IF Dhcp4AtLeast(b, 1)
  THEN [ type |-> Dhcp4ParamReqList, param_req_list |-> Dhcp4Data(b) ] ELSE Rejected

Dhcp4MaxMsgSizeLegal(o) == is_uint16(o.max_msg_size) /\ o.max_msg_size >= 576
Dhcp4MaxMsgSizeBytes(o) == << Dhcp4MaxMsgSize, 2 >> \o U16(o.max_msg_size)
Dhcp4MaxMsgSizeFrom(b) ==
  IF Dhcp4Sized(b, 2) /\ Get16(b, 2) >= 576
  THEN [ type |-> Dhcp4MaxMsgSize, max_msg_size |-> Get16(b, 2) ] ELSE Rejected

Dhcp4ClientIdLegal(o) == Len(o.client_id) \in 2 .. 255
Dhcp4ClientIdBytes(o) == << Dhcp4ClientId, Len(o.client_id) >> \o o.client_id
Dhcp4ClientIdFrom(b) ==
  IF Dhcp4AtLeast(b, 2) THEN [ type |-> Dhcp4ClientId, client_id |-> Dhcp4Data(b) ] ELSE Rejected

Dhcp4OptionUnknownLegal(o) == o.type \notin Dhcp4OptionKnown /\ Len(o.data) <= 255
Dhcp4OptionUnknownBytes(o) == << o.type, Len(o.data) >> \o o.data
Dhcp4OptionUnknownFrom(b) ==
  IF Dhcp4AtLeast(b, 0) THEN [ type |-> At(b, 0), data |-> Dhcp4Data(b) ] ELSE Rejected

-----------------------------------------------------------------------------
(* Classless static routes (RFC 3442): a prefix length, the octets of the  *)
(* network it makes significant, the router.                               *)

significant_octet_count(prefixlen) == (prefixlen + 7) \div 8
Dhcp4RouteBytes(r) ==
  << r.len >> \o SubSeq(r.address, 1, significant_octet_count(r.len)) \o r.router
Dhcp4ClasslessStaticRouteBytes(o) ==
  LET data == FlattenSeq([i \in DOMAIN o.routes |-> Dhcp4RouteBytes(o.routes[i])])
  IN << Dhcp4ClasslessStaticRoute, Len(data) >> \o data
Dhcp4ClasslessStaticRouteLegal(o) ==
  Len(o.routes) >= 1 /\ Len(Dhcp4ClasslessStaticRouteBytes(o)) <= 2 + 255

\* decode_routes; << Rejected >> when the data ends within a route.
RECURSIVE decode_routes(_)
decode_routes(data) ==
  IF data = << >> THEN << >>
  ELSE LET n    == significant_octet_count(At(data, 0))
           here == [ address |-> Masked(PaddedTo(Slice(data, 1, 1 + n), 4), At(data, 0)),
                     len |-> At(data, 0), router |-> Slice(data, 1 + n, 5 + n) ]
           rest == decode_routes(From(data, 5 + n))
       IN IF At(data, 0) > 32 \/ 5 + n > Len(data) \/ rest = << Rejected >>
          THEN << Rejected >> ELSE << here >> \o rest

\* _concatenated_classless_static_route_data: RFC 3396, every instance of the
\* option in the buffer is one part of the same list.
RECURSIVE ClasslessStaticRouteData(_)
ClasslessStaticRouteData(b) ==
  IF b = << >> \/ (b # << >> /\ At(b, 0) = Dhcp4End) THEN << >>
  ELSE IF At(b, 0) = Dhcp4Pad THEN ClasslessStaticRouteData(From(b, 1))
  ELSE (IF At(b, 0) = Dhcp4ClasslessStaticRoute THEN Dhcp4Data(b) ELSE << >>)
       \o ClasslessStaticRouteData(From(b, 2 + At(b, 1)))

-----------------------------------------------------------------------------
(* The list of options.                                                    *)

Dhcp4OptionLegal(o) ==
  CASE o.type = Dhcp4Router -> Dhcp4RouterLegal(o)
    [] o.type = Dhcp4HostName -> Dhcp4HostNameLegal(o)
    [] o.type = Dhcp4LeaseTime -> Dhcp4LeaseTimeLegal(o)
    [] o.type = Dhcp4RenewalTime -> Dhcp4RenewalTimeLegal(o)
    [] o.type = Dhcp4RebindingTime -> Dhcp4RebindingTimeLegal(o)
    [] o.type = Dhcp4Overload -> Dhcp4OverloadLegal(o)
    [] o.type = Dhcp4ParamReqList -> Dhcp4ParamReqListLegal(o)
    [] o.type = Dhcp4MaxMsgSize -> Dhcp4MaxMsgSizeLegal(o)
    [] o.type = Dhcp4ClientId -> Dhcp4ClientIdLegal(o)
    [] o.type = Dhcp4ClasslessStaticRoute -> Dhcp4ClasslessStaticRouteLegal(o)
    [] o.type \notin Dhcp4OptionKnown -> Dhcp4OptionUnknownLegal(o)
    [] OTHER -> TRUE

Dhcp4OptionBytes(o) ==
  CASE o.type = Dhcp4Pad -> Dhcp4PadBytes(o)
    [] o.type = Dhcp4End -> Dhcp4EndBytes(o)
    [] o.type = Dhcp4SubnetMask -> Dhcp4SubnetMaskBytes(o)
    [] o.type = Dhcp4Router -> Dhcp4RouterBytes(o)
    [] o.type = Dhcp4HostName -> Dhcp4HostNameBytes(o)
    [] o.type = Dhcp4ReqIpAddr -> Dhcp4ReqIpAddrBytes(o)
    [] o.type = Dhcp4ServerId -> Dhcp4ServerIdBytes(o)
    [] o.type = Dhcp4LeaseTime -> Dhcp4LeaseTimeBytes(o)
    [] o.type = Dhcp4RenewalTime -> Dhcp4RenewalTimeBytes(o)
    [] o.type = Dhcp4RebindingTime -> Dhcp4RebindingTimeBytes(o)
    [] o.type = Dhcp4Overload -> Dhcp4OverloadBytes(o)
    [] o.type = Dhcp4MessageType -> Dhcp4MessageTypeBytes(o)
    [] o.type = Dhcp4ParamReqList -> Dhcp4ParamReqListBytes(o)
    [] o.type = Dhcp4MaxMsgSize -> Dhcp4MaxMsgSizeBytes(o)
    [] o.type = Dhcp4ClientId -> Dhcp4ClientIdBytes(o)
    [] o.type = Dhcp4ClasslessStaticRoute -> Dhcp4ClasslessStaticRouteBytes(o)
    [] OTHER -> Dhcp4OptionUnknownBytes(o)
Dhcp4OptionsBytes(options) == FlattenSeq([i \in DOMAIN options |-> Dhcp4OptionBytes(options[i])])

Dhcp4OptionFrom(b) ==
  LET type == At(b, 0)
  IN CASE type = Dhcp4Pad -> Dhcp4PadFrom(b)
       [] type = Dhcp4End -> Dhcp4EndFrom(b)
       [] type = Dhcp4SubnetMask -> Dhcp4SubnetMaskFrom(b)
       [] type = Dhcp4Router -> Dhcp4RouterFrom(b)
       [] type = Dhcp4HostName -> Dhcp4HostNameFrom(b)
       [] type = Dhcp4ReqIpAddr -> Dhcp4ReqIpAddrFrom(b)
       [] type = Dhcp4ServerId -> Dhcp4ServerIdFrom(b)
       [] type = Dhcp4LeaseTime -> Dhcp4LeaseTimeFrom(b)
       [] type = Dhcp4RenewalTime -> Dhcp4RenewalTimeFrom(b)
       [] type = Dhcp4RebindingTime -> Dhcp4RebindingTimeFrom(b)
       [] type = Dhcp4Overload -> Dhcp4OverloadFrom(b)
       [] type = Dhcp4MessageType -> Dhcp4MessageTypeFrom(b)
       [] type = Dhcp4ParamReqList -> Dhcp4ParamReqListFrom(b)
       [] type = Dhcp4MaxMsgSize -> Dhcp4MaxMsgSizeFrom(b)
       [] type = Dhcp4ClientId -> Dhcp4ClientIdFrom(b)
       [] OTHER -> Dhcp4OptionUnknownFrom(b)

\* Dhcp4Options.validate_integrity.
RECURSIVE Dhcp4OptionsIntegrity(_)
Dhcp4OptionsIntegrity(b) ==
  \/ b = << >>
  \/ b # << >> /\ At(b, 0) = Dhcp4End
  \/ b # << >> /\ At(b, 0) = Dhcp4Pad /\ Dhcp4OptionsIntegrity(From(b, 1))
  \/ /\ Len(b) > 1 /\ At(b, 0) \notin { Dhcp4Pad, Dhcp4End }
     /\ 2 + At(b, 1) <= Len(b)
     /\ Dhcp4OptionsIntegrity(From(b, 2 + At(b, 1)))

\* Dhcp4Options.from_buffer: the walk stops behind an End; the first instance
\* of the classless routes carries those of all, the later ones are skipped.
RECURSIVE Dhcp4OptionsWalk(_, _, _)
Dhcp4OptionsWalk(b, routes, emitted) ==
  IF b = << >> THEN << >>
  ELSE IF At(b, 0) = Dhcp4End THEN << Dhcp4EndFrom(b) >>
  ELSE LET csr  == At(b, 0) = Dhcp4ClasslessStaticRoute
           here == IF ~csr THEN << Dhcp4OptionFrom(b) >>
                   ELSE IF emitted THEN << >>
                   ELSE IF routes \in { << >>, << Rejected >> } THEN << Rejected >>
                   ELSE << [ type |-> Dhcp4ClasslessStaticRoute, routes |-> routes ] >>
           rest == Dhcp4OptionsWalk(From(b, IF csr \/ At(b, 0) # Dhcp4Pad THEN 2 + At(b, 1) ELSE 1),
                                    routes, emitted \/ csr)
       IN IF here = << Rejected >> \/ rest = << Rejected >> THEN << Rejected >> ELSE here \o rest
Dhcp4OptionsFrom(b) == Dhcp4OptionsWalk(b, decode_routes(ClasslessStaticRouteData(b)), FALSE)

\* The option of a type: the first one, as a sequence of at most one.
Dhcp4First(options, type) ==
  LET all == SelectSeq(options, LAMBDA o : o.type = type) IN SubSeq(all, 1, IF all = << >> THEN 0 ELSE 1)

-----------------------------------------------------------------------------
(* The packet.                                                             *)

Dhcp4AssemblerLegal(p) ==
  /\ p.options = << >> \/ Last(p.options).type = Dhcp4End
  /\ Ascii(p.header.sname) /\ Ascii(p.header.file)
  /\ p.header.operation \in 1 .. 2
  /\ \A i \in DOMAIN p.options :
       /\ Dhcp4OptionLegal(p.options[i])
       /\ p.options[i].type = Dhcp4MessageType => p.options[i].message_type \in 1 .. 8
       /\ p.options[i].type = Dhcp4ParamReqList => Range(p.options[i].param_req_list) \subseteq Dhcp4OptionKnown
  /\ Dhcp4HeaderLegal(p.header)
Dhcp4Bytes(p) == Dhcp4HeaderBytes(p.header) \o Dhcp4OptionsBytes(p.options)

Dhcp4ParserIntegrity(frame) == Len(frame) >= 240 /\ Dhcp4OptionsIntegrity(From(frame, 240))

\* _apply_option_overload: the file and then the sname field hold options too.
Dhcp4Overloaded(frame, options) ==
  LET o       == Dhcp4First(options, Dhcp4Overload)
      Area(b) == IF Dhcp4OptionsIntegrity(b) THEN Dhcp4OptionsFrom(b) ELSE << Rejected >>
      file    == IF o # << >> /\ includes_file(o[1]) THEN Area(Slice(frame, 108, 236)) ELSE << >>
      sname   == IF o # << >> /\ includes_sname(o[1]) THEN Area(Slice(frame, 44, 108)) ELSE << >>
  IN IF << Rejected >> \in { file, sname } THEN << Rejected >> ELSE options \o file \o sname

Dhcp4ParserParse(frame) ==
  LET header  == Dhcp4HeaderFrom(frame)
      plain   == Dhcp4OptionsFrom(From(frame, 240))
      options == IF plain = << Rejected >> THEN plain ELSE Dhcp4Overloaded(frame, plain)
  IN IF header = Rejected \/ options = << Rejected >> THEN Rejected
     ELSE [ header |-> header, options |-> options ]

Dhcp4ParserSanity(p) ==
  LET h    == p.header
      type == Dhcp4First(p.options, Dhcp4MessageType)
  IN /\ h.operation \in 1 .. 2
     /\ \A a \in { h.ciaddr, h.yiaddr, h.siaddr, h.giaddr } :
          ~(Ip4Loopback(a) \/ Ip4Multicast(a) \/ Ip4LimitedBroadcast(a))
     /\ ~MacMulticast(h.chaddr) /\ ~MacBroadcast(h.chaddr)
     /\ type # << >>
     /\ type[1].message_type \in { 2, 5, 6 } => Dhcp4First(p.options, Dhcp4ServerId) # << >>
     /\ type[1].message_type = 2 => Dhcp4First(p.options, Dhcp4LeaseTime) # << >>
=============================================================================
