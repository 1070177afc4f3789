------------------------------- MODULE MCWire -------------------------------
(***************************************************************************)
(* The packets of the WireFormats runs: for each format a plain message,   *)
(* then the same with one field at a boundary of its range, each option on *)
(* its own and next to others, and the quotes that must be cut.            *)
(***************************************************************************)
EXTENDS WireFormats

\* base, and base with one field given each of its values.
Vary(base, field, values) == { [ base EXCEPT ![field] = v ] : v \in values }
Words == { 0, 1, 255, 256, 65534, 65535 }
Longs == { 0, 1, 65535, 65536, 2147483647 }
Texts == { << >>, << 7 >>, << 255, 255 >>, << 1, 2, 3, 4, 5, 6, 7, 8, 9 >> }
Fill(n) == [i \in 1 .. n |-> i % 251]

A4 == << 10, 0, 1, 7 >>
B4 == << 192, 168, 0, 255 >>
G4 == << 224, 0, 0, 22 >>
A6 == << 254, 128 >> \o Zeros(13) \o << 7 >>
B6 == << 32, 1, 13, 184 >> \o Zeros(10) \o << 255, 9 >>
G6 == << 255, 2 >> \o Zeros(13) \o << 22 >>

Net4 == [ dscp |-> 0, ecn |-> 0, id |-> 0, flag_df |-> FALSE, flag_mf |-> FALSE, offset |-> 0,
          ttl |-> 64, src |-> A4, dst |-> B4, options |-> << >> ]
Net6 == [ dscp |-> 0, ecn |-> 0, flow |-> 0, hop |-> 64, src |-> A6, dst |-> B6 ]
On4(kind, msgs) ==
  { [ link |-> "ethernet", ver |-> 4, net |-> Net4, chain |-> << >>, kind |-> kind, msg |-> m ] : m \in msgs }
On6(kind, msgs) ==
  { [ link |-> "ethernet", ver |-> 6, net |-> Net6, chain |-> << >>, kind |-> kind, msg |-> m ] : m \in msgs }

-----------------------------------------------------------------------------
(* UDP under every IP header.                                              *)

Udp == [ sport |-> 1, dport |-> 1, no_cksum |-> FALSE, payload |-> << >> ]
Udps ==
  Vary(Udp, "sport", Words) \cup Vary(Udp, "dport", Words \ { 0 }) \cup Vary(Udp, "payload", Texts)

\* The option list filled up with no-operations.
Filled(o) ==
  LET n == Len(Ip4OptionBytes(o)) IN << o >> \o [i \in 1 .. (4 - (n % 4)) % 4 |-> [ type |-> NOP ]]
Entry(a, t) == [ address |-> a, timestamp |-> t ]
Options4 ==
  { [ type |-> t, pointer |-> p, route |-> r ] :
      t \in { RR, LSRR, SSRR }, p \in { 4, 8 }, r \in { << A4 >>, << A4, B4 >> } }
  \cup { [ type |-> ROUTER_ALERT, value |-> v ] : v \in Words }
  \cup { [ type |-> CIPSO, doi |-> d, tags |-> t ] :
           d \in Longs, t \in { << >>, << << 1, 4, 0, 3 >>, << 2, 2 >> >> } }
  \cup { [ type |-> TIMESTAMP, pointer |-> 5, overflow |-> v, flag |-> 0,
           entries |-> << Entry(<< >>, 9), Entry(<< >>, 0) >> ] : v \in { 0, 15 } }
  \cup { [ type |-> TIMESTAMP, pointer |-> 13, overflow |-> 1, flag |-> f,
           entries |-> << Entry(A4, 9) >> ] : f \in { 1, 3 } }
  \cup { [ type |-> 200, data |-> d ] : d \in Texts }
\* A payload that makes the checksum come out as zero.
ZeroSum(p) ==
  LET blank == [ p EXCEPT !.msg.payload = << 0, 0 >> ]
      b     == UdpBytes(blank.msg, SenderPshdr(blank, 10))
  IN [ p EXCEPT !.msg.payload = Slice(b, 6, 8) ]
Nets4 ==
  Vary(Net4, "dscp", { 1, 63 }) \cup Vary(Net4, "ecn", 0 .. 3) \cup Vary(Net4, "id", Words)
  \cup Vary(Net4, "flag_df", BOOLEAN) \cup Vary(Net4, "ttl", { 1, 255 })
  \cup Vary(Net4, "src", { << 0, 0, 0, 0 >>, << 169, 254, 0, 1 >> })
  \cup Vary(Net4, "options", { Filled(o) : o \in Options4 })
  \cup Vary(Net4, "options", { Filled([ type |-> ROUTER_ALERT, value |-> 0 ])
                               \o << [ type |-> NOP ], [ type |-> NOP ], [ type |-> NOP ], [ type |-> EOL ] >> })
Nets6 ==
  Vary(Net6, "dscp", { 1, 63 }) \cup Vary(Net6, "ecn", 0 .. 3) \cup Vary(Net6, "hop", { 1, 255 })
  \cup Vary(Net6, "flow", { 1, 65535, 65536, 1048575 }) \cup Vary(Net6, "src", { Zeros(16) })
UdpPackets ==
  On4("udp", Udps \cup Vary(Udp, "no_cksum", { TRUE })) \cup On6("udp", Udps)
  \cup { [ p EXCEPT !.net = n ] : p \in On4("udp", { Udp }), n \in Nets4 }
  \cup { [ p EXCEPT !.net = n ] : p \in On6("udp", { Udp }), n \in Nets6 }
  \cup { ZeroSum(p) : p \in On4("udp", { Udp }) \cup On6("udp", { Udp }) }
  \cup { [ p EXCEPT !.link = "snap" ] : p \in On4("udp", Udps) \cup On6("udp", { Udp }) }

-----------------------------------------------------------------------------
(* TCP.                                                                    *)

Flag == [ ns |-> FALSE, cwr |-> FALSE, ece |-> FALSE, urg |-> FALSE, ack |-> FALSE, psh |-> FALSE,
          rst |-> FALSE, syn |-> FALSE, fin |-> FALSE ]
Tcp == [ sport |-> 1, dport |-> 1, seq |-> 0, ack |-> 0, flags |-> Flag, win |-> 0, urg |-> 0,
         options |-> << >>, payload |-> << >> ]
TcpFilled(os) ==
  LET n == Len(TcpOptionsBytes(os)) IN os \o [i \in 1 .. (4 - (n % 4)) % 4 |-> [ type |-> T_NOP ]]
Block(l, r) == [ left |-> l, right |-> r ]
Accecn(t, a, b, c) == [ type |-> t, ee0b |-> a, eceb |-> b, ee1b |-> c ]
TcpOptionLists ==
  { << [ type |-> T_MSS, mss |-> v ] >> : v \in Words \cup { 65536 } }
  \cup { << [ type |-> T_WSCALE, wscale |-> v ] >> : v \in { 0, 14, 15 } }
  \cup { << [ type |-> T_TIMESTAMPS, tsval |-> v, tsecr |-> w ] >> : v \in Longs, w \in { 0, 65536 } }
  \cup { << [ type |-> T_SACK, blocks |-> [i \in 1 .. n |-> Block(8 * i, 65536 * i)] ] >> : n \in 0 .. 5 }
  \cup { << [ type |-> T_FASTOPEN, cookie |-> Fill(n) ] >> : n \in { 0, 3, 4, 16, 17 } }
  \cup { << Accecn(t, a, b, c) >> : t \in { T_ACCECN0, T_ACCECN1 }, a \in { Absent, 9 },
                                    b \in { Absent, 65536 }, c \in { Absent, 16777215 } }
  \cup { << [ type |-> 200, data |-> d ] >> : d \in Texts }
  \cup { << [ type |-> T_MSS, mss |-> 1460 ], [ type |-> T_SACKPERM ],
            [ type |-> T_TIMESTAMPS, tsval |-> 1, tsecr |-> 0 ], [ type |-> T_NOP ],
            [ type |-> T_WSCALE, wscale |-> 7 ] >>,
         << [ type |-> T_NOP ], [ type |-> T_NOP ], [ type |-> T_NOP ], [ type |-> T_EOL ] >>,
         << [ type |-> T_EOL ], [ type |-> T_NOP ] >> }
Tcps ==
  Vary(Tcp, "seq", Longs) \cup Vary(Tcp, "ack", Longs) \cup Vary(Tcp, "win", Words)
  \cup Vary(Tcp, "urg", Words) \cup Vary(Tcp, "payload", Texts)
  \cup { [ Tcp EXCEPT !.flags = [ f \in DOMAIN Flag |-> f \in on ] ] :
           on \in { { f } : f \in DOMAIN Flag \ { "fin" } } \cup { { "fin", "ack" }, { "ns", "cwr", "ece", "syn" } } }
  \cup { [ Tcp EXCEPT !.options = TcpFilled(os) ] : os \in TcpOptionLists }
TcpPackets == On4("tcp", Tcps) \cup On6("tcp", Tcps)

-----------------------------------------------------------------------------
(* ARP, ICMPv4, IGMP.                                                      *)

Arp(oper, spa) == [ oper |-> oper, sha |-> Station, spa |-> spa, tha |-> Zeros(6), tpa |-> B4 ]
ArpPackets ==
  { [ link |-> l, ver |-> 0, net |-> [ none |-> 0 ], chain |-> << >>, kind |-> "arp", msg |-> m ] :
      l \in { "ethernet", "snap" },
      m \in { Arp(ArpRequest, A4), Arp(ArpRequest, Zeros(4)), Arp(ArpReply, A4), Arp(3, A4) } }

Quotes4 == { << >>, Fill(547), Fill(548), Fill(549) }
Icmp4s ==
  { [ type |-> t, code |-> 0, id |-> i, seq |-> s, data |-> d ] :
      t \in { EchoReply4, EchoRequest4 }, i \in { 0, 65535 }, s \in { 0, 256 }, d \in { << >>, << 5 >>, Fill(9) } }
  \cup { [ type |-> DestinationUnreachable4, code |-> c, mtu |-> m, data |-> Fill(28) ] :
           c \in { 0, 4, 15 }, m \in { Absent, 68, 65535 } }
  \cup { [ type |-> DestinationUnreachable4, code |-> 3, mtu |-> Absent, data |-> d ] : d \in Quotes4 }
  \cup { [ type |-> TimeExceeded4, code |-> 1, data |-> d ] : d \in Quotes4 }
  \cup { [ type |-> ParameterProblem4, code |-> c, pointer |-> p, data |-> Fill(28) ] :
           c \in { 0, 2, 3 }, p \in { 0, 255 } }

Record4(t, s, x) == [ type |-> t, multicast_address |-> G4, source_addresses |-> s, aux_data |-> x ]
Igmps ==
  { [ type |-> t, group_address |-> G4 ] : t \in { IgmpV1Report, IgmpV2Report, IgmpV2Leave } }
  \cup { [ type |-> IgmpV3Report, records |-> r ] :
           r \in { << >>, << Record4(1, << >>, << >>) >>,
                   << Record4(5, << A4, B4 >>, << >>), Record4(6, << A4 >>, << 1, 2, 3, 4 >>) >>,
                   << Record4(4, << G4 >>, << >>) >> } }

-----------------------------------------------------------------------------
(* ICMPv6, Neighbor Discovery and MLD.                                     *)

Quotes6 == { << >>, Fill(1231), Fill(1232), Fill(1233) }
Icmp6s ==
  { [ type |-> t, code |-> 0, id |-> i, seq |-> 256, data |-> d ] :
      t \in { EchoRequest6, EchoReply6 }, i \in { 0, 65535 }, d \in { << >>, << 5 >>, Fill(9) } }
  \cup { [ type |-> DestinationUnreachable6, code |-> c, data |-> d ] : c \in { 1, 7, 8 }, d \in Quotes6 }
  \cup { [ type |-> PacketTooBig6, code |-> 0, mtu |-> m, data |-> d ] : m \in { 1280, 65536 }, d \in Quotes6 }
  \cup { [ type |-> TimeExceeded6, code |-> c, data |-> Fill(48) ] : c \in 0 .. 1 }
  \cup { [ type |-> ParameterProblem6, code |-> c, pointer |-> p, data |-> Fill(48) ] :
           c \in { 0, 3 }, p \in { 0, 40, 65536 } }

Slla == [ type |-> NdSlla, slla |-> Station ]
Tlla == [ type |-> NdTlla, tlla |-> Station ]
Prefix(n) == [ address |-> Masked(B6, n), len |-> n ]
Labels == << << 97, 98 >>, << 99 >> >>
NdOptionLists ==
  { << >>, << Slla >>, << Tlla >> }
  \cup { << [ type |-> NdPi, flag_l |-> l, flag_a |-> ~l, flag_r |-> l, valid_lifetime |-> v,
              preferred_lifetime |-> 9, prefix |-> Prefix(n) ], Slla >> :
           l \in BOOLEAN, v \in { 0, 65536, 2147483647 }, n \in { 0, 64, 128 } }
  \cup { << [ type |-> NdMtu, mtu |-> v ] >> : v \in Longs }
  \cup { << [ type |-> NdNonce, nonce |-> Fill(n) ] >> : n \in { 5, 6 } }
  \cup { << [ type |-> NdRouteInfo, prf |-> p, route_lifetime |-> 65536, prefix |-> Prefix(n) ], Slla >> :
           p \in { 0, 1, 3 }, n \in { 0, 1, 64, 65, 128 } }
  \cup { << [ type |-> NdRdnss, lifetime |-> 1, addresses |-> a ], Slla >> : a \in { << B6 >>, << A6, B6 >> } }
  \cup { << [ type |-> NdRaFlags, flags |-> Fill(6), len |-> 8 ], Slla >> }
  \cup { << [ type |-> NdDnssl, lifetime |-> 1, domains |-> d ], Slla >> :
           d \in { << Labels >>, << Labels, << << 100 >> >> >> } }
  \cup { << [ type |-> NdRedirectedHeader, data |-> Fill(n) ], Slla >> : n \in { 0, 40, 47, 240 } }
  \cup { << [ type |-> 200, data |-> Fill(n) ], Slla >> : n \in { 6, 14 } }
Ra == [ type |-> RouterAdvertisement, code |-> 0, hop |-> 64, flag_m |-> FALSE, flag_o |-> FALSE, prf |-> 0,
        router_lifetime |-> 0, reachable_time |-> 0, retrans_timer |-> 0, options |-> << >> ]
Ras ==
  Vary(Ra, "options", NdOptionLists) \cup Vary(Ra, "prf", { 0, 1, 3 })
  \cup Vary(Ra, "flag_m", BOOLEAN) \cup Vary(Ra, "flag_o", BOOLEAN) \cup Vary(Ra, "router_lifetime", Words)
  \cup Vary(Ra, "reachable_time", Longs) \cup Vary(Ra, "retrans_timer", Longs) \cup Vary(Ra, "hop", { 0, 255, 256 })
Ns(options) == [ type |-> NeighborSolicitation, code |-> 0, target_address |-> B6, options |-> options ]
Nas ==
  { [ type |-> NeighborAdvertisement, code |-> 0, flag_r |-> r, flag_s |-> s, flag_o |-> o,
      target_address |-> A6, options |-> << Tlla >> ] : r, s, o \in BOOLEAN }
Redirects ==
  { [ type |-> Redirect, code |-> 0, target_address |-> A6, destination_address |-> B6, options |-> << Tlla >> ] }
Record6(t, s, x) == [ type |-> t, multicast_address |-> G6, source_addresses |-> s, aux_data |-> x ]
Mlds ==
  { [ type |-> t, code |-> 0, multicast_address |-> G6 ] : t \in { Mld1Report, Mld1Done } }
  \cup { [ type |-> Mld2Report, code |-> 0, records |-> r ] :
           r \in { << >>, << Record6(4, << >>, << >>) >>,
                   << Record6(5, << A6, B6 >>, << >>), Record6(6, << B6 >>, << 1, 2, 3, 4 >>) >>,
                   << Record6(4, << G6 >>, << >>) >> } }
Addressed(ps, src, dst, hop) ==
  { [ p EXCEPT !.net.src = src, !.net.dst = dst, !.net.hop = hop ] : p \in ps }
NdPackets ==
  Addressed(On6("icmp6", Ras), A6, Ip6AllNodes, 255)
  \cup Addressed(On6("icmp6", { Ns(<< Slla >>), Ns(<< >>) }), A6, B6, 255)
  \cup Addressed(On6("icmp6", { Ns(<< [ type |-> NdNonce, nonce |-> Fill(6) ] >>) }), Zeros(16),
                 solicited_node_multicast(B6), 255)
  \cup Addressed(On6("icmp6", Nas \cup Redirects), A6, Ip6AllNodes, 255)
  \cup Addressed(On6("icmp6", { [ type |-> RouterSolicitation, code |-> 0, options |-> << Slla >> ] }),
                 A6, Ip6AllRouters, 255)
  \cup Addressed(On6("icmp6", Mlds), A6, G6, 1)

-----------------------------------------------------------------------------
(* Extension headers.                                                      *)

Pad(n) == [ type |-> PADN, data |-> Zeros(n) ]
RouterAlert == [ ext |-> IP6_HBH, options |-> << [ type |-> HBH_ROUTER_ALERT, value |-> 0 ], Pad(0) >> ]
AtomicFragment(id) == [ ext |-> IP6_FRAG, offset |-> 0, flag_mf |-> FALSE, id |-> id ]
TunnelLimit == [ ext |-> IP6_DEST_OPTS, options |-> << [ type |-> TUNNEL_ENCAPSULATION_LIMIT, value |-> 4 ],
                                                       Pad(1) >> ]
Exts ==
  { RouterAlert, AtomicFragment(0), AtomicFragment(65536), TunnelLimit,
    [ ext |-> IP6_ROUTING, routing_type |-> 2, segments_left |-> 0, data |-> Fill(4) ] }
  \cup { [ ext |-> IP6_HBH, options |-> os ] :
           os \in { << Pad(4) >>, << [ type |-> PAD1 ], Pad(3) >>, << [ type |-> PAD1 ] >>,
                    << [ type |-> JUMBO_PAYLOAD, value |-> 65536 ] >>,
                    << [ type |-> CALIPSO, doi |-> 65536, sens_level |-> 9, checksum |-> 256,
                         compartment_bitmap |-> Fill(4) ] >>,
                    << [ type |-> 30, data |-> Fill(4) ] >> } }
  \cup { [ ext |-> IP6_DEST_OPTS, options |-> << [ type |-> 30, data |-> Fill(2) ], [ type |-> PAD1 ],
                                                  [ type |-> PAD1 ] >> ] }
Chains == { << h >> : h \in Exts } \cup { << RouterAlert, TunnelLimit >>, << RouterAlert, AtomicFragment(0) >> }
ChainPackets ==
  { [ p EXCEPT !.chain = c ] : p \in On6("udp", { Udp }) \cup On6("tcp", { Tcp }), c \in Chains }
  \cup { [ p EXCEPT !.chain = << RouterAlert >> ] : p \in Addressed(On6("icmp6", Mlds), A6, G6, 1) }

-----------------------------------------------------------------------------
(* DHCP.                                                                   *)

D4 == [ operation |-> 1, hops |-> 0, xid |-> 65536, secs |-> 0, flag_b |-> FALSE, ciaddr |-> Zeros(4),
        yiaddr |-> Zeros(4), siaddr |-> Zeros(4), giaddr |-> Zeros(4), chaddr |-> Station,
        sname |-> << >>, file |-> << >> ]
Opt4(t, f, v) == ("type" :> t) @@ (f :> v)
Discover == Opt4(Dhcp4MessageType, "message_type", 1)
End4 == [ type |-> Dhcp4End ]
Route4(n) == [ address |-> Masked(B4, n), len |-> n, router |-> A4 ]
D4Options ==
  { Opt4(Dhcp4SubnetMask, "subnet_mask", Masked(Ones(4), n)) : n \in { 0, 1, 24, 32 } }
  \cup { Opt4(Dhcp4Router, "routers", r) : r \in { << A4 >>, << A4, B4 >>, << >> } }
  \cup { Opt4(Dhcp4HostName, "host_name", << 104, 105 >>), Opt4(Dhcp4ReqIpAddr, "req_ip_addr", A4),
         Opt4(Dhcp4ServerId, "server_id", A4), Opt4(Dhcp4ParamReqList, "param_req_list", << 1, 3, 121 >>),
         Opt4(Dhcp4ClientId, "client_id", << 1 >> \o Station), [ type |-> Dhcp4Pad ] }
  \cup { Opt4(t, f, v) : <<t, f>> \in { << Dhcp4LeaseTime, "lease_time" >>, << Dhcp4RenewalTime, "renewal_time" >>,
                                      << Dhcp4RebindingTime, "rebinding_time" >> }, v \in Longs }
  \cup { Opt4(Dhcp4MaxMsgSize, "max_msg_size", v) : v \in { 575, 576, 65535 } }
  \cup { Opt4(Dhcp4ClasslessStaticRoute, "routes", r) :
           r \in { << Route4(0) >>, << Route4(8), Route4(9) >>, << Route4(24), Route4(25), Route4(32) >> } }
  \cup { Opt4(200, "data", d) : d \in Texts }
D4s ==
  { [ header |-> D4, options |-> << Discover, o, End4 >> ] : o \in D4Options }
  \cup { [ header |-> h, options |-> << Discover, End4 >> ] :
           h \in Vary(D4, "xid", Longs) \cup Vary(D4, "secs", Words) \cup Vary(D4, "flag_b", BOOLEAN)
                 \cup Vary(D4, "ciaddr", { A4 }) \cup Vary(D4, "sname", { Fill(3), [i \in 1 .. 64 |-> 97] })
                 \cup Vary(D4, "file", { Fill(3), [i \in 1 .. 129 |-> 97] }) }

D6Options ==
  { Opt4(t, "duid", d) : t \in { Dhcp6ClientId, Dhcp6ServerId }, d \in { << 0, 3 >> \o Station, << >> } }
  \cup { [ type |-> Dhcp6IaNa, iaid |-> v, t1 |-> 0, t2 |-> 65536, options |-> o ] : v \in Longs, o \in { << >>, Fill(4) } }
  \cup { [ type |-> Dhcp6IaAddr, address |-> B6, preferred_lifetime |-> v, valid_lifetime |-> 65536,
           options |-> << >> ] : v \in Longs }
  \cup { Opt4(Dhcp6Oro, "requested_options", r) : r \in { << 23 >>, << 23, 24, 256 >>, << >> } }
  \cup { Opt4(Dhcp6Preference, "preference", v) : v \in { 0, 255, 256 } }
  \cup { Opt4(Dhcp6ElapsedTime, "elapsed_time", v) : v \in Words \cup { 65536 } }
  \cup { [ type |-> Dhcp6StatusCode, status_code |-> c, status_message |-> << 111, 107 >> ] : c \in { 0, 5 } }
  \cup { [ type |-> Dhcp6RapidCommit ] } \cup { Opt4(Dhcp6DnsServers, "dns_servers", << A6, B6 >>) }
  \cup { Opt4(200, "data", d) : d \in Texts }
D6s ==
  { [ header |-> [ msg_type |-> 1, xid |-> x ], options |-> << >> ] : x \in { 0, 65536, 16777215 } }
  \cup { [ header |-> [ msg_type |-> 3, xid |-> 1 ], options |-> << o, Opt4(Dhcp6Preference, "preference", 1) >> ] :
           o \in D6Options }

MCPackets ==
  UdpPackets \cup TcpPackets \cup ArpPackets \cup On4("icmp4", Icmp4s) \cup On4("igmp", Igmps)
  \cup On6("icmp6", Icmp6s) \cup NdPackets \cup ChainPackets \cup On4("dhcp4", D4s) \cup On6("dhcp6", D6s)
=============================================================================
