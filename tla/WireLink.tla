------------------------------ MODULE WireLink ------------------------------
(***************************************************************************)
(* The link layer: Ethernet II, IEEE 802.3 with LLC and SNAP, and ARP.     *)
(* A legal message is what its assembler's constructor accepts, Bytes is   *)
(* what it puts on the wire, and the parser's three stages are named for   *)
(* the methods: integrity of the frame, parse, sanity of what was read.    *)
(***************************************************************************)
EXTENDS NetAddr

EtherTypeArp == 2054
EtherTypeIp4 == 2048
EtherTypeIp6 == 34525

EthernetHeaderBytes(h) == h.dst \o h.src \o U16(h.type)
EthernetHeaderFrom(b) == [ dst |-> Slice(b, 0, 6), src |-> Slice(b, 6, 12), type |-> Get16(b, 12) ]

\* EtherType.from_proto gives the type of the payload's protocol; a raw
\* payload carries its own.
EthernetBytes(m) == EthernetHeaderBytes([ dst |-> m.dst, src |-> m.src, type |-> m.type ]) \o m.payload

EthernetParserIntegrity(frame) == Len(frame) >= 14
EthernetParserParse(frame) ==
  LET h == EthernetHeaderFrom(frame)
  IN [ dst |-> h.dst, src |-> h.src, type |-> h.type, payload |-> From(frame, 14) ]
SourceIsStation(src) == ~Unspecified(src) /\ ~MacMulticast(src) /\ ~MacBroadcast(src)
EthernetParserSanity(m) == m.type >= 1536 /\ SourceIsStation(m.src)

-----------------------------------------------------------------------------
(* IEEE 802.3: the last header field is the payload's length.              *)

Ethernet8023MaxPayload == 1500
Ethernet8023HeaderLegal(h) == is_uint16(h.dlen) /\ h.dlen <= Ethernet8023MaxPayload
Ethernet8023HeaderBytes(h) == h.dst \o h.src \o U16(h.dlen)
Ethernet8023HeaderFrom(b) ==
  [ dst |-> Slice(b, 0, 6), src |-> Slice(b, 6, 12), dlen |-> Get16(b, 12) ]

Ethernet8023Header(m) == [ dst |-> m.dst, src |-> m.src, dlen |-> Len(m.payload) ]
Ethernet8023Bytes(m) == Ethernet8023HeaderBytes(Ethernet8023Header(m)) \o m.payload

Ethernet8023ParserIntegrity(frame) ==
  /\ Len(frame) >= 14
  /\ Get16(frame, 12) = Len(frame) - 14
  /\ Get16(frame, 12) <= Ethernet8023MaxPayload
Ethernet8023ParserParse(frame) ==
  LET h == Ethernet8023HeaderFrom(frame)
  IN [ dst |-> h.dst, src |-> h.src, payload |-> Slice(frame, 14, 14 + h.dlen) ]
Ethernet8023ParserSanity(m) == SourceIsStation(m.src)

-----------------------------------------------------------------------------
(* LLC and SNAP.  The parser takes only frames whose control field is      *)
(* unnumbered (its low two bits set); the constructor takes any.           *)

LlcHeaderLegal(h) == is_uint8(h.dsap) /\ is_uint8(h.ssap) /\ is_uint8(h.control)
LlcHeaderBytes(h) == << h.dsap, h.ssap, h.control >>
LlcHeaderFrom(b) == [ dsap |-> At(b, 0), ssap |-> At(b, 1), control |-> At(b, 2) ]
LlcBytes(m) == LlcHeaderBytes(m) \o m.payload
LlcParserIntegrity(frame) == Len(frame) >= 3 /\ At(frame, 2) % 4 = 3
LlcParserParse(frame) ==
  LET h == LlcHeaderFrom(frame)
  IN [ dsap |-> h.dsap, ssap |-> h.ssap, control |-> h.control, payload |-> From(frame, 3) ]

SnapHeaderLegal(h) == is_uint24(h.oui) /\ is_uint16(h.pid)
SnapHeaderBytes(h) == U24(h.oui) \o U16(h.pid)
SnapHeaderFrom(b) == [ oui |-> Get24(b, 0), pid |-> Get16(b, 3) ]
SnapBytes(m) == SnapHeaderBytes(m) \o m.payload
SnapParserIntegrity(frame) == Len(frame) >= 5
SnapParserParse(frame) ==
  LET h == SnapHeaderFrom(frame) IN [ oui |-> h.oui, pid |-> h.pid, payload |-> From(frame, 5) ]

-----------------------------------------------------------------------------
(* ARP.                                                                    *)

ArpRequest == 1
ArpReply   == 2

ArpAssemblerLegal(h) == h.oper \in { ArpRequest, ArpReply }
ArpHeaderBytes(h) ==
  U16(1) \o U16(EtherTypeIp4) \o << 6, 4 >> \o U16(h.oper) \o h.sha \o h.spa \o h.tha \o h.tpa
ArpHeaderFrom(b) ==
  [ oper |-> Get16(b, 6), sha |-> Slice(b, 8, 14), spa |-> Slice(b, 14, 18),
    tha |-> Slice(b, 18, 24), tpa |-> Slice(b, 24, 28) ]

ArpParserIntegrity(frame) ==
  /\ Len(frame) >= 28
  /\ Get16(frame, 0) = 1 /\ Get16(frame, 2) = EtherTypeIp4
  /\ At(frame, 4) = 6 /\ At(frame, 5) = 4
ArpParserSanity(h) ==
  /\ h.oper \in { ArpRequest, ArpReply }
  /\ SourceIsStation(h.sha)
  /\ h.oper = ArpReply => ~Unspecified(h.spa)
  /\ ~Ip4Loopback(h.spa)
  /\ \A a \in { h.spa, h.tpa } : ~Ip4Multicast(a) /\ ~Ip4LimitedBroadcast(a)
=============================================================================
