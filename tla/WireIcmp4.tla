------------------------------ MODULE WireIcmp4 -----------------------------
(***************************************************************************)
(* ICMPv4 and IGMP messages.  For a class C: CLegal is what its            *)
(* __post_init__ asserts, CBytes its __buffer__ with the checksum field    *)
(* still zero, CRead what a parser makes of n bytes of payload in a frame: *)
(* the message, or Rejected when the integrity check, the constructor or   *)
(* the sanity check raises.                                                *)
(***************************************************************************)
EXTENDS NetAddr

Ip4PayloadMax == 65515

EchoReply4 == 0
DestinationUnreachable4 == 3
EchoRequest4 == 8
TimeExceeded4 == 11
ParameterProblem4 == 12
FragmentationNeeded == 4

\* What an error message quotes: __post_init__ keeps the first 548 bytes,
\* the most that fits a packet of the minimum MTU.
Icmp4Quoted(data) == Slice(data, 0, 576 - 20 - 8)

Icmp4Echo(type, frame, n) ==
  IF Holds(frame, n, 8) /\ At(frame, 1) = 0
  THEN [ type |-> type, code |-> 0, id |-> Get16(frame, 4), seq |-> Get16(frame, 6),
         data |-> From(frame, 8) ]
  ELSE Rejected

Icmp4EchoReplyLegal(m) ==
  is_uint16(m.id) /\ is_uint16(m.seq) /\ Len(m.data) <= Ip4PayloadMax - 8
Icmp4EchoReplyBytes(m) == << EchoReply4, m.code, 0, 0 >> \o U16(m.id) \o U16(m.seq) \o m.data
Icmp4EchoReplyRead(frame, n) == Icmp4Echo(EchoReply4, frame, n)

Icmp4EchoRequestLegal(m) ==
  is_uint16(m.id) /\ is_uint16(m.seq) /\ Len(m.data) <= Ip4PayloadMax - 8
Icmp4EchoRequestBytes(m) == << EchoRequest4, m.code, 0, 0 >> \o U16(m.id) \o U16(m.seq) \o m.data
Icmp4EchoRequestRead(frame, n) == Icmp4Echo(EchoRequest4, frame, n)

Icmp4DestinationUnreachableLegal(m) ==
  /\ IF m.code = FragmentationNeeded THEN m.mtu # Absent /\ is_uint16(m.mtu) ELSE m.mtu = Absent
  /\ Len(m.data) <= Ip4PayloadMax - 8
Icmp4DestinationUnreachableBytes(m) ==
  << DestinationUnreachable4, m.code, 0, 0, 0, 0 >>
  \o U16(IF m.code = FragmentationNeeded THEN m.mtu ELSE 0) \o m.data
Icmp4DestinationUnreachableRead(frame, n) ==
  IF Holds(frame, n, 8) /\ At(frame, 1) \in 0 .. 15
  THEN [ type |-> DestinationUnreachable4, code |-> At(frame, 1),
         mtu |-> IF At(frame, 1) = FragmentationNeeded THEN Get16(frame, 6) ELSE Absent,
         data |-> Icmp4Quoted(From(frame, 8)) ]
  ELSE Rejected

Icmp4TimeExceededLegal(m) == Len(m.data) <= Ip4PayloadMax - 8
Icmp4TimeExceededBytes(m) == << TimeExceeded4, m.code, 0, 0, 0, 0, 0, 0 >> \o m.data
Icmp4TimeExceededRead(frame, n) ==
  IF Holds(frame, n, 8) /\ At(frame, 1) \in 0 .. 1
  THEN [ type |-> TimeExceeded4, code |-> At(frame, 1), data |-> Icmp4Quoted(From(frame, 8)) ]
  ELSE Rejected

Icmp4ParameterProblemLegal(m) == is_uint8(m.pointer) /\ Len(m.data) <= Ip4PayloadMax - 8
Icmp4ParameterProblemBytes(m) ==
  << ParameterProblem4, m.code, 0, 0, m.pointer, 0, 0, 0 >> \o m.data
Icmp4ParameterProblemRead(frame, n) ==
  IF Holds(frame, n, 8) /\ At(frame, 1) \in 0 .. 2
  THEN [ type |-> ParameterProblem4, code |-> At(frame, 1), pointer |-> At(frame, 4),
         data |-> Icmp4Quoted(From(frame, 8)) ]
  ELSE Rejected

\* An unknown type is carried verbatim, and refused by its sanity check.
Icmp4UnknownBytes(m) == << m.type, m.code, 0, 0 >> \o m.data

\* Icmp4Assembler: a known code unless the type is unknown, then the
\* class's own assertions; the data an error quotes is cut here.
Icmp4Codes(type) ==
  CASE type = DestinationUnreachable4 -> 0 .. 15
    [] type = TimeExceeded4 -> 0 .. 1
    [] type = ParameterProblem4 -> 0 .. 2
    [] OTHER -> { 0 }

Icmp4AssemblerLegal(m) ==
  CASE m.type = EchoReply4 -> m.code \in Icmp4Codes(m.type) /\ Icmp4EchoReplyLegal(m)
    [] m.type = EchoRequest4 -> m.code \in Icmp4Codes(m.type) /\ Icmp4EchoRequestLegal(m)
    [] m.type = DestinationUnreachable4 ->
         m.code \in Icmp4Codes(m.type) /\ Icmp4DestinationUnreachableLegal(m)
    [] m.type = TimeExceeded4 -> m.code \in Icmp4Codes(m.type) /\ Icmp4TimeExceededLegal(m)
    [] m.type = ParameterProblem4 -> m.code \in Icmp4Codes(m.type) /\ Icmp4ParameterProblemLegal(m)
    [] OTHER -> is_uint8(m.type) /\ is_uint8(m.code)

Icmp4Quotes(type) == type \in { DestinationUnreachable4, TimeExceeded4, ParameterProblem4 }
Icmp4Built(m) == IF Icmp4Quotes(m.type) THEN [ m EXCEPT !.data = Icmp4Quoted(m.data) ] ELSE m

Icmp4MessageBytes(m) ==
  CASE m.type = EchoReply4 -> Icmp4EchoReplyBytes(m)
    [] m.type = EchoRequest4 -> Icmp4EchoRequestBytes(m)
    [] m.type = DestinationUnreachable4 -> Icmp4DestinationUnreachableBytes(m)
    [] m.type = TimeExceeded4 -> Icmp4TimeExceededBytes(m)
    [] m.type = ParameterProblem4 -> Icmp4ParameterProblemBytes(m)
    [] OTHER -> Icmp4UnknownBytes(m)

Icmp4Bytes(m) == LET b == Icmp4MessageBytes(Icmp4Built(m)) IN Stamped(b, inet_cksum(<< b >>, NoSum))

\* Icmp4Assembler.assemble sums the two buffers its message left: the
\* fixed part and the data.
Icmp4Assembled(m) ==
  LET b   == Icmp4MessageBytes(Icmp4Built(m))
      cut == Len(b) - Len(Icmp4Built(m).data)
  IN Stamped(b, inet_cksum(<< Slice(b, 0, cut), From(b, cut) >>, NoSum))

Icmp4ParserIntegrity(frame, n) == Holds(frame, n, 4) /\ inet_cksum(<< Slice(frame, 0, n) >>, NoSum) = 0
Icmp4ParserParse(frame, n) ==
  LET type == At(frame, 0)
  IN CASE type = EchoReply4 -> Icmp4EchoReplyRead(frame, n)
       [] type = EchoRequest4 -> Icmp4EchoRequestRead(frame, n)
       [] type = DestinationUnreachable4 -> Icmp4DestinationUnreachableRead(frame, n)
       [] type = TimeExceeded4 -> Icmp4TimeExceededRead(frame, n)
       [] type = ParameterProblem4 -> Icmp4ParameterProblemRead(frame, n)
       [] OTHER -> Rejected
=============================================================================
