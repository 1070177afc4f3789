------------------------------ MODULE WireIgmp ------------------------------
(***************************************************************************)
(* IGMP messages, named as in WireIcmp4.  Queries are only read: the stack *)
(* is a host and never assembles one.                                      *)
(***************************************************************************)
EXTENDS NetAddr

IgmpQuery == 17
IgmpV1Report == 18
IgmpV2Report == 22
IgmpV2Leave == 23
IgmpV3Report == 34

\* RFC 3376 floating point: below 128 the value itself.
decode_igmp_float_code(code) ==
  IF code < 128 THEN code ELSE ((code % 16) + 16) * 2 ^ (((code \div 16) % 8) + 3)

\* The version comes from the length, and from a zero code when it is short.
IgmpQueryRead(frame, n) ==
  LET b == Slice(frame, 0, n)
      sources == Get16(b, 10)
  IN IF n < 8 \/ n \in 9 .. 11 THEN Rejected
     ELSE IF n = 8
     THEN [ type |-> IgmpQuery, version |-> IF At(b, 1) = 0 THEN 1 ELSE 2, max_resp_code |-> At(b, 1),
            group_address |-> Slice(b, 4, 8), s_flag |-> FALSE, qrv |-> 0, qqic |-> 0,
            source_addresses |-> << >> ]
     ELSE IF 12 + 4 * sources > n THEN Rejected
     ELSE [ type |-> IgmpQuery, version |-> 3, max_resp_code |-> At(b, 1),
            group_address |-> Slice(b, 4, 8), s_flag |-> (At(b, 8) \div 8) % 2 = 1,
            qrv |-> At(b, 8) % 8, qqic |-> At(b, 9),
            source_addresses |-> Pieces(b, 12, 12 + 4 * sources, 4) ]

IgmpIsGeneralQuery(m) == Unspecified(m.group_address) /\ m.source_addresses = << >>

IgmpGroupRead(type, frame, n) ==
  IF Holds(frame, n, 8) /\ Ip4Multicast(Slice(frame, 4, 8))
  THEN [ type |-> type, group_address |-> Slice(frame, 4, 8) ]
  ELSE Rejected

IgmpV1ReportBytes(m) == << IgmpV1Report, 0, 0, 0 >> \o m.group_address
IgmpV1ReportRead(frame, n) == IgmpGroupRead(IgmpV1Report, frame, n)
IgmpV2ReportBytes(m) == << IgmpV2Report, 0, 0, 0 >> \o m.group_address
IgmpV2ReportRead(frame, n) == IgmpGroupRead(IgmpV2Report, frame, n)
IgmpV2LeaveBytes(m) == << IgmpV2Leave, 0, 0, 0 >> \o m.group_address
IgmpV2LeaveRead(frame, n) == IgmpGroupRead(IgmpV2Leave, frame, n)

-----------------------------------------------------------------------------
(* The version 3 report and its group records.                             *)

IgmpV3GroupRecordLegal(r) ==
  /\ Ip4Multicast(r.multicast_address)
  /\ \A i \in DOMAIN r.source_addresses : Ip4Unicast(r.source_addresses[i])
  /\ is_4_byte_alligned(Len(r.aux_data))
IgmpV3GroupRecordBytes(r) ==
  << r.type, Len(r.aux_data) \div 4 >> \o U16(Len(r.source_addresses)) \o r.multicast_address
  \o FlattenSeq(r.source_addresses) \o r.aux_data
IgmpV3GroupRecordFrom(b) ==
  LET end == 8 + 4 * Get16(b, 2)
  IN [ type |-> At(b, 0), multicast_address |-> Slice(b, 4, 8),
       source_addresses |-> Pieces(b, 8, end, 4),
       aux_data |-> Slice(b, end, end + 4 * At(b, 1)) ]
IgmpV3GroupRecordLen(r) == 8 + 4 * Len(r.source_addresses) + Len(r.aux_data)

IgmpV3ReportLegal(m) ==
  /\ \A i \in DOMAIN m.records : IgmpV3GroupRecordLegal(m.records[i])
  /\ FoldLeft(LAMBDA s, r : s + IgmpV3GroupRecordLen(r), 0, m.records) <= 65515 - 8
IgmpV3ReportBytes(m) ==
  << IgmpV3Report, 0, 0, 0, 0, 0 >> \o U16(Len(m.records))
  \o FlattenSeq([i \in DOMAIN m.records |-> IgmpV3GroupRecordBytes(m.records[i])])

\* validate_integrity: the offset after the records, or -1 when one of them
\* does not fit.
IgmpRecordsEnd(frame, n) ==
  FoldLeft(LAMBDA at, k : IF at = -1 \/ at + 8 > n THEN -1
                          ELSE at + 8 + 4 * At(frame, at + 1) + 4 * Get16(frame, at + 2),
           8, [k \in 1 .. Get16(frame, 6) |-> k])

\* from_buffer: each record is cut off the front of what is left.
IgmpV3ReportRead(frame, n) ==
  LET count == Get16(frame, 6)
      step(st, k) ==
        LET r == IgmpV3GroupRecordFrom(st.left)
        IN [ records |-> Append(st.records, r), left |-> From(st.left, IgmpV3GroupRecordLen(r)) ]
      read == FoldLeft(step, [ records |-> << >>, left |-> Slice(frame, 8, n) ],
                       [k \in 1 .. count |-> k]).records
  IN IF Holds(frame, n, 8) /\ IgmpRecordsEnd(frame, n) = n
        /\ \A i \in DOMAIN read : IgmpV3GroupRecordLegal(read[i])
     THEN [ type |-> IgmpV3Report, records |-> read ]
     ELSE Rejected

-----------------------------------------------------------------------------

IgmpAssemblerLegal(m) == m.type = IgmpV3Report => IgmpV3ReportLegal(m)
IgmpMessageBytes(m) ==
  CASE m.type = IgmpV1Report -> IgmpV1ReportBytes(m)
    [] m.type = IgmpV2Report -> IgmpV2ReportBytes(m)
    [] m.type = IgmpV2Leave -> IgmpV2LeaveBytes(m)
    [] m.type = IgmpV3Report -> IgmpV3ReportBytes(m)
IgmpBytes(m) == LET b == IgmpMessageBytes(m) IN Stamped(b, inet_cksum(<< b >>, NoSum))

IgmpParserIntegrity(frame, n) == Holds(frame, n, 8) /\ inet_cksum(<< Slice(frame, 0, n) >>, NoSum) = 0
IgmpParserParse(frame, n) ==
  LET type == At(frame, 0)
  IN CASE type = IgmpQuery -> IgmpQueryRead(frame, n)
       [] type = IgmpV1Report -> IgmpV1ReportRead(frame, n)
       [] type = IgmpV2Report -> IgmpV2ReportRead(frame, n)
       [] type = IgmpV2Leave -> IgmpV2LeaveRead(frame, n)
       [] type = IgmpV3Report -> IgmpV3ReportRead(frame, n)
       [] OTHER -> Rejected
=============================================================================
