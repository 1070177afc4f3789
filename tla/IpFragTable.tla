---------------------------- MODULE IpFragTable ----------------------------
(***************************************************************************)
(* Reassembly of fragmented datagrams (protocols/ip/ip_frag_table.py and   *)
(* ip_frag.py), the flow table that the IPv4 and the IPv6 receive handlers *)
(* share, fed by a network that loses, repeats and reorders fragments,     *)
(* cuts them to different sizes on different paths and marks them.         *)
(*                                                                         *)
(* A handler runs to completion on the event loop, so the admission of one *)
(* fragment is one step.  Time is the age of a flow (now - timestamp),     *)
(* which is not told apart beyond the timeout.  Byte i of the datagram d   *)
(* is the pair <<d, i>>.                                                   *)
(***************************************************************************)
EXTENDS Integers, FiniteSets

CONSTANTS
    FlowId,     \* (source, destination, identification, protocol)
    Ecn,        \* the codepoints the network puts on fragments
    MaxFlows,   \* IP_FRAG__MAX_FLOWS
    Timeout,    \* the timeout of the table, in ticks
    Align,      \* _FRAG_OFFSET_ALIGNMENT__BYTES
    MaxChunk,   \* the largest fragment payloads of the paths in use
    Datagram,   \* the datagrams that take turns with a flow id ...
    Length      \* ... and their lengths

Codepoint == {"NotEct", "Ect0", "Ect1", "Ce"}

ASSUME FragAssumption ==
    /\ MaxFlows \in Nat /\ Timeout \in Nat \ {0} /\ Align \in Nat \ {0}
    /\ MaxChunk \subseteq Nat /\ \A c \in MaxChunk : c >= Align
    /\ Length \in [Datagram -> Nat \ {0}]
    /\ IsFiniteSet(FlowId) /\ Ecn \subseteq Codepoint

VARIABLES
    flows,     \* _flows; status "none" stands for a missing key
    result,    \* what the last add_fragment returned, Nothing after other steps
    datagram,  \* per flow id, the datagram whose fragments are on their way
    quiet      \* per flow id, ticks since one of its fragments was received

vars == <<flows, result, datagram, quiet>>
----------------------------------------------------------------------------
(* The sender: iter_fragment_chunks, with the chunk size rounded down to   *)
(* the alignment, and all that may arrive when each path cuts its own way. *)

FragmentsOf(d, max) ==
    LET size == (max \div Align) * Align
    IN  {[of |-> d, offset |-> o,
          len |-> IF o + size < Length[d] THEN size ELSE Length[d] - o,
          mf |-> o + size < Length[d]]
           : o \in {i \in 0..(Length[d] - 1) : i % size = 0}}

Fragments(d) == UNION {FragmentsOf(d, max) : max \in MaxChunk}

Atomic(g) == g.offset = 0 /\ ~g.mf
----------------------------------------------------------------------------
(* The table.  The payload and ecn dictionaries of a flow are one set of   *)
(* chunks: fragments are not empty, so two chunks never share an offset.   *)

Chunk(g, ecn) == [of |-> g.of, offset |-> g.offset, len |-> g.len, ecn |-> ecn]
Header(g) == [of |-> g.of, offset |-> g.offset]
NoHeader == [of |-> "none"]

NoFlow == [status |-> "none", age |-> 0, header |-> NoHeader, last |-> FALSE,
           chunks |-> {}]

Begun(fs) == {f \in FlowId : fs[f].status # "none"}
End(c) == c.offset + c.len

\* Seeded fault: the sweep also takes the flows that were given up.
SweptDiscarded ==
    [f \in FlowId |-> IF flows[f].age < Timeout /\ flows[f].status # "discarded"
                      THEN flows[f] ELSE NoFlow]

\* sweep_expired
Swept == [f \in FlowId |-> IF flows[f].age < Timeout THEN flows[f] ELSE NoFlow]

Overlaps(chunks, g) == \E c \in chunks : g.offset < End(c) /\ c.offset < End(g)

\* The flow stays, without its payload, until the sweep takes it.
MarkDiscarded(flow) == [flow EXCEPT !.status = "discarded", !.chunks = {}]

\* The chunk is stored; the header kept is that of the first one to arrive.
Inserted(flow, g, ecn) ==
    IF flow.status = "none"
    THEN [status |-> "open", age |-> 0, header |-> Header(g), last |-> ~g.mf,
          chunks |-> {Chunk(g, ecn)}]
    ELSE [flow EXCEPT !.chunks = @ \cup {Chunk(g, ecn)}, !.last = @ \/ ~g.mf]

\* Seeded fault: the last fragment is not waited for.
CompleteWithoutLast(flow) ==
    \A c \in flow.chunks : c.offset = 0 \/ \E p \in flow.chunks : End(p) = c.offset

\* The last fragment was seen and, in the order of their offsets, the first
\* chunk starts at 0 and none starts beyond the end of the one before it.
Complete(flow) ==
    /\ flow.last
    /\ \A c \in flow.chunks :
         \/ c.offset = 0
         \/ \E p \in flow.chunks :
              /\ p.offset < c.offset /\ c.offset <= End(p)
              /\ \A q \in flow.chunks : q.offset <= p.offset \/ c.offset <= q.offset

\* Seeded fault: a mix of ECT codepoints loses the congestion mark.
AggregateEcnLosesCe(seen) ==
    IF Cardinality(seen) = 1 THEN CHOOSE e \in seen : TRUE
    ELSE IF "NotEct" \in seen THEN "drop" ELSE "Ect0"

\* aggregate_ecn; "drop" stands for None.
AggregateEcn(seen) ==
    CASE Cardinality(seen) = 1 -> CHOOSE e \in seen : TRUE
      [] Cardinality(seen) # 1 /\ "NotEct" \in seen -> "drop"
      [] Cardinality(seen) # 1 /\ "NotEct" \notin seen ->
            IF "Ce" \in seen THEN "Ce" ELSE "Ect0"

\* The joined buffer, as the set of the bytes put into it.
Joined(chunks) == UNION {{<<c.of, i>> : i \in c.offset..(End(c) - 1)} : c \in chunks}
Whole(d) == {<<d, i>> : i \in 0..(Length[d] - 1)}

Nothing == [outcome |-> "none"]
Outcome(f, o) == [outcome |-> o, flow |-> f]
Completed(f, header, chunks, ecn) ==
    [outcome |-> "complete", flow |-> f, header |-> header, payload |-> Joined(chunks),
     ecn |-> ecn, marks |-> {c.ecn : c \in chunks}]
----------------------------------------------------------------------------
Init ==
    /\ flows = [f \in FlowId |-> NoFlow]
    /\ result = Nothing
    /\ datagram \in [FlowId -> Datagram]
    /\ quiet = [f \in FlowId |-> Timeout]

\* What every admission does besides: the clock of the flow id restarts.
Arrived(f) == quiet' = [quiet EXCEPT ![f] = 0] /\ UNCHANGED datagram

\* add_fragment, offset 0 and no more fragments: past the table.
AddAtomic(f, g, ecn) ==
    /\ Atomic(g)
    /\ result' = Completed(f, Header(g), {Chunk(g, ecn)}, ecn)
    /\ Arrived(f)
    /\ UNCHANGED flows

\* A discarded flow, or a new one while the table is full.
Refused(fs, f) ==
    \/ fs[f].status = "discarded"
    \/ fs[f].status = "none" /\ Cardinality(Begun(fs)) >= MaxFlows

AddRefused(f, g, ecn) ==
    /\ ~Atomic(g) /\ Refused(Swept, f)
    /\ flows' = Swept
    /\ result' = Outcome(f, "discarded")
    /\ Arrived(f)

AddOverlap(f, g, ecn) ==
    /\ ~Atomic(g) /\ ~Refused(Swept, f)
    /\ Overlaps(Swept[f].chunks, g)
    /\ flows' = [Swept EXCEPT ![f] = MarkDiscarded(@)]
    /\ result' = Outcome(f, "overlap")
    /\ Arrived(f)

AddChunk(f, g, ecn) ==
    LET flow == Inserted(Swept[f], g, ecn)
        mark == AggregateEcn({c.ecn : c \in flow.chunks})
    IN  /\ ~Atomic(g) /\ ~Refused(Swept, f) /\ ~Overlaps(Swept[f].chunks, g)
        /\ \/ /\ ~Complete(flow)
              /\ flows' = [Swept EXCEPT ![f] = flow]
              /\ result' = Outcome(f, "pending")
           \/ /\ Complete(flow) /\ mark = "drop"
              /\ flows' = [Swept EXCEPT ![f] = NoFlow]
              /\ result' = Outcome(f, "ecn_mixed_drop")
           \/ /\ Complete(flow) /\ mark # "drop"
              /\ flows' = [Swept EXCEPT ![f] = NoFlow]
              /\ result' = Completed(f, flow.header, flow.chunks, mark)
        /\ Arrived(f)

\* _phrx_ip4 and _phrx_ip6_frag hand a fragment to the table; what is
\* complete goes back to the parser with its header patched.
AddFragment(f, g, ecn) ==
    \/ AddAtomic(f, g, ecn)
    \/ AddRefused(f, g, ecn)
    \/ AddOverlap(f, g, ecn)
    \/ AddChunk(f, g, ecn)

\* Seeded fault: nobody sweeps when no fragment arrives.
HousekeepingNever == FALSE /\ UNCHANGED vars

\* The table's share of _task__periodic_housekeeping.
Housekeeping ==
    /\ flows' = Swept
    /\ result' = Nothing
    /\ UNCHANGED <<datagram, quiet>>

Older(n) == IF n < Timeout THEN n + 1 ELSE n

Tick ==
    /\ flows' = [f \in FlowId |-> IF flows[f].status = "none" THEN NoFlow
                                  ELSE [flows[f] EXCEPT !.age = Older(@)]]
    /\ quiet' = [f \in FlowId |-> Older(quiet[f])]
    /\ result' = Nothing
    /\ UNCHANGED datagram

\* The sender takes the identification for another datagram, not before the
\* reassembly time of the last one has passed.
NextDatagram(f) ==
    /\ quiet[f] >= Timeout
    /\ \E d \in Datagram \ {datagram[f]} : datagram' = [datagram EXCEPT ![f] = d]
    /\ result' = Nothing
    /\ UNCHANGED <<flows, quiet>>

Next ==
    \/ \E f \in FlowId, ecn \in Ecn : \E g \in Fragments(datagram[f]) : AddFragment(f, g, ecn)
    \/ \E f \in FlowId : NextDatagram(f)
    \/ Housekeeping
    \/ Tick

\* The clock runs and housekeeping is a task that never ends; nothing is
\* promised about fragments.
Fairness == WF_vars(Tick) /\ WF_vars(Housekeeping)

Spec == Init /\ [][Next]_vars /\ Fairness
----------------------------------------------------------------------------
(* Properties.                                                             *)

ChunkType == [of : Datagram, offset : Nat, len : Nat \ {0}, ecn : Codepoint]
FlowType == [status : {"open", "discarded"}, age : 0..Timeout,
             header : [of : Datagram, offset : Nat], last : BOOLEAN,
             chunks : SUBSET ChunkType]

\* Every variable has its type; an open flow has a chunk and a header.
TypeOK ==
    /\ DOMAIN flows = FlowId
    /\ \A f \in FlowId :
         \/ flows[f] = NoFlow
         \/ /\ flows[f] \in FlowType
            /\ flows[f].status = "open" <=> flows[f].chunks # {}
    /\ datagram \in [FlowId -> Datagram]
    /\ quiet \in [FlowId -> 0..Timeout]

\* What add_fragment returns as complete is one whole datagram, the one the
\* sender last gave this flow id, byte for byte and under a header of its
\* own: never a mixture with an earlier one, never with a hole, however the
\* fragments were cut, repeated and reordered.
WholeOrNothing ==
    result.outcome = "complete" =>
        /\ result.payload = Whole(datagram[result.flow])
        /\ result.header.of = datagram[result.flow]

\* The chunks kept for a flow never share a byte: any overlap, exact
\* duplicates included, gives the flow up (RFC 5722 in ip_frag_table.py).
ChunksDisjoint == \A f \in FlowId : \A c, d \in flows[f].chunks :
    c # d => End(c) <= d.offset \/ End(d) <= c.offset

\* No flow that has all bytes of its datagram waits in the table: whichever
\* fragment arrives last completes it.
NothingWholeIsKept == \A f \in FlowId :
    flows[f].status = "open" => Joined(flows[f].chunks) # Whole(flows[f].header.of)

\* The table never holds more than IP_FRAG__MAX_FLOWS flows.
WithinMaxFlows == Cardinality(Begun(flows)) <= MaxFlows

\* A congestion mark on any fragment of a datagram is on the datagram, and
\* fragments that disagree about Not-ECT make none (RFC 3168 5.3 in
\* aggregate_ecn); marks is what the joined fragments carried.
MarksSurvive ==
    result.outcome = "complete" =>
        /\ result.ecn \in result.marks
        /\ "Ce" \in result.marks => result.ecn = "Ce"
        /\ "NotEct" \in result.marks => result.marks = {"NotEct"}

\* Once an overlap was seen nothing of the flow is delivered until the flow
\* has expired: later fragments are refused and the mark is kept.
DiscardedStays == [][
    \A f \in FlowId :
        flows[f].status = "discarded" /\ flows[f].age < Timeout =>
            /\ flows'[f].status = "discarded"
            /\ result'.outcome = "complete" /\ result'.flow = f => flows' = flows
    ]_vars

\* A flow id that was given up is taken again: a discarded flow always ends,
\* also when no fragment of any flow ever arrives.
DiscardEnds == \A f \in FlowId :
    flows[f].status = "discarded" ~> flows[f].status # "discarded"
=============================================================================
