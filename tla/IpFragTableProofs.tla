------------------------- MODULE IpFragTableProofs -------------------------
(* Proofs about the reassembly table, for any flow ids, timeouts, caps,    *)
(* alignments, paths and datagram lengths: first what it stores and        *)
(* delivers, then what it admits and gives up (its cap, the flows an       *)
(* overlap discarded and the congestion marks).                            *)
EXTENDS IpFragTable, FiniteSetTheorems, WellFoundedInduction, TLAPS

\* What the sender's cutting guarantees of one fragment.
WellCut(g, d) ==
    /\ g.of = d /\ g.offset \in Nat /\ g.len \in Nat \ {0} /\ g.mf \in BOOLEAN
    /\ End(g) <= Length[d]
    /\ ~g.mf <=> End(g) = Length[d]

\* Every non-empty set of naturals has a least element.
LEMMA LeastElement ==
    ASSUME NEW T, T \subseteq Nat, T # {}
    PROVE  \E x \in T : \A y \in T : x <= y
<1> DEFINE R == OpToRel(<, Nat)
<1>1. IsWellFoundedOn(R, Nat) BY NatLessThanWellFounded
<1> HIDE DEF R
<1>2. \E x \in T : \A y \in T : ~(<<y, x>> \in R) BY <1>1, WFMin, Zenon
<1>3. PICK x \in T : \A y \in T : ~(<<y, x>> \in R) BY <1>2
<1>4. \A y \in T : ~(y < x) BY <1>3, Zenon DEF R, OpToRel
<1> QED BY <1>4

\* A size no smaller than the alignment stays positive when rounded down.
LEMMA RoundedDown ==
    ASSUME NEW max \in Nat, max >= Align
    PROVE  (max \div Align) * Align \in Nat \ {0}
<1> DEFINE q == max \div Align
<1>1. Align \in Nat \ {0} BY FragAssumption
<1>2. q \in Int /\ max = Align * q + (max % Align) /\ max % Align \in 0..(Align - 1)
  BY <1>1
<1>3. q >= 1
  <2>1. SUFFICES ASSUME q <= 0 PROVE FALSE BY <1>2
  <2>2. Align * q <= 0 BY <2>1, <1>1, <1>2
  <2> QED BY <2>2, <1>1, <1>2
<1>4. q * Align \in Int /\ q * Align >= 1 BY <1>3, <1>2, <1>1
<1> QED BY <1>4

\* Every fragment of a datagram lies inside it, is not empty, and is marked
\* as the last one exactly when it ends where the datagram ends.
LEMMA FragmentsAreWellCut ==
    ASSUME NEW d \in Datagram, NEW g \in Fragments(d)
    PROVE  WellCut(g, d)
<1>1. Length[d] \in Nat \ {0} BY FragAssumption
<1>2. PICK max \in MaxChunk : g \in FragmentsOf(d, max) BY DEF Fragments
<1>3. max \in Nat /\ max >= Align BY FragAssumption
<1> DEFINE size == (max \div Align) * Align
<1>4. size \in Nat \ {0} BY <1>3, RoundedDown
<1> HIDE DEF size
<1>5. PICK o \in 0..(Length[d] - 1) :
        g = [of |-> d, offset |-> o,
             len |-> IF o + size < Length[d] THEN size ELSE Length[d] - o,
             mf |-> o + size < Length[d]]
  BY <1>2 DEF FragmentsOf, size
<1>6. g.of = d /\ g.offset = o BY <1>5
<1>7. g.len = IF o + size < Length[d] THEN size ELSE Length[d] - o BY <1>5
<1>8. g.mf \in BOOLEAN /\ (g.mf <=> (o + size < Length[d]))
  <2>1. g.mf = (o + size < Length[d]) BY <1>5
  <2>2. (o + size < Length[d]) \in BOOLEAN BY <1>4, <1>1
  <2>3. g.mf \in BOOLEAN BY <2>1, <2>2, Zenon
  <2>4. g.mf <=> (o + size < Length[d]) BY <2>1, Zenon
  <2> QED BY <2>3, <2>4
<1>9. CASE o + size < Length[d]
  <2>1. g.mf BY <1>8, <1>9
  <2>2. g.len \in Nat \ {0} /\ o + g.len < Length[d] BY <1>9, <1>7, <1>4, <1>1
  <2>3. End(g) < Length[d] /\ End(g) <= Length[d] BY <2>2, <1>6, <1>1 DEF End
  <2>4. ~g.mf <=> End(g) = Length[d] BY <2>1, <2>3, <2>2, <1>6, <1>1 DEF End
  <2> QED BY <2>2, <2>3, <2>4, <1>8, <1>6, <1>1 DEF WellCut
<1>10. CASE ~(o + size < Length[d])
  <2>1. ~g.mf BY <1>8, <1>10
  <2>2. g.len \in Nat \ {0} /\ o + g.len = Length[d] BY <1>10, <1>7, <1>4, <1>1
  <2>3. End(g) = Length[d] /\ End(g) <= Length[d] BY <2>2, <1>6, <1>1 DEF End
  <2>4. ~g.mf <=> End(g) = Length[d] BY <2>1, <2>3, <2>2, <1>6, <1>1 DEF End
  <2> QED BY <2>2, <2>3, <2>4, <1>8, <1>6, <1>1 DEF WellCut
<1> QED BY <1>9, <1>10
----------------------------------------------------------------------------
(* One flow.                                                               *)

\* An open flow keeps disjoint pieces of the one datagram whose header it
\* has, and the last piece is there exactly when the mark says so.
Pieces(flow) ==
    /\ flow.header.of \in Datagram
    /\ \A c \in flow.chunks :
         /\ c \in ChunkType
         /\ c.of = flow.header.of
         /\ End(c) <= Length[c.of]
    /\ flow.last <=> \E c \in flow.chunks : End(c) = Length[c.of]
    /\ \A c, d \in flow.chunks : c # d => End(c) <= d.offset \/ End(d) <= c.offset

\* The completeness test of add_fragment accepts no datagram with a hole.
LEMMA CompleteIsWhole ==
    ASSUME NEW flow, Pieces(flow), Complete(flow)
    PROVE  Joined(flow.chunks) = Whole(flow.header.of)
<1> DEFINE d == flow.header.of
<1>1. d \in Datagram /\ Length[d] \in Nat \ {0} BY FragAssumption DEF Pieces
<1>2. \A c \in flow.chunks : /\ c.offset \in Nat /\ c.len \in Nat \ {0} /\ c.of = d
                             /\ End(c) = c.offset + c.len /\ End(c) <= Length[d]
  BY DEF Pieces, ChunkType, End
<1>3. ASSUME NEW m \in 0..(Length[d] - 1)
      PROVE  \E p \in flow.chunks : p.offset <= m /\ m < End(p)
  <2>1. SUFFICES ASSUME \A p \in flow.chunks : ~(p.offset <= m /\ m < End(p)) PROVE FALSE
    OBVIOUS
  <2>2. PICK e \in flow.chunks : End(e) = Length[d]
    BY <1>2 DEF Pieces, Complete
  <2> DEFINE T == {c.offset : c \in {c \in flow.chunks : c.offset > m}}
  <2>3. e.offset \in T BY <2>1, <2>2, <1>1, <1>2, <1>3
  <2>4. T \subseteq Nat BY <1>2
  <2>5. PICK t \in T : \A y \in T : t <= y BY <2>3, <2>4, LeastElement, Zenon
  <2>6. PICK c \in flow.chunks : c.offset = t /\ c.offset > m BY <2>5
  <2>7. PICK p \in flow.chunks : p.offset < c.offset /\ c.offset <= End(p)
    BY <2>6, <1>1, <1>3, <1>2 DEF Complete
  <2>8. p.offset <= m
    <3>1. SUFFICES ASSUME p.offset > m PROVE FALSE BY <1>2, <1>1, <1>3
    <3>2. p.offset \in T BY <3>1
    <3>3. t <= p.offset BY <3>2, <2>5
    <3> QED BY <3>3, <2>7, <2>6, <1>2
  <2> QED BY <2>8, <2>7, <2>6, <2>1, <1>2, <1>1, <1>3
<1>4. \A i : <<d, i>> \in Whole(d) => <<d, i>> \in Joined(flow.chunks)
  BY <1>3, <1>2, <1>1 DEF Whole, Joined
<1>5. ASSUME NEW b \in Joined(flow.chunks) PROVE b \in Whole(d)
  <2>1. PICK c \in flow.chunks : b \in {<<c.of, i>> : i \in c.offset..(End(c) - 1)}
    BY <1>5 DEF Joined
  <2>2. PICK i \in c.offset..(End(c) - 1) : b = <<d, i>> BY <2>1, <1>2
  <2>3. i \in 0..(Length[d] - 1) BY <2>2, <1>2, <1>1
  <2> QED BY <2>2, <2>3 DEF Whole
<1>6. \A b \in Whole(d) : b \in Joined(flow.chunks) BY <1>4 DEF Whole
<1> QED BY <1>5, <1>6, Zenon

\* And it refuses none without one.
LEMMA WholeIsComplete ==
    ASSUME NEW flow, Pieces(flow), Joined(flow.chunks) = Whole(flow.header.of)
    PROVE  Complete(flow)
<1> DEFINE d == flow.header.of
<1>1. d \in Datagram /\ Length[d] \in Nat \ {0} BY FragAssumption DEF Pieces
<1>2. \A c \in flow.chunks : /\ c.offset \in Nat /\ c.len \in Nat \ {0} /\ c.of = d
                             /\ End(c) = c.offset + c.len /\ End(c) <= Length[d]
  BY DEF Pieces, ChunkType, End
<1>3. ASSUME NEW m \in 0..(Length[d] - 1)
      PROVE  \E p \in flow.chunks : p.offset <= m /\ m < End(p)
  <2>1. <<d, m>> \in Joined(flow.chunks) BY <1>3 DEF Whole
  <2>2. PICK p \in flow.chunks : <<d, m>> \in {<<p.of, i>> : i \in p.offset..(End(p) - 1)}
    BY <2>1 DEF Joined
  <2>3. m \in p.offset..(End(p) - 1) BY <2>2
  <2> QED BY <2>3, <1>2
<1>4. flow.last
  <2>1. Length[d] - 1 \in 0..(Length[d] - 1) BY <1>1
  <2>2. PICK p \in flow.chunks : p.offset <= Length[d] - 1 /\ Length[d] - 1 < End(p)
    BY <2>1, <1>3
  <2>3. End(p) = Length[p.of] BY <2>2, <1>1, <1>2
  <2> QED BY <2>3 DEF Pieces
<1>5. ASSUME NEW c \in flow.chunks, c.offset # 0
      PROVE  \E p \in flow.chunks :
              /\ p.offset < c.offset /\ c.offset <= End(p)
              /\ \A q \in flow.chunks : q.offset <= p.offset \/ c.offset <= q.offset
  <2>1. c.offset - 1 \in 0..(Length[d] - 1) BY <1>5, <1>1, <1>2
  <2>2. PICK p \in flow.chunks : p.offset <= c.offset - 1 /\ c.offset - 1 < End(p)
    BY <2>1, <1>3
  <2>3. p.offset < c.offset /\ c.offset <= End(p) BY <2>2, <1>2
  <2>4. End(p) <= c.offset
    BY <2>3, <1>2 DEF Pieces
  <2>5. ASSUME NEW q \in flow.chunks PROVE q.offset <= p.offset \/ c.offset <= q.offset
    <3>1. q = p \/ End(p) <= q.offset \/ End(q) <= p.offset BY DEF Pieces
    <3> QED BY <3>1, <2>3, <1>2
  <2> QED BY <2>3, <2>5
<1> QED BY <1>4, <1>5 DEF Complete

\* An open flow that holds pieces of the datagram d.
OpenFor(flow, d) ==
    flow \in FlowType /\ flow.status = "open" /\ Pieces(flow) /\ flow.header.of = d

\* Storing a fragment that overlaps nothing keeps a flow in order.
LEMMA InsertedPieces ==
    ASSUME NEW flow, NEW d \in Datagram, NEW g, NEW ecn \in Codepoint,
           WellCut(g, d), ~Overlaps(flow.chunks, g),
           flow = NoFlow \/ OpenFor(flow, d)
    PROVE  /\ OpenFor(Inserted(flow, g, ecn), d) /\ Inserted(flow, g, ecn).chunks # {}
           /\ Inserted(flow, g, ecn).age = flow.age
<1> DEFINE new == Inserted(flow, g, ecn)
           k == Chunk(g, ecn)
<1>1. k \in ChunkType /\ k.of = d /\ k.offset = g.offset /\ k.len = g.len
  BY DEF WellCut, Chunk, ChunkType
<1>2. End(k) = End(g) /\ End(k) <= Length[d] BY <1>1 DEF WellCut, End
<1>3. ~g.mf <=> End(k) = Length[k.of] BY <1>1, <1>2 DEF WellCut
<1>4. (~g.mf) \in BOOLEAN OBVIOUS
<1> HIDE DEF k
<1>5. CASE flow = NoFlow
  <2>1. new = [status |-> "open", age |-> 0, header |-> Header(g), last |-> ~g.mf,
               chunks |-> {k}]
    BY <1>5 DEF Inserted, NoFlow, k
  <2>2. /\ new.status = "open" /\ new.age = 0 /\ new.chunks = {k}
        /\ new.header = Header(g)
    BY <2>1
  <2>3. Header(g) \in [of : Datagram, offset : Nat] /\ Header(g).of = d
    BY DEF Header, WellCut
  <2>4. new.last \in BOOLEAN /\ (new.last <=> ~g.mf)
    <3>1. new.last = ~g.mf BY <2>1
    <3> QED BY <3>1, Zenon
  <2>5. new \in FlowType
    <3> HIDE DEF new
    <3>1. new.status \in {"open", "discarded"} /\ new.age \in 0..Timeout
      BY <2>2, FragAssumption
    <3>2. {k} \in SUBSET ChunkType BY <1>1
    <3> QED BY <2>1, <2>2, <2>3, <2>4, <3>1, <3>2 DEF FlowType
  <2>6. Pieces(new) BY <2>2, <2>3, <2>4, <1>1, <1>2, <1>3 DEF Pieces
  <2> QED BY <2>2, <2>3, <2>5, <2>6, <1>5 DEF NoFlow, OpenFor
<1>6. CASE flow # NoFlow
  <2>1. flow \in FlowType /\ flow.status = "open" /\ Pieces(flow) /\ flow.header.of = d
    BY <1>6 DEF OpenFor
  <2>2. new = [flow EXCEPT !.chunks = flow.chunks \cup {k}, !.last = flow.last \/ ~g.mf]
    BY <2>1 DEF Inserted, k
  <2>3. /\ new.status = "open" /\ new.age = flow.age /\ new.header = flow.header
        /\ new.chunks = flow.chunks \cup {k}
    BY <2>1, <2>2 DEF FlowType
  <2>4. new.last \in BOOLEAN /\ (new.last <=> (flow.last \/ ~g.mf))
    <3>1. new.last = (flow.last \/ ~g.mf) BY <2>1, <2>2 DEF FlowType
    <3> QED BY <3>1, Zenon
  <2>5. new \in FlowType
    <3>1. flow.chunks \cup {k} \in SUBSET ChunkType BY <2>1, <1>1 DEF FlowType
    <3>2. (flow.last \/ ~g.mf) \in BOOLEAN BY Zenon
    <3> QED BY <3>1, <3>2, <2>1, <2>2, Zenon DEF FlowType
  <2>6. \A c \in flow.chunks : c \in ChunkType /\ (End(c) <= k.offset \/ End(k) <= c.offset)
    <3>1. TAKE c \in flow.chunks
    <3>2. c \in ChunkType BY <2>1 DEF Pieces
    <3>3. ~(g.offset < End(c) /\ c.offset < End(g)) BY DEF Overlaps
    <3> QED BY <3>2, <3>3, <1>1, <1>2 DEF ChunkType, End, WellCut
  <2> HIDE DEF new
  <2>7. \A c \in new.chunks : c \in ChunkType /\ c.of = d /\ End(c) <= Length[c.of]
    BY <2>1, <2>3, <1>1, <1>2 DEF Pieces
  <2>8. new.last <=> \E c \in new.chunks : End(c) = Length[c.of]
    BY <2>1, <2>3, <2>4, <1>3 DEF Pieces
  <2>9. \A c, e \in new.chunks : c # e => End(c) <= e.offset \/ End(e) <= c.offset
    BY <2>1, <2>3, <2>6 DEF Pieces
  <2>10. Pieces(new) BY <2>7, <2>8, <2>9, <2>3, <2>1 DEF Pieces
  <2> QED BY <2>1, <2>3, <2>5, <2>10 DEF new, OpenFor
<1> QED BY <1>5, <1>6
----------------------------------------------------------------------------
(* The inductive invariant.                                                *)

\* The datagram of an open flow is the one the sender's fragments belong to,
\* unless the flow is about to expire: its age is never less than the time
\* the flow id has been quiet, and an identification is only reused after
\* that has reached the timeout.
Fresh(f) ==
    /\ quiet[f] <= flows[f].age
    /\ flows[f].header.of = datagram[f] \/ flows[f].age = Timeout

FlowInv(f) ==
    flows[f].status = "open" => Pieces(flows[f]) /\ ~Complete(flows[f]) /\ Fresh(f)

FragInv == TypeOK /\ (\A f \in FlowId : FlowInv(f)) /\ WholeOrNothing

\* What is known of one flow.
FlowTyped(flow) ==
    \/ flow = NoFlow
    \/ flow \in FlowType /\ (flow.status = "open" <=> flow.chunks # {})

LEMMA NoFlowFields == NoFlow.status = "none" /\ NoFlow.chunks = {}
BY DEF NoFlow

LEMMA BegunTyped == ASSUME NEW flow, FlowTyped(flow), flow.status # "none" PROVE flow \in FlowType
BY NoFlowFields DEF FlowTyped

LEMMA OutcomeFields == \A f, o : Outcome(f, o).flow = f /\ Outcome(f, o).outcome = o
BY DEF Outcome

LEMMA CompletedFlow == \A f, h, cs, m : Completed(f, h, cs, m).flow = f
BY DEF Completed

LEMMA TypeByFlow == TypeOK <=> /\ DOMAIN flows = FlowId
                               /\ \A f \in FlowId : FlowTyped(flows[f])
                               /\ datagram \in [FlowId -> Datagram]
                               /\ quiet \in [FlowId -> 0..Timeout]
BY DEF TypeOK, FlowTyped

\* The sweep keeps flows as they are or removes them, and keeps no old one.
LEMMA SweptFlow ==
    ASSUME TypeOK, NEW f \in FlowId
    PROVE  /\ Swept[f] = flows[f] \/ Swept[f] = NoFlow
           /\ FlowTyped(Swept[f])
           /\ Swept[f].age \in 0..Timeout /\ Swept[f].age < Timeout
           /\ flows[f].age < Timeout => Swept[f] = flows[f]
           /\ FlowInv(f) => \/ Swept[f].status # "open"
                            \/ /\ Swept[f] = flows[f] /\ Pieces(Swept[f]) /\ ~Complete(Swept[f])
                               /\ Fresh(f) /\ Swept[f].header.of = datagram[f]
<1>1. Swept[f] = IF flows[f].age < Timeout THEN flows[f] ELSE NoFlow BY DEF Swept
<1>2. FlowTyped(flows[f]) BY TypeByFlow
<1>3. FlowTyped(NoFlow) /\ NoFlow.age = 0 /\ NoFlow.status = "none" BY DEF FlowTyped, NoFlow
<1>4. Timeout \in Nat \ {0} BY FragAssumption
<1>5. flows[f].age \in 0..Timeout BY <1>2, <1>3, <1>4 DEF FlowTyped, FlowType
<1>6. CASE flows[f].age < Timeout
  <2>1. FlowInv(f) => flows[f].status # "open" \/ (Pieces(flows[f]) /\ ~Complete(flows[f]) /\ Fresh(f))
    BY DEF FlowInv
  <2>2. Fresh(f) => flows[f].header.of = datagram[f] BY <1>6, <1>5, <1>4 DEF Fresh
  <2> QED BY <1>1, <1>2, <1>5, <1>6, <2>1, <2>2
<1>7. CASE ~(flows[f].age < Timeout)
  BY <1>1, <1>3, <1>4, <1>7
<1> QED BY <1>6, <1>7

LEMMA InitInv == Init => FragInv
<1> SUFFICES ASSUME Init PROVE FragInv OBVIOUS
<1>1. Timeout \in Nat BY FragAssumption
<1>2. \A f \in FlowId : flows[f] = NoFlow BY DEF Init
<1>3. TypeOK BY <1>1, <1>2 DEF Init, TypeOK
<1>4. \A f \in FlowId : FlowInv(f) BY <1>2 DEF FlowInv, NoFlow
<1>5. WholeOrNothing BY DEF Init, WholeOrNothing, Nothing
<1> QED BY <1>3, <1>4, <1>5 DEF FragInv

\* A flow the step leaves to the sweep stays in order.
LEMMA SweptKept ==
    ASSUME FragInv, NEW h \in FlowId, flows'[h] = Swept[h],
           quiet'[h] \in {0, quiet[h]}, datagram'[h] = datagram[h]
    PROVE  FlowTyped(flows'[h]) /\ FlowInv(h)'
<1>1. TypeOK /\ FlowInv(h) BY DEF FragInv
<1>2. FlowTyped(flows'[h]) BY <1>1, SweptFlow
<1>3. quiet[h] \in 0..Timeout /\ Timeout \in Nat BY <1>1, FragAssumption DEF TypeOK
<1>4. ASSUME flows'[h].status = "open" PROVE FlowInv(h)'
  <2>1. /\ Swept[h] = flows[h] /\ Pieces(Swept[h]) /\ ~Complete(Swept[h])
        /\ Fresh(h) /\ Swept[h].header.of = datagram[h]
    BY <1>1, <1>4, SweptFlow
  <2>2. Swept[h].age \in 0..Timeout BY <1>1, SweptFlow
  <2>3. quiet'[h] <= flows'[h].age BY <2>1, <2>2, <1>3 DEF Fresh
  <2> QED BY <2>1, <2>3 DEF FlowInv, Fresh
<1>5. ASSUME flows'[h].status # "open" PROVE FlowInv(h)' BY <1>5 DEF FlowInv
<1> QED BY <1>2, <1>4, <1>5

\* The bookkeeping around an admission keeps its type.
LEMMA ArrivedTyped ==
    ASSUME TypeOK, NEW f \in FlowId, Arrived(f)
    PROVE  /\ datagram' \in [FlowId -> Datagram] /\ datagram' = datagram
           /\ quiet' \in [FlowId -> 0..Timeout] /\ quiet'[f] = 0
           /\ \A h \in FlowId : quiet'[h] \in {0, quiet[h]}
BY FragAssumption DEF TypeOK, Arrived

\* One lemma per way an admission ends.
LEMMA AddAtomicInv ==
    ASSUME FragInv, NEW f \in FlowId, NEW ecn \in Ecn,
           NEW g \in Fragments(datagram[f]), AddAtomic(f, g, ecn)
    PROVE  FragInv'
<1>1. TypeOK BY DEF FragInv
<1>2. Arrived(f) /\ flows' = flows BY DEF AddAtomic
<1>3. TypeOK' BY <1>1, <1>2, ArrivedTyped DEF TypeOK
<1>4. ASSUME NEW h \in FlowId PROVE FlowInv(h)'
  <2>1. FlowInv(h) BY DEF FragInv
  <2>2. quiet'[h] <= quiet[h]
    BY <1>1, <1>2, ArrivedTyped, FragAssumption, SMTT(30) DEF TypeOK
  <2>3. CASE flows[h].status = "open"
    <3>1. flows[h] = NoFlow \/ flows[h] \in FlowType BY <1>1, TypeByFlow DEF FlowTyped
    <3>2. flows[h].age \in Nat BY <3>1, <2>3, FragAssumption DEF NoFlow, FlowType
    <3>3. quiet[h] \in Nat /\ quiet'[h] \in Nat BY <1>1, <1>3 DEF TypeOK
    <3>4. Fresh(h)' BY <2>1, <2>2, <2>3, <1>2, <3>2, <3>3, ArrivedTyped, <1>1 DEF FlowInv, Fresh
    <3> QED BY <2>1, <2>3, <1>2, <3>4 DEF FlowInv
  <2> QED BY <2>3, <1>2 DEF FlowInv
<1>5. WholeOrNothing'
  <2> DEFINE d == datagram[f]
  <2>1. d \in Datagram /\ datagram' = datagram /\ Length[d] \in Nat
    BY <1>1, <1>2, ArrivedTyped, FragAssumption DEF TypeOK
  <2>2. WellCut(g, d) BY <2>1, FragmentsAreWellCut
  <2>3. g.of = d /\ g.offset = 0 /\ g.len = Length[d]
    BY <2>1, <2>2, SMTT(30) DEF AddAtomic, Atomic, WellCut, End
  <2>4. result' = Completed(f, Header(g), {Chunk(g, ecn)}, ecn) BY DEF AddAtomic
  <2>5. result'.flow = f /\ result'.header = Header(g) /\ result'.payload = Joined({Chunk(g, ecn)})
    BY <2>4 DEF Completed
  <2>6. Chunk(g, ecn).of = d /\ Chunk(g, ecn).offset = 0 /\ End(Chunk(g, ecn)) = Length[d]
    BY <2>3, <2>1, SMTT(30) DEF Chunk, End
  <2>7. Joined({Chunk(g, ecn)}) = {<<d, i>> : i \in 0..(Length[d] - 1)} BY <2>6, SMTT(30) DEF Joined
  <2>8. result'.payload = Whole(datagram'[result'.flow]) BY <2>1, <2>5, <2>7, Zenon DEF Whole
  <2>9. result'.header.of = datagram'[result'.flow] BY <2>1, <2>3, <2>5 DEF Header
  <2> QED BY <2>8, <2>9 DEF WholeOrNothing, Whole
<1> QED BY <1>3, <1>4, <1>5 DEF FragInv

LEMMA AddRefusedInv ==
    ASSUME FragInv, NEW f \in FlowId, NEW ecn, NEW g, AddRefused(f, g, ecn)
    PROVE  FragInv'
<1>1. TypeOK BY DEF FragInv
<1>2. Arrived(f) /\ flows' = Swept BY DEF AddRefused
<1>3. \A h \in FlowId : FlowTyped(flows'[h]) /\ FlowInv(h)'
  BY <1>1, <1>2, ArrivedTyped, SweptKept
<1>4. DOMAIN flows' = FlowId BY <1>2 DEF Swept
<1>5. TypeOK' BY <1>1, <1>2, <1>3, <1>4, ArrivedTyped DEF TypeOK, FlowTyped
<1>6. WholeOrNothing' BY DEF AddRefused, Outcome, WholeOrNothing
<1> QED BY <1>3, <1>5, <1>6 DEF FragInv

LEMMA HousekeepingInv == FragInv /\ Housekeeping => FragInv'
<1> SUFFICES ASSUME FragInv, Housekeeping PROVE FragInv' OBVIOUS
<1>1. TypeOK BY DEF FragInv
<1>2. flows' = Swept /\ datagram' = datagram /\ quiet' = quiet BY DEF Housekeeping
<1>3. \A h \in FlowId : FlowTyped(flows'[h]) /\ FlowInv(h)' BY <1>1, <1>2, SweptKept
<1>4. DOMAIN flows' = FlowId BY <1>2 DEF Swept
<1>5. TypeOK' BY <1>1, <1>2, <1>3, <1>4 DEF TypeOK, FlowTyped
<1>6. WholeOrNothing' BY DEF Housekeeping, Nothing, WholeOrNothing
<1> QED BY <1>3, <1>5, <1>6 DEF FragInv

LEMMA AddOverlapInv ==
    ASSUME FragInv, NEW f \in FlowId, NEW ecn, NEW g, AddOverlap(f, g, ecn)
    PROVE  FragInv'
<1>1. TypeOK BY DEF FragInv
<1>2. Arrived(f) /\ flows' = [Swept EXCEPT ![f] = MarkDiscarded(Swept[f])] BY DEF AddOverlap
<1>3. DOMAIN Swept = FlowId BY DEF Swept
<1>4. \A h \in FlowId \ {f} : FlowTyped(flows'[h]) /\ FlowInv(h)'
  <2>1. \A h \in FlowId \ {f} : flows'[h] = Swept[h] BY <1>2, <1>3
  <2> QED BY <2>1, <1>1, <1>2, ArrivedTyped, SweptKept
<1>5. flows'[f] = MarkDiscarded(Swept[f]) BY <1>2, <1>3
<1>6. Swept[f].chunks # {} BY DEF AddOverlap, Overlaps
<1>7. Swept[f] \in FlowType BY <1>1, <1>6, SweptFlow, SMTT(30) DEF FlowTyped, NoFlow
<1>8. /\ flows'[f] \in FlowType
      /\ flows'[f].status = "discarded" /\ flows'[f].chunks = {}
  BY <1>5, <1>7, Zenon DEF MarkDiscarded, FlowType
<1>9. FlowTyped(flows'[f]) /\ FlowInv(f)' BY <1>8 DEF FlowTyped, FlowInv
<1>10. \A h \in FlowId : FlowTyped(flows'[h]) /\ FlowInv(h)' BY <1>4, <1>9
<1>11. DOMAIN flows' = FlowId BY <1>2, <1>3
<1>12. TypeOK' BY <1>1, <1>2, <1>10, <1>11, ArrivedTyped DEF TypeOK, FlowTyped
<1>13. WholeOrNothing' BY DEF AddOverlap, Outcome, WholeOrNothing
<1> QED BY <1>10, <1>12, <1>13 DEF FragInv

LEMMA AddChunkInv ==
    ASSUME FragInv, NEW f \in FlowId, NEW ecn \in Ecn,
           NEW g \in Fragments(datagram[f]), AddChunk(f, g, ecn)
    PROVE  FragInv'
<1> DEFINE d == datagram[f]
           new == Inserted(Swept[f], g, ecn)
           mark == AggregateEcn({c.ecn : c \in new.chunks})
<1>1. TypeOK /\ FlowInv(f) BY DEF FragInv
<1>2. Arrived(f) BY DEF AddChunk
<1>3. DOMAIN Swept = FlowId BY DEF Swept
<1>4. d \in Datagram /\ datagram' = datagram BY <1>1, <1>2, ArrivedTyped DEF TypeOK
<1>5. WellCut(g, d) BY <1>4, FragmentsAreWellCut
<1>6. Swept[f] = NoFlow \/ OpenFor(Swept[f], d)
  <2>1. Swept[f].status # "discarded" BY DEF AddChunk, Refused
  <2>2. Swept[f] = NoFlow \/ Swept[f] \in FlowType BY <1>1, SweptFlow DEF FlowTyped
  <2>3. Swept[f] \in FlowType => Swept[f].status \in {"open", "discarded"} BY DEF FlowType
  <2> QED BY <2>1, <2>2, <2>3, <1>1, SweptFlow DEF OpenFor
<1>7. /\ new \in FlowType /\ new.status = "open" /\ new.chunks # {}
      /\ Pieces(new) /\ new.header.of = d /\ new.age = Swept[f].age
  <2>1. ~Overlaps(Swept[f].chunks, g) BY DEF AddChunk
  <2>2. ecn \in Codepoint BY FragAssumption
  <2>3. OpenFor(new, d) /\ new.chunks # {} /\ new.age = Swept[f].age
    BY <1>4, <1>5, <1>6, <2>1, <2>2, InsertedPieces, SMTT(30)
  <2> HIDE DEF new
  <2> QED BY <2>3 DEF OpenFor
<1> HIDE DEF new
<1>8. ASSUME NEW X, flows' = [Swept EXCEPT ![f] = X], FlowTyped(X), FlowInv(f)', WholeOrNothing'
      PROVE  FragInv'
  <2>1. \A h \in FlowId \ {f} : flows'[h] = Swept[h] BY <1>8, <1>3
  <2>2. \A h \in FlowId \ {f} : FlowTyped(flows'[h]) /\ FlowInv(h)'
    BY <2>1, <1>1, <1>2, ArrivedTyped, SweptKept
  <2>3. FlowTyped(flows'[f]) BY <1>8, <1>3
  <2>4. \A h \in FlowId : FlowTyped(flows'[h]) /\ FlowInv(h)' BY <1>8, <2>2, <2>3
  <2>5. DOMAIN flows' = FlowId BY <1>8, <1>3
  <2>6. TypeOK' BY <1>1, <1>2, <2>4, <2>5, ArrivedTyped DEF TypeOK, FlowTyped
  <2> QED BY <2>4, <2>6, <1>8 DEF FragInv
<1>9. FlowTyped(NoFlow) BY DEF FlowTyped
<1>10. CASE /\ ~Complete(new)
            /\ flows' = [Swept EXCEPT ![f] = new]
            /\ result' = Outcome(f, "pending")
  <2>1. FlowTyped(new) BY <1>7 DEF FlowTyped
  <2>2. flows'[f] = new BY <1>10, <1>3
  <2>3. quiet'[f] = 0 /\ new.age \in Nat
    BY <1>1, <1>2, <1>7, ArrivedTyped, FragAssumption DEF FlowType
  <2>4. Fresh(f)' BY <2>2, <2>3, <1>4, <1>7, SMTT(30) DEF Fresh
  <2>5. FlowInv(f)' BY <2>2, <2>4, <1>7, <1>10 DEF FlowInv
  <2>6. WholeOrNothing' BY <1>10 DEF Outcome, WholeOrNothing
  <2> QED BY <2>1, <2>5, <2>6, <1>8, <1>10, Zenon
<1>11. CASE /\ flows' = [Swept EXCEPT ![f] = NoFlow]
            /\ result' = Outcome(f, "ecn_mixed_drop")
  <2>1. flows'[f] = NoFlow BY <1>11, <1>3
  <2>2. FlowInv(f)' BY <2>1, NoFlowFields DEF FlowInv
  <2>3. WholeOrNothing' BY <1>11 DEF Outcome, WholeOrNothing
  <2> QED BY <2>2, <2>3, <1>8, <1>9, <1>11, Zenon
<1>12. CASE /\ Complete(new)
            /\ flows' = [Swept EXCEPT ![f] = NoFlow]
            /\ result' = Completed(f, new.header, new.chunks, mark)
  <2>1. flows'[f] = NoFlow BY <1>12, <1>3
  <2>2. FlowInv(f)' BY <2>1, NoFlowFields DEF FlowInv
  <2>3. Joined(new.chunks) = Whole(d) BY <1>7, <1>12, CompleteIsWhole
  <2>4. result'.flow = f /\ result'.header = new.header /\ result'.payload = Joined(new.chunks)
    BY <1>12 DEF Completed
  <2>5. WholeOrNothing' BY <2>3, <2>4, <1>4, <1>7 DEF WholeOrNothing, Whole
  <2> QED BY <2>2, <2>5, <1>8, <1>9, <1>12, Zenon
<1> QED BY <1>10, <1>11, <1>12 DEF AddChunk, new

LEMMA TickInv == FragInv /\ Tick => FragInv'
<1> SUFFICES ASSUME FragInv, Tick PROVE FragInv' OBVIOUS
<1>1. TypeOK /\ Timeout \in Nat \ {0} BY FragAssumption DEF FragInv
<1>2. datagram' = datagram /\ DOMAIN flows' = FlowId BY DEF Tick
<1>3. \A n \in 0..Timeout : Older(n) \in 0..Timeout /\ n <= Older(n) BY <1>1 DEF Older
<1>4. quiet' \in [FlowId -> 0..Timeout] BY <1>1, <1>3 DEF Tick, TypeOK
<1>5. ASSUME NEW h \in FlowId PROVE FlowTyped(flows'[h]) /\ FlowInv(h)'
  <2>1. FlowTyped(flows[h]) /\ FlowInv(h) BY <1>1, TypeByFlow DEF FragInv
  <2>2. CASE flows[h].status = "none"
    <3>1. flows'[h] = NoFlow BY <2>2 DEF Tick
    <3> QED BY <3>1 DEF FlowTyped, FlowInv, NoFlow
  <2>3. CASE flows[h].status # "none"
    <3>1. flows[h] \in FlowType BY <2>1, <2>3 DEF FlowTyped, NoFlow
    <3>2. flows'[h] = [flows[h] EXCEPT !.age = Older(flows[h].age)] BY <2>3 DEF Tick
    <3>3. /\ flows'[h] \in FlowType /\ flows'[h].status = flows[h].status
          /\ flows'[h].chunks = flows[h].chunks /\ flows'[h].header = flows[h].header
          /\ flows'[h].age = Older(flows[h].age)
      BY <3>1, <3>2, <1>3 DEF FlowType
    <3>4. flows'[h].last = flows[h].last BY <3>1, <3>2 DEF FlowType
    <3>5. FlowTyped(flows'[h])
      <4>1. flows[h].status = "open" <=> flows[h].chunks # {} BY <2>1, <2>3, NoFlowFields DEF FlowTyped
      <4> QED BY <4>1, <3>3 DEF FlowTyped
    <3>6. CASE flows[h].status = "open"
      <4>1. Pieces(flows[h]) /\ ~Complete(flows[h]) /\ Fresh(h) BY <3>6, <2>1 DEF FlowInv
      <4>2. Pieces(flows'[h]) /\ ~Complete(flows'[h]) BY <4>1, <3>3, <3>4 DEF Pieces, Complete
      <4>3. quiet[h] \in 0..Timeout /\ flows[h].age \in 0..Timeout
        BY <1>1, <3>1 DEF TypeOK, FlowType
      <4>4. quiet'[h] = Older(quiet[h]) BY DEF Tick
      <4>5. Fresh(h)'
        <5>1. /\ quiet[h] <= flows[h].age
              /\ flows[h].header.of = datagram[h] \/ flows[h].age = Timeout
          BY <4>1 DEF Fresh
        <5>2. Older(quiet[h]) <= Older(flows[h].age) BY <5>1, <4>3, <1>1 DEF Older
        <5>3. flows[h].age = Timeout => Older(flows[h].age) = Timeout BY <1>1 DEF Older
        <5> QED BY <5>1, <5>2, <5>3, <4>4, <3>3, <1>2 DEF Fresh
      <4> QED BY <4>2, <4>5, <3>5 DEF FlowInv
    <3>7. CASE flows[h].status # "open" BY <3>7, <3>3, <3>5 DEF FlowInv
    <3> QED BY <3>6, <3>7
  <2> QED BY <2>2, <2>3
<1>6. TypeOK' BY <1>1, <1>2, <1>4, <1>5 DEF TypeOK, FlowTyped
<1>7. WholeOrNothing' BY DEF Tick, Nothing, WholeOrNothing
<1> QED BY <1>5, <1>6, <1>7 DEF FragInv

LEMMA NextDatagramInv ==
    ASSUME FragInv, NEW f \in FlowId, NextDatagram(f)
    PROVE  FragInv'
<1>1. TypeOK /\ Timeout \in Nat \ {0} BY FragAssumption DEF FragInv
<1>2. flows' = flows /\ quiet' = quiet BY DEF NextDatagram
<1>3. PICK d \in Datagram : datagram' = [datagram EXCEPT ![f] = d] BY Zenon DEF NextDatagram
<1>4. TypeOK' BY <1>1, <1>2, <1>3 DEF TypeOK
<1>5. ASSUME NEW h \in FlowId PROVE FlowInv(h)'
  <2>1. FlowInv(h) BY DEF FragInv
  <2>2. CASE h # f
    <3>1. datagram'[h] = datagram[h] BY <2>2, <1>1, <1>3 DEF TypeOK
    <3> QED BY <3>1, <2>1, <1>2 DEF FlowInv, Fresh
  <2>3. CASE h = f /\ flows[h].status = "open"
    <3>1. flows[h] \in FlowType BY <2>3, <1>1, TypeByFlow, BegunTyped
    <3>2. flows[h].age = Timeout
      <4>1. flows[h].age \in 0..Timeout /\ quiet[h] \in 0..Timeout
        BY <3>1, <1>1 DEF FlowType, TypeOK
      <4>2. quiet[h] <= flows[h].age BY <2>1, <2>3 DEF FlowInv, Fresh
      <4>3. quiet[h] >= Timeout BY <2>3 DEF NextDatagram
      <4> QED BY <4>1, <4>2, <4>3, <1>1
    <3> QED BY <3>2, <2>1, <1>2 DEF FlowInv, Fresh
  <2>4. CASE flows[h].status # "open" BY <2>4, <1>2 DEF FlowInv
  <2> QED BY <2>2, <2>3, <2>4
<1>6. WholeOrNothing' BY DEF NextDatagram, Nothing, WholeOrNothing
<1> QED BY <1>4, <1>5, <1>6 DEF FragInv

LEMMA StepInv == FragInv /\ [Next]_vars => FragInv'
<1> SUFFICES ASSUME FragInv, [Next]_vars PROVE FragInv' OBVIOUS
<1>1. ASSUME NEW f \in FlowId, NEW ecn \in Ecn, NEW g \in Fragments(datagram[f]),
             AddFragment(f, g, ecn)
      PROVE  FragInv'
  BY <1>1, AddAtomicInv, AddRefusedInv, AddOverlapInv, AddChunkInv DEF AddFragment
<1>2. CASE UNCHANGED vars
  <2>1. UNCHANGED <<flows, result, datagram, quiet>> BY <1>2 DEF vars
  <2>2. TypeOK' BY <2>1 DEF FragInv, TypeOK
  <2>3. \A f \in FlowId : FlowInv(f)' BY <2>1 DEF FragInv, FlowInv, Fresh
  <2>4. WholeOrNothing' BY <2>1 DEF FragInv, WholeOrNothing
  <2> QED BY <2>2, <2>3, <2>4 DEF FragInv
<1> QED BY <1>1, <1>2, HousekeepingInv, TickInv, NextDatagramInv DEF Next
----------------------------------------------------------------------------
(* The theorems.                                                           *)

\* The type invariant of the reassembly table.
THEOREM TypeCorrect == Spec => []TypeOK
<1>1. FragInv => TypeOK BY DEF FragInv
<1> QED BY InitInv, StepInv, <1>1, PTL DEF Spec

\* Whatever add_fragment hands up is one whole datagram, the sender's present
\* one, for any way of cutting it, any loss, repetition and order, any number
\* of flow ids and any cap, as long as an identification is not reused within
\* the timeout.
THEOREM DeliveredWhole == Spec => []WholeOrNothing
<1>1. FragInv => WholeOrNothing BY DEF FragInv
<1> QED BY InitInv, StepInv, <1>1, PTL DEF Spec

\* The chunks stored for a flow never overlap.
THEOREM StoredDisjoint == Spec => []ChunksDisjoint
<1>1. FragInv => ChunksDisjoint
  <2> SUFFICES ASSUME FragInv, NEW f \in FlowId PROVE
        \A c, d \in flows[f].chunks : c # d => End(c) <= d.offset \/ End(d) <= c.offset
    BY DEF ChunksDisjoint
  <2>1. FlowTyped(flows[f]) BY TypeByFlow DEF FragInv
  <2>2. CASE flows[f].status = "open" BY <2>2 DEF FragInv, FlowInv, Pieces
  <2>3. CASE flows[f].status # "open"
    <3>1. flows[f].chunks = {} BY <2>1, <2>3 DEF FlowTyped, NoFlow
    <3> QED BY <3>1
  <2> QED BY <2>2, <2>3
<1> QED BY InitInv, StepInv, <1>1, PTL DEF Spec

\* A flow that has every byte of its datagram is delivered by the fragment
\* that brought the last one; none waits in the table for its timeout.
THEOREM WholeIsDelivered == Spec => []NothingWholeIsKept
<1>1. FragInv => NothingWholeIsKept
  BY WholeIsComplete DEF FragInv, FlowInv, NothingWholeIsKept
<1> QED BY InitInv, StepInv, <1>1, PTL DEF Spec

-----------------------------------------------------------------------------
(* Admission and loss.                                                     *)

LEMMA FewerFlows ==
    ASSUME NEW S, NEW T, T \subseteq FlowId, S \subseteq T
    PROVE  IsFiniteSet(S) /\ Cardinality(S) <= Cardinality(T) /\ Cardinality(T) \in Nat
           /\ Cardinality(S) \in Nat
<1>1. IsFiniteSet(T) BY FragAssumption, FS_Subset
<1>2. IsFiniteSet(S) /\ Cardinality(S) <= Cardinality(T) BY <1>1, FS_Subset
<1> QED BY <1>1, <1>2, FS_CardinalityType

LEMMA CapStep ==
    ASSUME TypeOK, WithinMaxFlows, [Next]_vars
    PROVE  WithinMaxFlows'
<1>1. MaxFlows \in Nat BY FragAssumption
<1>2. ASSUME NEW fs, Begun(fs) \subseteq Begun(flows) PROVE Cardinality(Begun(fs)) <= MaxFlows
  BY <1>1, <1>2, FewerFlows DEF WithinMaxFlows, Begun
<1>3. Begun(Swept) \subseteq Begun(flows) BY DEF Begun, Swept, NoFlow
<1>4. ASSUME NEW f \in FlowId, NEW X, ~Refused(Swept, f), flows' = [Swept EXCEPT ![f] = X]
      PROVE  WithinMaxFlows'
  <2>1. Begun(flows') \subseteq Begun(Swept) \cup {f} BY <1>4 DEF Begun, Swept
  <2>2. CASE f \in Begun(Swept)
    <3>1. Begun(flows') \subseteq Begun(flows) BY <2>1, <2>2, <1>3
    <3> QED BY <3>1, <1>2 DEF WithinMaxFlows
  <2>3. CASE f \notin Begun(Swept)
    <3> DEFINE B == Begun(Swept)
    <3>1. IsFiniteSet(B) /\ Cardinality(B) \in Nat BY FewerFlows DEF Begun
    <3>2. Cardinality(B) < MaxFlows BY <1>1, <1>4, <2>3, <3>1 DEF Refused, Begun
    <3> HIDE DEF B
    <3>3. Cardinality(B \cup {f}) = Cardinality(B) + 1 BY <3>1, <2>3, FS_AddElement, Zenon DEF B
    <3>4. B \cup {f} \subseteq FlowId BY DEF B, Begun
    <3>5. /\ Cardinality(Begun(flows')) <= Cardinality(B \cup {f})
          /\ Cardinality(Begun(flows')) \in Nat
      BY <3>4, <2>1, FewerFlows DEF B
    <3> QED BY <3>1, <3>2, <3>3, <3>5, <1>1 DEF WithinMaxFlows
  <2> QED BY <2>2, <2>3
<1>5. ASSUME NEW f \in FlowId, NEW ecn \in Ecn, NEW g \in Fragments(datagram[f]),
             AddFragment(f, g, ecn)
      PROVE  WithinMaxFlows'
  <2>1. CASE AddAtomic(f, g, ecn) BY <2>1 DEF AddAtomic, WithinMaxFlows
  <2>2. CASE AddRefused(f, g, ecn) BY <2>2, <1>2, <1>3 DEF AddRefused, WithinMaxFlows
  <2>3. CASE AddOverlap(f, g, ecn) BY <2>3, <1>4, Zenon DEF AddOverlap
  <2>4. CASE AddChunk(f, g, ecn) BY <2>4, <1>4 DEF AddChunk
  <2> QED BY <1>5, <2>1, <2>2, <2>3, <2>4 DEF AddFragment
<1>6. CASE Housekeeping BY <1>6, <1>2, <1>3 DEF Housekeeping, WithinMaxFlows
<1>7. CASE Tick
  <2>1. Begun(flows') \subseteq Begun(flows) BY <1>7 DEF Tick, Begun, NoFlow
  <2> QED BY <2>1, <1>2 DEF WithinMaxFlows
<1>8. ASSUME NEW f \in FlowId, NextDatagram(f) PROVE WithinMaxFlows'
  BY <1>8 DEF NextDatagram, WithinMaxFlows
<1>9. CASE UNCHANGED vars BY <1>9 DEF vars, WithinMaxFlows
<1> QED BY <1>5, <1>6, <1>7, <1>8, <1>9 DEF Next

\* The table never holds more flows than its cap, whatever arrives.
THEOREM CapHolds == Spec => []WithinMaxFlows
<1>1. Init => WithinMaxFlows
  <2> SUFFICES ASSUME Init PROVE WithinMaxFlows OBVIOUS
  <2>1. Begun(flows) = {} BY DEF Init, Begun, NoFlow
  <2> QED BY <2>1, FS_EmptySet, FragAssumption DEF WithinMaxFlows
<1> QED BY TypeCorrect, CapStep, <1>1, PTL DEF Spec

LEMMA DiscardedStep ==
    ASSUME TypeOK, [Next]_vars, NEW f \in FlowId,
           flows[f].status = "discarded", flows[f].age < Timeout
    PROVE  /\ flows'[f].status = "discarded"
           /\ result'.outcome = "complete" /\ result'.flow = f => flows' = flows
<1>1. Swept[f] = flows[f] /\ DOMAIN Swept = FlowId BY DEF Swept
<1>2. ASSUME NEW h \in FlowId, NEW ecn \in Ecn, NEW g \in Fragments(datagram[h]),
             AddFragment(h, g, ecn)
      PROVE  /\ flows'[f].status = "discarded"
             /\ result'.outcome = "complete" /\ result'.flow = f => flows' = flows
  <2>1. CASE AddAtomic(h, g, ecn) BY <2>1 DEF AddAtomic
  <2>2. CASE AddRefused(h, g, ecn) BY <2>2, <1>1 DEF AddRefused, Outcome
  <2>3. CASE AddOverlap(h, g, ecn)
    <3>1. h # f BY <2>3, <1>1 DEF AddOverlap, Refused
    <3> QED BY <3>1, <2>3, <1>1 DEF AddOverlap, Outcome
  <2>4. CASE AddChunk(h, g, ecn)
    <3>1. h # f BY <2>4, <1>1 DEF AddChunk, Refused
    <3>2. flows'[f] = flows[f] BY <3>1, <2>4, <1>1 DEF AddChunk
    <3>3. result'.flow = h
      <4> DEFINE new == Inserted(Swept[h], g, ecn)
                 mark == AggregateEcn({c.ecn : c \in new.chunks})
      <4>1. \/ result' = Outcome(h, "pending") \/ result' = Outcome(h, "ecn_mixed_drop")
            \/ result' = Completed(h, new.header, new.chunks, mark)
        BY <2>4 DEF AddChunk
      <4> HIDE DEF new, mark
      <4> QED BY <4>1, OutcomeFields, CompletedFlow
    <3> QED BY <3>1, <3>2, <3>3
  <2> QED BY <1>2, <2>1, <2>2, <2>3, <2>4 DEF AddFragment
<1>3. CASE Housekeeping BY <1>3, <1>1 DEF Housekeeping, Nothing
<1>4. CASE Tick
  <2>1. flows[f] \in FlowType BY TypeByFlow, BegunTyped
  <2>2. flows'[f] = [flows[f] EXCEPT !.age = Older(flows[f].age)] BY <1>4 DEF Tick
  <2> QED BY <2>1, <2>2, <1>4 DEF Tick, Nothing, FlowType
<1>5. ASSUME NEW h \in FlowId, NextDatagram(h)
      PROVE  flows'[f].status = "discarded" /\ flows' = flows
  BY <1>5 DEF NextDatagram
<1>6. CASE UNCHANGED vars BY <1>6 DEF vars
<1> QED BY <1>2, <1>3, <1>4, <1>5, <1>6 DEF Next

\* After an overlap nothing of the flow is delivered and the mark is kept
\* until the flow has expired.
THEOREM DiscardHolds == Spec => DiscardedStays
<1>1. TypeOK /\ [Next]_vars =>
        [\A f \in FlowId :
            flows[f].status = "discarded" /\ flows[f].age < Timeout =>
                /\ flows'[f].status = "discarded"
                /\ result'.outcome = "complete" /\ result'.flow = f => flows' = flows]_vars
  BY DiscardedStep DEF vars
<1> QED BY TypeCorrect, <1>1, PTL DEF Spec, DiscardedStays

LEMMA AggregateMarks ==
    ASSUME NEW seen, seen \subseteq Codepoint, seen # {}, AggregateEcn(seen) # "drop"
    PROVE  /\ AggregateEcn(seen) \in seen
           /\ "Ce" \in seen => AggregateEcn(seen) = "Ce"
           /\ "NotEct" \in seen => seen = {"NotEct"}
<1>1. \A e : IsFiniteSet({e}) /\ Cardinality({e}) = 1 BY FS_Singleton, Zenon
<1>2. CASE \E e : seen = {e}
  <2>1. PICK e : seen = {e} BY <1>2
  <2>2. AggregateEcn(seen) = e BY <2>1, <1>1 DEF AggregateEcn
  <2> QED BY <2>1, <2>2
<1>3. CASE ~\E e : seen = {e}
  <2>1. IsFiniteSet(Codepoint)
    <3>1. IsFiniteSet({"NotEct"}) BY <1>1
    <3>2. IsFiniteSet({"NotEct", "Ect0"}) BY <3>1, FS_AddElement
    <3>3. IsFiniteSet({"NotEct", "Ect0", "Ect1"}) BY <3>2, FS_AddElement
    <3> QED BY <3>3, FS_AddElement DEF Codepoint
  <2>2. IsFiniteSet(seen) BY <2>1, FS_Subset
  <2>3. Cardinality(seen) # 1 BY <2>2, <1>3, FS_Singleton
  <2>4. "NotEct" \notin seen BY <2>3 DEF AggregateEcn
  <2>5. AggregateEcn(seen) = IF "Ce" \in seen THEN "Ce" ELSE "Ect0"
    BY <2>3, <2>4 DEF AggregateEcn
  <2>6. "Ce" \notin seen => "Ect0" \in seen
    <3>1. SUFFICES ASSUME "Ce" \notin seen, "Ect0" \notin seen PROVE seen = {"Ect1"} BY <1>3
    <3> QED BY <3>1, <2>4, Zenon DEF Codepoint
  <2> QED BY <2>4, <2>5, <2>6
<1> QED BY <1>2, <1>3

LEMMA MarksStep ==
    ASSUME FragInv, MarksSurvive, [Next]_vars
    PROVE  MarksSurvive'
<1>1. ASSUME NEW f \in FlowId, NEW ecn \in Ecn, NEW g \in Fragments(datagram[f]),
             AddFragment(f, g, ecn)
      PROVE  MarksSurvive'
  <2>1. CASE AddAtomic(f, g, ecn)
    <3>1. {c.ecn : c \in {Chunk(g, ecn)}} = {ecn} BY DEF Chunk
    <3> QED BY <3>1, <2>1 DEF AddAtomic, Completed, MarksSurvive
  <2>2. CASE AddRefused(f, g, ecn) BY <2>2 DEF AddRefused, Outcome, MarksSurvive
  <2>3. CASE AddOverlap(f, g, ecn) BY <2>3 DEF AddOverlap, Outcome, MarksSurvive
  <2>4. CASE AddChunk(f, g, ecn)
    <3> DEFINE new == Inserted(Swept[f], g, ecn)
               seen == {c.ecn : c \in new.chunks}
    <3>1. Swept[f] = NoFlow \/ Swept[f] \in FlowType BY SweptFlow DEF FragInv, FlowTyped
    <3>2. Swept[f].chunks \in SUBSET ChunkType
      <4>1. CASE Swept[f] = NoFlow BY <4>1, NoFlowFields
      <4>2. CASE Swept[f] \in FlowType BY <4>2 DEF FlowType
      <4> QED BY <3>1, <4>1, <4>2
    <3>3. new.chunks = Swept[f].chunks \cup {Chunk(g, ecn)}
      BY <3>1 DEF Inserted, NoFlow, FlowType
    <3>4. Chunk(g, ecn).ecn \in Codepoint BY FragAssumption DEF Chunk
    <3> HIDE DEF new
    <3>5. \A c \in new.chunks : c.ecn \in Codepoint BY <3>2, <3>3, <3>4 DEF ChunkType
    <3>6. seen \subseteq Codepoint /\ seen # {} BY <3>3, <3>5
    <3> HIDE DEF seen
    <3>7. CASE result'.outcome # "complete" BY <3>7 DEF MarksSurvive
    <3>8. CASE /\ AggregateEcn(seen) # "drop"
               /\ result' = Completed(f, new.header, new.chunks, AggregateEcn(seen))
      <4>1. result'.ecn = AggregateEcn(seen) /\ result'.marks = seen
        BY <3>8 DEF Completed, seen
      <4> QED BY <4>1, <3>6, <3>8, AggregateMarks DEF MarksSurvive
    <3>9. \/ result' = Outcome(f, "pending") \/ result' = Outcome(f, "ecn_mixed_drop")
          \/ /\ AggregateEcn(seen) # "drop"
             /\ result' = Completed(f, new.header, new.chunks, AggregateEcn(seen))
      BY <2>4 DEF AddChunk, new, seen
    <3>10. "pending" # "complete" /\ "ecn_mixed_drop" # "complete" OBVIOUS
    <3> QED BY <3>7, <3>8, <3>9, <3>10, OutcomeFields
  <2> QED BY <1>1, <2>1, <2>2, <2>3, <2>4 DEF AddFragment
<1>2. CASE Housekeeping BY <1>2 DEF Housekeeping, Nothing, MarksSurvive
<1>3. CASE Tick BY <1>3 DEF Tick, Nothing, MarksSurvive
<1>4. ASSUME NEW f \in FlowId, NextDatagram(f) PROVE MarksSurvive'
  BY <1>4 DEF NextDatagram, Nothing, MarksSurvive
<1>5. CASE UNCHANGED vars BY <1>5 DEF vars, MarksSurvive
<1> QED BY <1>1, <1>2, <1>3, <1>4, <1>5 DEF Next

\* The codepoint of a delivered datagram is that of a fragment, keeps any
\* congestion mark, and never hides a disagreement about Not-ECT.
THEOREM MarksKept == Spec => []MarksSurvive
<1>1. Init => MarksSurvive BY DEF Init, Nothing, MarksSurvive
<1>2. FragInv /\ MarksSurvive /\ [Next]_vars => FragInv' /\ MarksSurvive'
  BY StepInv, MarksStep
<1> QED BY InitInv, <1>1, <1>2, PTL DEF Spec
============================================================================
