------------------------------ MODULE TcpProofs ------------------------------
(***************************************************************************)
(* What is proved of TCP: the order on sequence numbers, for every         *)
(* modulus; and SearchBracket of the path MTU search, for every interface, *)
(* peer, path and stream.  The engine's bounds are its own invariant,      *)
(* Bracketed: each operation keeps it, given that the sizes it is told of  *)
(* fit the interface and the peer.  The session keeps that condition,      *)
(* because it sends nothing larger and a router reports only what was too  *)
(* large for the next hop.                                                 *)
(***************************************************************************)
EXTENDS TcpSeq, TcpPmtu, FiniteSetTheorems, TLAPS

-----------------------------------------------------------------------------
(* Sequence numbers.                                                       *)

\* The results of the arithmetic are sequence numbers again.
LEMMA WrapType ==
    ASSUME NEW i \in Int, -Modulus <= i, i < 2 * Modulus
    PROVE  Wrap(i) \in Seq32
BY HalfAssumption DEF Wrap, Seq32, Modulus

LEMMA AheadType ==
    ASSUME NEW a \in Seq32, NEW b \in Seq32
    PROVE  Ahead(a, b) \in Seq32
BY HalfAssumption DEF Ahead, Wrap, Seq32, Modulus

\* Of two sequence numbers exactly one of "before", "equal" and "after" holds,
\* and le32 is lt32 or equality, whatever the distance between them.
THEOREM OrderTrichotomy ==
    ASSUME NEW a \in Seq32, NEW b \in Seq32
    PROVE  /\ lt32(a, b) => ~lt32(b, a) /\ a # b
           /\ lt32(a, b) \/ a = b \/ lt32(b, a)
           /\ le32(a, b) <=> lt32(a, b) \/ a = b
BY HalfAssumption DEF lt32, le32, Ahead, Wrap, Seq32, Modulus

\* While less than half of the sequence space separates lo from hi, the range
\* test of the FIN states and the pair of comparisons of ESTABLISHED accept
\* exactly the same acknowledgement numbers.
THEOREM RangeAgreesWithOrder ==
    ASSUME NEW x \in Seq32, NEW lo \in Seq32, NEW hi \in Seq32, Ahead(lo, hi) < Half
    PROVE  in_range32(x, lo, hi) <=> le32(lo, x) /\ le32(x, hi)
BY HalfAssumption DEF in_range32, le32, Ahead, Wrap, Seq32, Modulus

\* Moving lo forward to a number inside the range keeps every number between
\* the new lo and hi in range: an acknowledgement never makes later ones stale.
THEOREM RangeShrinks ==
    ASSUME NEW x \in Seq32, NEW lo \in Seq32, NEW mid \in Seq32, NEW hi \in Seq32,
           in_range32(mid, lo, hi)
    PROVE  in_range32(x, mid, hi) => in_range32(x, lo, hi) /\ Ahead(mid, hi) <= Ahead(lo, hi)
BY HalfAssumption DEF in_range32, Ahead, Wrap, Seq32, Modulus

-----------------------------------------------------------------------------
(* The path MTU search.                                                    *)

(* The peer and the interface take a packet of the base size and of the    *)
(* operator's: limit_max leaves the base candidate and the seed alone.     *)
BaseFits == /\ InterfaceMtu >= BaseMtu
            /\ \A limit \in PeerLimits : limit >= BaseMtu /\ limit >= Seed

(* An engine whose bounds are in order, and whose upper bound is top.      *)
Bracketed(e, top) ==
    /\ e \in Engine
    /\ e.max = top
    /\ MinMtu <= e.ack
    /\ e.high <= top
    /\ MinMtu <= e.current /\ e.current <= top
    /\ MinMtu <= e.seed /\ e.seed <= top
    /\ MinMtu <= top /\ BaseMtu <= top
    /\ e.state = "BASE" => e.candidate = BaseMtu
    /\ e.state = "SEARCHING" /\ e.candidate # NoSize => e.candidate < e.high
    /\ e.state \in {"SEARCH_COMPLETE", "ERROR"} => e.candidate = NoSize

-----------------------------------------------------------------------------
(* The ladder proposes nothing, or a size strictly inside the open range.  *)
LEMMA CandidateInside ==
    ASSUME NEW ack \in Nat, NEW high \in Nat
    PROVE  /\ next_candidate(ack, high) \in Nat
           /\ next_candidate(ack, high) # NoSize => next_candidate(ack, high) < high
  <1> DEFINE half == (ack + high) \div 2
             aligned == (half \div Granularity) * Granularity
  <1>1. Granularity \in Nat \ {0}
    BY SearchConstants
  <1>2. half \in Nat
    BY SMT
  <1>3. half \div Granularity \in Nat
    <2> HIDE DEF half
    <2> QED BY <1>1, <1>2, SMT
  <1>4. aligned \in Nat
    <2> DEFINE q == half \div Granularity
    <2> HIDE DEF half
    <2>1. q \in Nat
      BY <1>3
    <2> HIDE DEF q
    <2> QED BY <2>1, <1>1, SMT DEF q
  <1> HIDE DEF aligned
  <1> QED BY <1>1, <1>4 DEF next_candidate, NoSize, aligned

(* Going on with the search keeps the bounds.                              *)
LEMMA SearchOnBracketed ==
    ASSUME NEW top \in Nat, NEW e \in Engine,
           e.max = top, MinMtu <= e.ack, e.high <= top,
           MinMtu <= e.current, e.current <= top,
           MinMtu <= e.seed, e.seed <= top, MinMtu <= top, BaseMtu <= top
    PROVE  Bracketed(SearchOn(e), top)
  <1> DEFINE size == next_candidate(e.ack, e.high)
  <1>1. e.ack \in Nat /\ e.high \in Nat
    BY DEF Engine
  <1>2. size \in Nat /\ (size # NoSize => size < e.high)
    BY <1>1, CandidateInside
  <1> HIDE DEF size
  <1>3. CASE size = NoSize
    BY <1>3, SearchConstants DEF SearchOn, enter_search_complete, Bracketed, Engine, PmtuState, Timer, NoSize, size
  <1>4. CASE size # NoSize
    BY <1>2, <1>4, SearchConstants DEF SearchOn, Bracketed, Engine, PmtuState, Timer, NoSize, size
  <1> QED BY <1>3, <1>4

-----------------------------------------------------------------------------
(* Each operation of the engine keeps the bounds.                          *)

LEMMA ProbeAckBracketed ==
    ASSUME NEW top \in Nat, NEW e, Bracketed(e, top), NEW size \in Nat, size <= top
    PROVE  Bracketed(on_probe_ack(e, size), top)
  <1> DEFINE heard == [e EXCEPT !.losses = 0]
             validating == e.probing /\ e.state = "SEARCHING"
             proven == [heard EXCEPT !.vsize = IF validating THEN 0 ELSE @,
                                     !.vacks = IF validating THEN 0 ELSE @,
                                     !.ack = Larger(@, size), !.current = Larger(@, size)]
             base == [proven EXCEPT !.probe_timer = "off"]
             error == [proven EXCEPT !.probe_timer = "off", !.raise_timer = "off"]
  <1>1. e \in Engine
    BY DEF Bracketed
  <1>2. CASE validating /\ AckStreak(e, size) < ValidationAcks
    <2>1. AckStreak(e, size) \in Nat
      BY <1>1 DEF AckStreak, Engine
    <2> QED BY ZenonT(40), <1>1, <1>2, <2>1 DEF on_probe_ack, Bracketed, Engine, Timer, PmtuState, NoSize
  <1>3. CASE ~(validating /\ AckStreak(e, size) < ValidationAcks)
    <2>1. /\ proven \in Engine /\ proven.state = e.state /\ proven.max = top
          /\ MinMtu <= proven.ack /\ proven.high = e.high
          /\ MinMtu <= proven.current /\ proven.current <= top
          /\ proven.seed = e.seed /\ proven.candidate = e.candidate
      <3> DEFINE n == IF validating THEN 0 ELSE heard.vsize
                 k == IF validating THEN 0 ELSE heard.vacks
                 a == Larger(heard.ack, size)
                 c == Larger(heard.current, size)
      <3>1. /\ heard \in Engine /\ heard.state = e.state /\ heard.max = e.max
            /\ heard.ack = e.ack /\ heard.high = e.high /\ heard.current = e.current
            /\ heard.seed = e.seed /\ heard.candidate = e.candidate
        BY <1>1 DEF Engine
      <3> HIDE DEF heard
      <3>2. n \in Nat /\ k \in Nat
        BY <3>1 DEF Engine
      <3>3. /\ a \in Nat /\ MinMtu <= a
            /\ c \in Nat /\ MinMtu <= c /\ c <= top
        BY <1>1, <3>1, SearchConstants DEF Bracketed, Engine, Larger
      <3> HIDE DEF n, k, a, c
      <3>4. proven = [heard EXCEPT !.vsize = n, !.vacks = k, !.ack = a, !.current = c]
        BY DEF n, k, a, c
      <3> HIDE DEF proven
      <3> QED BY <3>1, <3>2, <3>3, <3>4 DEF Bracketed, Engine
    <2> HIDE DEF proven
    <2>2. CASE e.state \in {"BASE", "SEARCHING"}
      <3>1. Bracketed(SearchOn(base), top)
        BY <2>1, SearchOnBracketed DEF Bracketed, Engine, Timer
      <3> QED BY <1>3, <2>2, <3>1 DEF on_probe_ack, proven
    <2>3. CASE e.state = "ERROR"
      <3>1. /\ error \in Engine /\ error.max = proven.max /\ error.ack = proven.ack
            /\ error.high = proven.high /\ error.current = proven.current
            /\ error.seed = proven.seed
        BY <2>1 DEF Engine, Timer
      <3>2. Bracketed(SearchOn(error), top)
        <4> HIDE DEF error
        <4> QED BY <2>1, <3>1, SearchOnBracketed DEF Bracketed
      <3> QED BY <1>3, <2>3, <3>2 DEF on_probe_ack, proven
    <2>4. CASE e.state = "SEARCH_COMPLETE"
      <3>1. on_probe_ack(e, size) = proven
        BY <1>3, <2>4 DEF on_probe_ack, proven
      <3> QED BY <2>1, <2>4, <3>1 DEF Bracketed
    <2> QED BY <1>1, <2>2, <2>3, <2>4 DEF Engine, PmtuState
  <1> QED BY <1>2, <1>3

LEMMA ProbeLossBracketed ==
    ASSUME NEW top \in Nat, NEW e, Bracketed(e, top)
    PROVE  Bracketed(on_probe_loss(e), top)
  <1> DEFINE lost == [e EXCEPT !.losses = @ + 1, !.probe_timer = "off", !.vsize = 0, !.vacks = 0]
             narrowed == [lost EXCEPT !.high = IF e.candidate = NoSize THEN @ ELSE e.candidate - 1]
             floor == IF e.probing THEN e.seed ELSE MinMtu
             error == [lost EXCEPT !.state = "ERROR", !.current = floor, !.candidate = NoSize,
                                   !.losses = 0, !.raise_timer = "armed"]
  <1>1. e \in Engine /\ e.losses \in Nat /\ MaxProbes \in Nat
    BY SearchConstants DEF Bracketed, Engine
  <1>0. /\ lost \in Engine /\ lost.state = e.state /\ lost.candidate = e.candidate
        /\ lost.max = e.max /\ lost.ack = e.ack /\ lost.high = e.high
        /\ lost.current = e.current /\ lost.seed = e.seed
    <2> DEFINE n == e.losses + 1
    <2>1. n \in Nat
      BY <1>1
    <2>2. lost = [e EXCEPT !.losses = n, !.probe_timer = "off", !.vsize = 0, !.vacks = 0]
      OBVIOUS
    <2> HIDE DEF n, lost
    <2> QED BY <1>1, <2>1, <2>2 DEF Engine, Timer
  <1>2. CASE e.state \in {"SEARCH_COMPLETE", "ERROR"}
    <2>1. on_probe_loss(e) = e
      BY <1>2 DEF on_probe_loss
    <2> QED BY <2>1
  <1>3. CASE e.state \in {"BASE", "SEARCHING"} /\ e.losses + 1 >= MaxProbes
    <2>1. on_probe_loss(e) = error
      BY <1>1, <1>3 DEF on_probe_loss
    <2>2. floor \in Nat /\ MinMtu <= floor /\ floor <= top
      BY <1>1, SearchConstants DEF Bracketed, Engine
    <2> HIDE DEF floor
    <2>3. /\ error \in Engine /\ error.state = "ERROR" /\ error.candidate = NoSize
          /\ error.max = e.max /\ error.ack = e.ack /\ error.high = e.high
          /\ error.current = floor /\ error.seed = e.seed
      BY <1>1, <2>2 DEF Engine, PmtuState, Timer, NoSize
    <2> HIDE DEF error
    <2> QED BY <2>1, <2>2, <2>3 DEF Bracketed
  <1>4. CASE e.state = "BASE" /\ e.losses + 1 < MaxProbes
    <2>1. on_probe_loss(e) = lost
      BY <1>1, <1>4 DEF on_probe_loss
    <2> HIDE DEF lost
    <2> QED BY <1>0, <2>1 DEF Bracketed
  <1>5. CASE e.state = "SEARCHING" /\ e.losses + 1 < MaxProbes
    <2>1. on_probe_loss(e) = SearchOn(narrowed)
      BY <1>1, <1>5 DEF on_probe_loss
    <2>2. /\ narrowed \in Engine /\ narrowed.high <= top /\ narrowed.max = e.max
          /\ narrowed.ack = e.ack /\ narrowed.current = e.current /\ narrowed.seed = e.seed
      <3> DEFINE h == IF e.candidate = NoSize THEN e.high ELSE e.candidate - 1
      <3>1. h \in Nat /\ h <= top
        BY <1>1, <1>5 DEF Bracketed, Engine, NoSize
      <3> HIDE DEF lost
      <3>2. narrowed = [lost EXCEPT !.high = h]
        BY <1>0
      <3> HIDE DEF h, narrowed
      <3> QED BY <1>0, <3>1, <3>2 DEF Engine
    <2> HIDE DEF narrowed
    <2> QED BY <2>1, <2>2, SearchOnBracketed DEF Bracketed
  <1> QED BY <1>1, <1>2, <1>3, <1>4, <1>5 DEF Engine, PmtuState

LEMMA ReportBracketed ==
    ASSUME NEW top \in Nat, NEW e, Bracketed(e, top), NEW mtu \in Nat, mtu <= top
    PROVE  Bracketed(on_classical_pmtu(e, mtu), top)
  <1> DEFINE effective == Larger(MinMtu, mtu)
             reopened == [e EXCEPT !.high = effective, !.current = effective, !.ack = MinMtu,
                                   !.losses = 0, !.probe_timer = "off", !.raise_timer = "off"]
  <1>1. effective \in Nat /\ MinMtu <= effective /\ effective <= top
    BY SMTT(20), SearchConstants DEF Larger, Bracketed
  <1> HIDE DEF effective
  <1>2. e \in Engine
    BY DEF Bracketed
  <1>3. CASE e.state = "ERROR"
    <2>1. on_classical_pmtu(e, mtu) = SearchOn(reopened)
      BY <1>3 DEF on_classical_pmtu, effective
    <2>2. /\ reopened \in Engine /\ reopened.high = effective /\ reopened.max = e.max
          /\ reopened.ack = MinMtu /\ reopened.current = effective /\ reopened.seed = e.seed
      BY <1>1, <1>2, SearchConstants DEF Engine, Timer
    <2> HIDE DEF reopened
    <2> QED BY <1>1, <2>1, <2>2, SearchConstants, SearchOnBracketed DEF Bracketed
  <1>4. CASE e.state # "ERROR"
    BY <1>1, <1>2, <1>4 DEF on_classical_pmtu, Smaller, Bracketed, Engine, effective
  <1> QED BY <1>3, <1>4

LEMMA ConfirmBracketed ==
    ASSUME NEW top \in Nat, NEW e, Bracketed(e, top), NEW size \in Nat
    PROVE  Bracketed(confirm_current(e, size), top)
  <1> DEFINE raised == [e EXCEPT !.ack = IF size > @ /\ size <= e.current THEN size ELSE @]
             found == [raised EXCEPT !.losses = 0, !.probe_timer = "off"]
  <1>1. /\ raised \in Engine /\ MinMtu <= raised.ack /\ raised.max = top
        /\ raised.high = e.high /\ raised.current = e.current /\ raised.seed = e.seed
        /\ raised.state = e.state /\ raised.candidate = e.candidate
    BY SearchConstants DEF Bracketed, Engine
  <1> HIDE DEF raised
  <1>2. Bracketed(raised, top)
    BY <1>1 DEF Bracketed
  <1>3. Bracketed(SearchOn(found), top)
    <2>1. /\ found \in Engine /\ found.max = top /\ found.ack = raised.ack
          /\ found.high = e.high /\ found.current = e.current /\ found.seed = e.seed
      BY <1>1 DEF Engine, Timer
    <2> HIDE DEF found
    <2> QED BY <1>1, <2>1, SearchOnBracketed DEF Bracketed
  <1> QED BY <1>2, <1>3 DEF confirm_current, raised

LEMMA BlackHoleBracketed ==
    ASSUME NEW top \in Nat, NEW e, Bracketed(e, top)
    PROVE  Bracketed(on_black_hole_suspected(e), top)
  <1> DEFINE back == [e EXCEPT !.current = e.seed, !.ack = Smaller(@, e.seed),
                               !.high = Smaller(@, e.current - 1), !.losses = 0,
                               !.probe_timer = "off", !.vsize = 0, !.vacks = 0]
  <1>1. CASE ~e.probing \/ e.current <= e.seed
    BY <1>1 DEF on_black_hole_suspected
  <1>2. CASE ~(~e.probing \/ e.current <= e.seed)
    <2>1. on_black_hole_suspected(e) = SearchOn(back)
      BY <1>2 DEF on_black_hole_suspected
    <2>2. /\ back \in Engine /\ back.high <= top /\ back.max = e.max /\ MinMtu <= back.ack
          /\ back.current = e.seed /\ back.seed = e.seed
      <3> DEFINE a == Smaller(e.ack, e.seed)
                 h == Smaller(e.high, e.current - 1)
      <3>1. /\ e \in Engine /\ e.seed \in Nat
            /\ a \in Nat /\ MinMtu <= a /\ h \in Nat /\ h <= top
        BY SearchConstants DEF Bracketed, Engine, Smaller
      <3>2. back = [e EXCEPT !.current = e.seed, !.ack = a, !.high = h, !.losses = 0,
                             !.probe_timer = "off", !.vsize = 0, !.vacks = 0]
        BY DEF a, h
      <3> HIDE DEF a, h, back
      <3> QED BY <3>1, <3>2 DEF Engine, Timer
    <2> HIDE DEF back
    <2> QED BY <2>1, <2>2, SearchOnBracketed DEF Bracketed
  <1> QED BY <1>1, <1>2

(* The size to probe next fits as well.                                    *)
LEMMA NextProbeBracketed ==
    ASSUME NEW top \in Nat, NEW e, Bracketed(e, top)
    PROVE  /\ Bracketed(next_probe_size(e).engine, top)
           /\ next_probe_size(e).size \in Nat /\ next_probe_size(e).size <= top
  <1> DEFINE size == next_candidate(e.ack, e.max)
             Result == next_probe_size(e)
             Nothing == [size |-> NoSize, engine |-> e]
             rebase == [e EXCEPT !.state = "BASE", !.candidate = BaseMtu, !.losses = 0,
                                 !.probe_timer = "armed", !.raise_timer = "off"]
             reopen == [e EXCEPT !.state = "SEARCHING", !.candidate = size, !.high = e.max,
                                 !.raise_timer = "off",
                                 !.probe_timer = IF size = NoSize THEN @ ELSE "armed"]
  <1>1. e \in Engine /\ BaseMtu \in Nat /\ e.max = top /\ e.ack \in Nat
    BY SearchConstants DEF Bracketed, Engine
  <1>2. size \in Nat /\ (size # NoSize => size < top)
    BY <1>1, CandidateInside
  <1> HIDE DEF size
  <1>3. Bracketed(rebase, top)
    BY <1>1, SearchConstants DEF Bracketed, Engine, Timer, PmtuState, NoSize
  <1>4. Bracketed(reopen, top)
    <2> DEFINE timer == IF size = NoSize THEN e.probe_timer ELSE "armed"
    <2>1. timer \in Timer
      BY <1>1 DEF Engine, Timer
    <2>2. reopen = [e EXCEPT !.state = "SEARCHING", !.candidate = size, !.high = e.max,
                             !.raise_timer = "off", !.probe_timer = timer]
      BY DEF timer
    <2> HIDE DEF timer, reopen
    <2>3. /\ reopen \in Engine /\ reopen.state = "SEARCHING" /\ reopen.candidate = size
          /\ reopen.max = e.max /\ reopen.high = e.max /\ reopen.ack = e.ack
          /\ reopen.current = e.current /\ reopen.seed = e.seed
      BY <1>1, <1>2, <2>1, <2>2 DEF Engine, Timer, PmtuState
    <2> QED BY <1>1, <1>2, <2>3 DEF Bracketed
  <1>5. Bracketed([e EXCEPT !.probe_timer = "armed"], top)
    BY <1>1 DEF Bracketed, Engine, Timer
  <1>6. e.candidate \in Nat /\ (e.state \in {"BASE", "SEARCHING"} => e.candidate <= top)
    BY <1>1, SearchConstants DEF Bracketed, Engine, NoSize
  <1>7. \/ Result = Nothing
        \/ Result = [size |-> BaseMtu, engine |-> rebase]
        \/ Result = [size |-> size, engine |-> reopen]
        \/ /\ Result = [size |-> e.candidate, engine |-> [e EXCEPT !.probe_timer = "armed"]]
           /\ e.state \in {"BASE", "SEARCHING"}
    <2> HIDE DEF rebase, reopen
    <2>1. CASE e.state = "ERROR"
      BY <2>1 DEF next_probe_size, rebase
    <2>2. CASE e.state = "SEARCH_COMPLETE"
      BY <2>2 DEF next_probe_size, reopen, size
    <2>3. CASE e.state \in {"BASE", "SEARCHING"}
      BY <2>3 DEF next_probe_size
    <2> QED BY <1>1, <2>1, <2>2, <2>3 DEF Engine, PmtuState
  <1> HIDE DEF Result, rebase, reopen
  <1>8. Bracketed(Result.engine, top) /\ Result.size \in Nat /\ Result.size <= top
    <2>1. CASE Result = Nothing
      BY <1>1, <2>1 DEF NoSize
    <2>2. CASE Result = [size |-> BaseMtu, engine |-> rebase]
      <3>1. BaseMtu <= top
        BY DEF Bracketed
      <3> QED BY <1>1, <1>3, <2>2, <3>1
    <2>3. CASE Result = [size |-> size, engine |-> reopen]
      BY <1>2, <1>4, <2>3 DEF NoSize
    <2>4. CASE /\ Result = [size |-> e.candidate, engine |-> [e EXCEPT !.probe_timer = "armed"]]
               /\ e.state \in {"BASE", "SEARCHING"}
      BY <1>5, <1>6, <2>4
    <2> QED BY <1>7, <2>1, <2>2, <2>3, <2>4
  <1> QED BY <1>8 DEF Result

-----------------------------------------------------------------------------
(* The session's part of the invariant: what it sends, keeps as a probe or *)
(* hears of from a router fits the engine's upper bound.                   *)
Sizes ==
    /\ una \in Nat /\ nxt \in Nat /\ mss \in Nat
    /\ mss + Overhead <= eng.max
    /\ \A p \in in_flight : p.size \in Nat /\ p.size <= eng.max
    /\ \A s \in implicit : s.size \in Nat
    /\ acks \subseteq Nat /\ path \in Nat
    /\ \A mtu \in reports : mtu \in Nat /\ mtu <= eng.max

IInv == Bracketed(eng, eng.max) /\ Sizes

(* The initial engine is bracketed when the base size fits.                *)
LEMMA InitBracketed ==
    ASSUME BaseFits, Init
    PROVE  IInv
  <1>1. PICK limit \in PeerLimits :
          /\ eng = limit_max(NewEngine(InterfaceMtu, TRUE, Seed), limit)
          /\ in_flight = {} /\ implicit = {} /\ una = 0 /\ nxt = 0
          /\ mss = Smaller(Seed, Larger(limit, MinMtu)) - Overhead
          /\ path \in Paths /\ reports = {}
    BY DEF Init
  <1> DEFINE new == NewEngine(InterfaceMtu, TRUE, Seed)
             bound == Smaller(InterfaceMtu, Larger(limit, MinMtu))
  <1>2. /\ limit \in Nat /\ BaseMtu \in Nat /\ MinMtu \in Nat /\ Seed \in Nat
        /\ bound \in Nat /\ MinMtu <= bound /\ BaseMtu <= bound /\ Seed <= bound
        /\ MinMtu <= Seed /\ bound <= InterfaceMtu
    BY SearchConstants, SenderConstants DEF BaseFits, Smaller, Larger
  <1>3. new = [state |-> "BASE", current |-> Seed, candidate |-> BaseMtu,
               ack |-> MinMtu, max |-> InterfaceMtu, high |-> InterfaceMtu, losses |-> 0,
               probe_timer |-> "off", raise_timer |-> "off", probing |-> TRUE,
               vsize |-> 0, vacks |-> 0, seed |-> Seed]
    BY SearchConstants, SenderConstants DEF NewEngine, Smaller, Larger
  <1>4. /\ new \in Engine /\ new.state = "BASE" /\ new.candidate = BaseMtu
        /\ new.max = InterfaceMtu /\ new.high = InterfaceMtu /\ new.ack = MinMtu
        /\ new.current = Seed /\ new.seed = Seed
    <2> HIDE DEF new
    <2>1. /\ 0 \in Nat /\ InterfaceMtu \in Nat /\ MinMtu \in Nat
          /\ "BASE" \in PmtuState /\ "off" \in Timer /\ TRUE \in BOOLEAN
      BY <1>2, SenderConstants DEF PmtuState, Timer
    <2>2. new \in Engine
      BY <1>2, <1>3, <2>1 DEF Engine
    <2> QED BY <1>3, <2>2
  <1> HIDE DEF new
  <1>5. /\ eng \in Engine /\ eng.state = "BASE" /\ eng.candidate = BaseMtu /\ eng.max = bound
        /\ eng.high = bound /\ eng.ack = MinMtu /\ eng.current = Seed /\ eng.seed = Seed
    <2> DEFINE h == Smaller(new.high, bound)
               c == Smaller(new.current, bound)
    <2>1. h = bound /\ c = Seed
      BY <1>2, <1>4, SenderConstants DEF Smaller
    <2>2. eng = [new EXCEPT !.max = bound, !.high = h, !.current = c]
      BY <1>1, <1>4 DEF limit_max, new
    <2> HIDE DEF h, c, bound
    <2> QED BY <1>2, <1>4, <2>1, <2>2 DEF Engine
  <1> HIDE DEF bound
  <1>6. Bracketed(eng, eng.max)
    BY <1>2, <1>5 DEF Bracketed
  <1>7. mss \in Nat /\ mss + Overhead <= eng.max
    <2>1. Smaller(Seed, Larger(limit, MinMtu)) \in Nat
      BY <1>2 DEF Smaller, Larger
    <2>2. /\ Smaller(Seed, Larger(limit, MinMtu)) <= Seed
          /\ Smaller(Seed, Larger(limit, MinMtu)) >= MinMtu
      BY <1>2 DEF Smaller, Larger
    <2>5. MinMtu >= Overhead
      BY <1>2, SenderConstants
    <2>3. Overhead \in Nat /\ mss = Smaller(Seed, Larger(limit, MinMtu)) - Overhead
      BY <1>1, SenderConstants
    <2>4. mss \in Nat /\ mss + Overhead = Smaller(Seed, Larger(limit, MinMtu))
      BY <1>2, <2>1, <2>2, <2>3, <2>5
    <2> QED BY <1>2, <1>5, <2>1, <2>2, <2>4
  <1> QED BY <1>1, <1>6, <1>7, SenderConstants DEF IInv, Sizes, Init

(* What a probe opportunity leaves keeps the bounds, and reserves a size   *)
(* that fits.                                                              *)
LEMMA MaybeProbeBracketed ==
    ASSUME IInv
    PROVE  /\ Bracketed(maybe_probe.engine, eng.max)
           /\ maybe_probe.size \in Nat /\ maybe_probe.size <= eng.max
           /\ maybe_probe.flying \subseteq in_flight
  <1> DEFINE late == in_flight # {} /\ probe_timer_expired(eng)
             seen == IF late THEN on_probe_loss(eng) ELSE eng
  <1>1. eng.max \in Nat /\ Bracketed(eng, eng.max)
    BY DEF IInv, Bracketed, Engine
  <1>2. Bracketed(seen, eng.max)
    BY <1>1, ProbeLossBracketed
  <1> HIDE DEF seen
  <1>3. /\ Bracketed(next_probe_size(seen).engine, eng.max)
        /\ next_probe_size(seen).size \in Nat /\ next_probe_size(seen).size <= eng.max
    BY <1>1, <1>2, NextProbeBracketed
  <1>4. /\ maybe_probe.engine = next_probe_size(seen).engine
        /\ maybe_probe.size = next_probe_size(seen).size
        /\ maybe_probe.flying \subseteq in_flight
    BY DEF maybe_probe, seen
  <1> QED BY <1>3, <1>4

LEMMA HoldsNat ==
    ASSUME NEW units
    PROVE  Holds(units) \in Nat
  <1> DEFINE prefix == {i \in 0..(Stream - 1) : 0..i \subseteq units}
  <1>1. IsFiniteSet(0..(Stream - 1))
    BY SenderConstants, FS_Interval
  <1>2. prefix \subseteq 0..(Stream - 1)
    OBVIOUS
  <1> HIDE DEF prefix
  <1>3. IsFiniteSet(prefix)
    BY <1>1, <1>2, FS_Subset
  <1>4. Cardinality(prefix) \in Nat
    BY <1>3, FS_CardinalityType
  <1> QED BY <1>4 DEF Holds, prefix

(* A segment no larger than the upper bound leaves the reports below it.   *)
LEMMA CarryReports ==
    ASSUME NEW start \in Nat, NEW end \in Nat, NEW top \in Nat,
           end - start + Overhead <= top, path \in Nat, acks \subseteq Nat,
           \A mtu \in reports : mtu \in Nat /\ mtu <= top, Carry(start, end)
    PROVE  /\ path' \in Nat /\ acks' \subseteq Nat
           /\ \A mtu \in reports' : mtu \in Nat /\ mtu <= top
  <1>1. acks' \subseteq Nat
    <2>1. acks' = acks \/ \E units : acks' = acks \cup {Holds(units)}
      BY Zenon DEF Carry
    <2>2. \A units : Holds(units) \in Nat
      BY HoldsNat
    <2>3. CASE acks' = acks
      BY <2>3
    <2>4. CASE \E units : acks' = acks \cup {Holds(units)}
      <3>1. PICK units : acks' = acks \cup {Holds(units)}
        BY <2>4
      <3>2. Holds(units) \in Nat
        BY <2>2
      <3> QED BY <3>1, <3>2
    <2> QED BY <2>1, <2>3, <2>4
  <1>2. path' \in Nat /\ \A mtu \in reports' : mtu \in Nat /\ mtu <= top
    BY SenderConstants DEF Carry
  <1> QED BY <1>1, <1>2

(* A regular segment takes a positive part of the window and the stream,   *)
(* never more than the MSS.                                                *)
LEMMA SegmentFitsMss ==
    ASSUME NEW m \in Nat, NEW u \in Int, NEW r \in Int, u > 0, r > 0
    PROVE  Smaller(m, Smaller(u, r)) \in Nat /\ Smaller(m, Smaller(u, r)) <= m
  <1>1. Smaller(u, r) \in Nat
    BY DEF Smaller
  <1> QED BY <1>1 DEF Smaller

LEMMA TransmitKeeps ==
    ASSUME IInv, transmit_data
    PROVE  IInv'
  <1> DEFINE top == eng.max
  <1>1. top \in Nat /\ Bracketed(eng, top)
    BY DEF IInv, Bracketed, Engine
  <1>2. /\ eng.candidate \in Nat /\ (eng.candidate # NoSize => eng.candidate <= top)
        /\ Overhead \in Nat /\ BaseMtu \in Nat
    BY SearchConstants, SenderConstants, <1>1, SMTT(20) DEF Bracketed, Engine, PmtuState, NoSize
  <1> DEFINE payload == eng.candidate - Overhead
             usable(w) == w - (nxt - una)
             remaining == Stream - nxt
             feasible(w) == /\ eng.candidate # NoSize
                            /\ payload > mss /\ payload <= usable(w) /\ payload <= remaining
             taken(w) == IF feasible(w) THEN maybe_probe
                         ELSE [size |-> NoSize, engine |-> eng, flying |-> in_flight]
             end(w) == nxt + Smaller(mss, Smaller(usable(w), remaining))
  <1>3. PICK w \in (IF slow THEN {mss} ELSE Windows) :
          /\ usable(w) > 0 /\ remaining > 0
          /\ \/ /\ taken(w).size # NoSize
                /\ eng' = taken(w).engine
                /\ in_flight' = taken(w).flying \cup
                     {[start |-> nxt, end |-> nxt + payload, size |-> taken(w).size]}
                /\ nxt' = nxt + payload
                /\ UNCHANGED implicit
             \/ /\ taken(w).size = NoSize
                /\ nxt' = end(w)
                /\ IF nxt < smax
                   THEN on_range_retransmitted(nxt, end(w))
                   ELSE note_data_segment(nxt, end(w), end(w) - nxt + Overhead)
          /\ Carry(nxt, nxt')
          /\ UNCHANGED <<una, mss>>
    BY DEF transmit_data
  <1>4. w \in Nat /\ una \in Nat /\ nxt \in Nat /\ mss \in Nat /\ mss + Overhead <= top
    BY SMTT(20), <1>3, SenderConstants DEF IInv, Sizes
  <1>5. CASE taken(w).size # NoSize
    <2>1. feasible(w) /\ taken(w) = maybe_probe
      BY <1>5
    <2>2. eng.candidate # NoSize /\ payload > mss
      BY <2>1
    <2>3. payload \in Nat /\ payload + Overhead <= top
      BY <1>2, <1>4, <2>2
    <2> HIDE DEF top, payload, taken, feasible, usable, remaining, end
    <2>4. /\ eng' = maybe_probe.engine
          /\ in_flight' = maybe_probe.flying \cup
               {[start |-> nxt, end |-> nxt + payload, size |-> maybe_probe.size]}
          /\ nxt' = nxt + payload
          /\ implicit' = implicit
      BY <1>3, <1>5, <2>1
    <2>5. /\ Bracketed(maybe_probe.engine, top)
          /\ maybe_probe.size \in Nat /\ maybe_probe.size <= top
          /\ maybe_probe.flying \subseteq in_flight
      BY MaybeProbeBracketed DEF top
    <2>6. \A p \in in_flight : p.size \in Nat /\ p.size <= top
      BY DEF IInv, Sizes, top
    <2>7. \A p \in in_flight' : p.size \in Nat /\ p.size <= top
      BY <2>4, <2>5, <2>6
    <2>8. nxt' \in Nat /\ nxt' - nxt + Overhead <= top
      BY <1>1, <1>2, <1>4, <2>3, <2>4
    <2>9. path' \in Nat /\ acks' \subseteq Nat /\ \A mtu \in reports' : mtu \in Nat /\ mtu <= top
      BY <1>1, <1>3, <1>4, <2>8, CarryReports, SMTT(20) DEF IInv, Sizes, top
    <2>10. Bracketed(eng', top) /\ eng'.max = top
      BY <2>4, <2>5 DEF Bracketed
    <2>11. Bracketed(eng', eng'.max)
      BY <2>10
    <2>12. una' = una /\ mss' = mss
      BY <1>3
    <2> QED BY <1>4, <2>4, <2>7, <2>8, <2>9, <2>10, <2>11, <2>12 DEF IInv, Sizes
  <1>6. CASE taken(w).size = NoSize
    <2>1. end(w) \in Nat /\ end(w) - nxt <= mss /\ end(w) >= nxt
      <3>1. usable(w) \in Int /\ remaining \in Int
        BY <1>4, SenderConstants
      <3>2. usable(w) > 0 /\ remaining > 0
        BY <1>3
      <3> HIDE DEF usable, remaining
      <3> DEFINE step == Smaller(mss, Smaller(usable(w), remaining))
      <3>3. step \in Nat /\ step <= mss
        BY <1>4, <3>1, <3>2, SegmentFitsMss
      <3>4. end(w) = nxt + step
        OBVIOUS
      <3> HIDE DEF step, end
      <3> QED BY <1>4, <3>3, <3>4
    <2>2. nxt' \in Nat /\ nxt' - nxt + Overhead <= top
      <3>1. nxt' = end(w)
        BY <1>3, <1>6, SMTT(20)
      <3> HIDE DEF end, top
      <3> QED BY SMTT(20), <1>1, <1>2, <1>4, <2>1, <3>1
    <2>3. path' \in Nat /\ acks' \subseteq Nat /\ \A mtu \in reports' : mtu \in Nat /\ mtu <= top
      BY <1>1, <1>3, <1>4, <2>2, CarryReports, SMTT(20) DEF IInv, Sizes
    <2>4. /\ Bracketed(eng', top)
          /\ \A p \in in_flight' : p.size \in Nat /\ p.size <= top
          /\ \A s \in implicit' : s.size \in Nat
      <3>1. end(w) - nxt + Overhead \in Nat
        BY <1>2, <1>4, <2>1, SMTT(20)
      <3>2. IF nxt < smax THEN on_range_retransmitted(nxt, end(w))
            ELSE note_data_segment(nxt, end(w), end(w) - nxt + Overhead)
        BY <1>3, <1>6
      <3> HIDE DEF end
      <3>3. CASE nxt < smax
        BY <1>1, <3>2, <3>3, ProbeLossBracketed DEF on_range_retransmitted, IInv, Sizes
      <3>4. CASE ~(nxt < smax)
        BY <1>1, <3>1, <3>2, <3>4 DEF note_data_segment, IInv, Sizes
      <3> QED BY <3>3, <3>4
    <2>5. eng'.max = top
      BY <2>4 DEF Bracketed
    <2> HIDE DEF top, payload, taken, feasible, usable, remaining, end
    <2> QED BY <1>3, <1>4, <2>2, <2>3, <2>4, <2>5 DEF IInv, Sizes
  <1> QED BY <1>5, <1>6

LEMMA AckKeeps ==
    ASSUME IInv, process_ack_packet
    PROVE  IInv'
  <1> DEFINE top == eng.max
  <1>1. /\ top \in Nat /\ Bracketed(eng, top) /\ Overhead \in Nat /\ MinMtu \in Nat
        /\ MinMtu >= Overhead /\ MinMss \in Nat
    BY SearchConstants, SenderConstants DEF IInv, Bracketed, Engine
  <1>2. PICK ack \in acks :
          /\ ack > una
          /\ una' = ack
          /\ nxt' = Larger(nxt, ack)
          /\ eng' = check_implicit_confirm(on_snd_una_advance(ack), ack)
          /\ in_flight' = {p \in in_flight : p.end > ack}
          /\ implicit' = {s \in implicit : s.end > ack}
          /\ mss' = IF eng'.current - Overhead >= MinMss THEN eng'.current - Overhead ELSE mss
          /\ acks' \subseteq acks
          /\ UNCHANGED <<path, reports>>
    BY DEF process_ack_packet
  <1>3. Bracketed(on_snd_una_advance(ack), top)
    <2>1. CASE \E p \in in_flight : p.end <= ack
      <3>1. (CHOOSE p \in in_flight : p.end <= ack) \in in_flight
        BY <2>1
      <3> QED BY <1>1, <2>1, <3>1, ProbeAckBracketed DEF on_snd_una_advance, IInv, Sizes
    <2>2. CASE ~\E p \in in_flight : p.end <= ack
      BY <1>1, <2>2 DEF on_snd_una_advance
    <2> QED BY <2>1, <2>2
  <1>4. Bracketed(eng', top)
    <2> DEFINE e == on_snd_una_advance(ack)
    <2>1. CASE \E s \in implicit : s.end <= ack
      <3>1. (CHOOSE s \in implicit : TRUE) \in implicit
        BY <2>1
      <3>2. (CHOOSE s \in implicit : TRUE).size \in Nat
        BY <3>1 DEF IInv, Sizes
      <3> HIDE DEF e
      <3> QED BY <1>1, <1>2, <1>3, <2>1, <3>2, ConfirmBracketed DEF check_implicit_confirm, e
    <2>2. CASE ~\E s \in implicit : s.end <= ack
      BY <1>2, <1>3, <2>2 DEF check_implicit_confirm
    <2> QED BY <2>1, <2>2
  <1>5. eng'.max = top /\ eng'.current \in Nat /\ eng'.current <= top
    BY <1>4 DEF Bracketed, Engine
  <1> HIDE DEF top
  <1>6. mss' \in Nat /\ mss' + Overhead <= top
    BY <1>1, <1>2, <1>5 DEF IInv, Sizes, top
  <1>7. una' \in Nat /\ nxt' \in Nat
    BY <1>2 DEF IInv, Sizes, Larger
  <1> QED BY <1>2, <1>4, <1>5, <1>6, <1>7 DEF IInv, Sizes, top

LEMMA TimeoutKeeps ==
    ASSUME IInv, retransmit_packet_timeout
    PROVE  IInv'
  <1> DEFINE top == eng.max
             seen == IF in_flight # {} THEN on_probe_loss(eng) ELSE eng
  <1>1. /\ top \in Nat /\ Bracketed(eng, top) /\ Overhead \in Nat /\ MinMtu \in Nat
        /\ MinMtu >= Overhead
    BY SearchConstants, SenderConstants DEF IInv, Bracketed, Engine
  <1>2. Bracketed(seen, top)
    BY <1>1, ProbeLossBracketed
  <1> HIDE DEF seen
  <1>3. eng' = on_black_hole_suspected(seen)
    BY DEF retransmit_packet_timeout, on_rto_timeout, seen
  <1>4. Bracketed(eng', top)
    BY <1>1, <1>2, <1>3, BlackHoleBracketed
  <1>5. /\ eng'.max = top /\ eng'.current \in Nat /\ eng'.current <= top
        /\ MinMtu <= eng'.current
    BY <1>4 DEF Bracketed, Engine
  <1> HIDE DEF top
  <1>6. mss' \in Nat /\ mss' + Overhead <= top
    BY <1>1, <1>5 DEF IInv, Sizes, top, retransmit_packet_timeout, Smaller
  <1> QED BY SMTT(20), <1>4, <1>5, <1>6 DEF IInv, Sizes, top, retransmit_packet_timeout, network

LEMMA ReportKeeps ==
    ASSUME IInv, apply_pmtu_update
    PROVE  IInv'
  <1> DEFINE top == eng.max
  <1>1. top \in Nat /\ Bracketed(eng, top) /\ MssFloor \in Nat /\ Overhead \in Nat
    BY SenderConstants DEF IInv, Bracketed, Engine
  <1>2. PICK mtu \in reports :
          /\ reports' = reports \ {mtu}
          /\ mss' = Smaller(mss, Larger(mtu - Overhead, MssFloor))
          /\ eng' = on_classical_pmtu(eng, mtu)
          /\ nxt' = una \/ nxt' = nxt
          /\ UNCHANGED <<in_flight, implicit, una, acks, path>>
    BY DEF apply_pmtu_update
  <1>3. Bracketed(eng', top)
    BY <1>1, <1>2, ReportBracketed DEF IInv, Sizes
  <1>4. eng'.max = top
    BY <1>3 DEF Bracketed
  <1> HIDE DEF top
  <1>5. mtu \in Nat
    BY <1>2 DEF IInv, Sizes
  <1>6. mss' \in Nat /\ mss' + Overhead <= top
    BY SMTT(20), <1>1, <1>2, <1>5 DEF IInv, Sizes, top, Smaller, Larger
  <1> QED BY <1>2, <1>3, <1>4, <1>6 DEF IInv, Sizes, top

(* A timer that falls due changes no bound.                                *)
LEMMA TimerKeeps ==
    ASSUME IInv, ProbeTimerDue \/ RaiseTimerDue
    PROVE  IInv'
  <1>1. eng \in Engine
    BY DEF IInv, Bracketed
  <1>2. /\ eng' \in Engine /\ eng'.state = eng.state /\ eng'.candidate = eng.candidate
        /\ eng'.max = eng.max /\ eng'.ack = eng.ack /\ eng'.high = eng.high
        /\ eng'.current = eng.current /\ eng'.seed = eng.seed
    BY <1>1 DEF ProbeTimerDue, RaiseTimerDue, Engine, Timer
  <1>3. UNCHANGED <<in_flight, implicit, una, nxt, mss, acks, path, reports>>
    BY DEF ProbeTimerDue, RaiseTimerDue, stream, network
  <1> QED BY <1>2, <1>3 DEF IInv, Bracketed, Sizes

LEMMA StepKeeps ==
    ASSUME IInv, [Next]_vars
    PROVE  IInv'
  <1>1. CASE transmit_data
    BY <1>1, TransmitKeeps
  <1>2. CASE process_ack_packet
    BY <1>2, AckKeeps
  <1>3. CASE retransmit_packet_timeout
    BY <1>3, TimeoutKeeps
  <1>4. CASE retransmit_packet_request
    BY <1>4 DEF retransmit_packet_request, IInv, Bracketed, Sizes, engine, network
  <1>5. CASE apply_pmtu_update
    BY <1>5, ReportKeeps
  <1>6. CASE PathChanges
    BY <1>6, SenderConstants DEF PathChanges, IInv, Bracketed, Sizes, engine, stream
  <1>7. CASE ProbeTimerDue \/ RaiseTimerDue
    BY SMTT(20), <1>7, TimerKeeps
  <1>8. CASE UNCHANGED vars
    BY <1>8 DEF vars, IInv, Bracketed, Sizes
  <1> QED BY <1>1, <1>2, <1>3, <1>4, <1>5, <1>6, <1>7, <1>8 DEF Next

(* Where the base size fits the interface and the peer, the search keeps   *)
(* its bounds in order and neither a segment nor a probe outgrows them,    *)
(* for every ladder, stream, path and number of faults                     *)
(* (lib/plpmtud.py with the adapter and the session's calls of it).        *)
THEOREM SearchStaysBracketed ==
    ASSUME BaseFits
    PROVE  Spec => []SearchBracket
  <1>1. Init => IInv
    BY InitBracketed
  <1>2. IInv /\ [Next]_vars => IInv'
    BY StepKeeps
  <1>3. IInv => SearchBracket
    BY SearchConstants DEF IInv, Bracketed, Sizes, SearchBracket
  <1> QED BY <1>1, <1>2, <1>3, PTL DEF Spec

=============================================================================
