----------------------------- MODULE PmtuSearch -----------------------------
(***************************************************************************)
(* The packetization-layer path MTU search engine (lib/plpmtud.py).  An    *)
(* engine is a record, an operation of the engine a function from the      *)
(* record it finds to the record it leaves.  A timer is "off", "armed" or  *)
(* "due": when a deadline passes is up to the module that owns the clock.  *)
(***************************************************************************)
EXTENDS Integers, FiniteSets

CONSTANTS MinMtu,          \* MIN_PLPMTU of the address family
          BaseMtu,         \* BASE_PLPMTU of the address family
          Granularity,     \* LADDER_GRANULARITY
          MaxProbes,       \* MAX_PROBES
          ValidationAcks   \* VALIDATION_ACKS

ASSUME SearchConstants ==
    /\ MinMtu \in Nat \ {0} /\ BaseMtu \in Nat /\ MinMtu <= BaseMtu
    /\ Granularity \in Nat \ {0}
    /\ MaxProbes \in Nat \ {0} /\ ValidationAcks \in Nat \ {0}

PmtuState == {"BASE", "SEARCHING", "SEARCH_COMPLETE", "ERROR"}
Timer == {"off", "armed", "due"}
NoSize == 0                \* None, as a candidate size

Larger(a, b) == IF a >= b THEN a ELSE b
Smaller(a, b) == IF a <= b THEN a ELSE b

Engine ==
    [state : PmtuState, current : Nat, candidate : Nat, ack : Nat, max : Nat, high : Nat,
     losses : Nat, probe_timer : Timer, raise_timer : Timer, probing : BOOLEAN,
     vsize : Nat, vacks : Nat, seed : Nat]

(* The engine of a new destination: nothing probed, the base size next.    *)
NewEngine(interface_mtu, probing, plpmtu_seed) ==
    LET top == Larger(interface_mtu, MinMtu)
        seed == IF probing THEN Smaller(Larger(plpmtu_seed, MinMtu), top) ELSE BaseMtu
    IN  [state |-> "BASE", current |-> IF probing THEN seed ELSE top, candidate |-> BaseMtu,
         ack |-> MinMtu, max |-> top, high |-> top, losses |-> 0,
         probe_timer |-> "off", raise_timer |-> "off", probing |-> probing,
         vsize |-> 0, vacks |-> 0, seed |-> seed]

(* Seeded fault: the ladder never notices that the range has closed.       *)
next_candidate_NeverClosed(ack, high) ==
    LET half == (ack + high) \div 2
        aligned == (half \div Granularity) * Granularity
    IN  IF aligned <= ack THEN ack + Granularity ELSE aligned

(* The aligned midpoint of the open range, or none when it has closed.     *)
next_candidate(ack, high) ==
    LET half == (ack + high) \div 2
        aligned == (half \div Granularity) * Granularity
        mid == IF aligned <= ack THEN ack + Granularity ELSE aligned
    IN  IF high - ack <= Granularity \/ mid >= high THEN NoSize ELSE mid

enter_search_complete(e) ==
    [e EXCEPT !.state = "SEARCH_COMPLETE", !.candidate = NoSize,
              !.probe_timer = "off", !.raise_timer = "armed"]

(* Propose the next size; with none left the search is complete.           *)
SearchOn(e) ==
    LET size == next_candidate(e.ack, e.high)
    IN  IF size = NoSize THEN enter_search_complete(e)
        ELSE [e EXCEPT !.state = "SEARCHING", !.candidate = size]

(* The size to probe now (NoSize: do not probe), and the engine after.     *)
next_probe_size(e) ==
    LET Nothing == [size |-> NoSize, engine |-> e]
    IN  CASE e.state = "ERROR" ->
               IF e.raise_timer # "due" THEN Nothing
               ELSE [size |-> BaseMtu,
                     engine |-> [e EXCEPT !.state = "BASE", !.candidate = BaseMtu, !.losses = 0,
                                          !.probe_timer = "armed", !.raise_timer = "off"]]
          [] e.state = "SEARCH_COMPLETE" ->
               IF e.raise_timer # "due" THEN Nothing
               ELSE LET size == next_candidate(e.ack, e.max)
                    IN  [size |-> size,
                         engine |-> [e EXCEPT !.state = "SEARCHING", !.candidate = size,
                                              !.high = e.max, !.raise_timer = "off",
                                              !.probe_timer = IF size = NoSize THEN @ ELSE "armed"]]
          [] OTHER ->
               IF e.candidate = NoSize \/ e.probe_timer # "off" THEN Nothing
               ELSE [size |-> e.candidate, engine |-> [e EXCEPT !.probe_timer = "armed"]]

(* A probing engine still in SEARCHING wants the same size acknowledged    *)
(* ValidationAcks times in a row before it relies on it.                   *)
AckStreak(e, size) == IF size = e.vsize THEN e.vacks + 1 ELSE 1

on_probe_ack(e, size) ==
    LET heard == [e EXCEPT !.losses = 0]
        validating == e.probing /\ e.state = "SEARCHING"
        proven == [heard EXCEPT !.vsize = IF validating THEN 0 ELSE @,
                                !.vacks = IF validating THEN 0 ELSE @,
                                !.ack = Larger(@, size), !.current = Larger(@, size)]
    IN  IF validating /\ AckStreak(e, size) < ValidationAcks
        THEN [heard EXCEPT !.vsize = size, !.vacks = AckStreak(e, size), !.probe_timer = "off"]
        ELSE CASE e.state \in {"BASE", "SEARCHING"} ->
                    SearchOn([proven EXCEPT !.probe_timer = "off"])
               [] e.state = "ERROR" ->
                    SearchOn([proven EXCEPT !.probe_timer = "off", !.raise_timer = "off"])
               [] OTHER -> proven

on_probe_loss(e) ==
    LET lost == [e EXCEPT !.losses = @ + 1, !.probe_timer = "off", !.vsize = 0, !.vacks = 0]
    IN  CASE e.state \in {"SEARCH_COMPLETE", "ERROR"} -> e
          [] e.state \in {"BASE", "SEARCHING"} /\ e.losses + 1 >= MaxProbes ->
               [lost EXCEPT !.state = "ERROR", !.current = IF e.probing THEN e.seed ELSE MinMtu,
                            !.candidate = NoSize, !.losses = 0, !.raise_timer = "armed"]
          [] e.state = "BASE" /\ e.losses + 1 < MaxProbes -> lost
          [] OTHER ->
               SearchOn([lost EXCEPT !.high = IF e.candidate = NoSize THEN @ ELSE e.candidate - 1])

(* A router says the next hop takes only mtu bytes.                        *)
on_classical_pmtu(e, mtu) ==
    LET effective == Larger(MinMtu, mtu)
    IN  IF e.state = "ERROR"
        THEN SearchOn([e EXCEPT !.high = effective, !.current = effective, !.ack = MinMtu,
                                !.losses = 0, !.probe_timer = "off", !.raise_timer = "off"])
        ELSE [e EXCEPT !.current = Smaller(@, effective)]

(* Regular data of this size was acknowledged.                             *)
confirm_current(e, size) ==
    LET raised == [e EXCEPT !.ack = IF size > @ /\ size <= e.current THEN size ELSE @]
    IN  IF e.state = "BASE" /\ size >= BaseMtu
        THEN SearchOn([raised EXCEPT !.losses = 0, !.probe_timer = "off"])
        ELSE raised

(* Seeded fault: a timeout narrows the search and keeps the size in use.   *)
on_black_hole_suspected_Kept(e) ==
    IF ~e.probing \/ e.current <= e.seed THEN e
    ELSE SearchOn([e EXCEPT !.ack = Smaller(@, e.seed), !.losses = 0, !.probe_timer = "off"])

(* A retransmission timeout at a size probing had raised: back to the seed. *)
on_black_hole_suspected(e) ==
    IF ~e.probing \/ e.current <= e.seed THEN e
    ELSE SearchOn([e EXCEPT !.current = e.seed, !.ack = Smaller(@, e.seed),
                            !.high = Smaller(@, e.current - 1), !.losses = 0,
                            !.probe_timer = "off", !.vsize = 0, !.vacks = 0])

probe_timer_expired(e) == e.state \in {"BASE", "SEARCHING"} /\ e.probe_timer = "due"

(* The peer takes no packet above mtu.                                     *)
limit_max(e, mtu) ==
    LET top == Smaller(e.max, Larger(mtu, MinMtu))
    IN  [e EXCEPT !.max = top, !.high = Smaller(@, top), !.current = Smaller(@, top)]

=============================================================================
