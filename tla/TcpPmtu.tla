------------------------------- MODULE TcpPmtu -------------------------------
(***************************************************************************)
(* A TCP sender that probes for the path MTU while it sends a stream       *)
(* (protocols/tcp/tcp__plpmtud_adapter.py and the places in                *)
(* protocols/tcp/session/ that call it).  The stream is Stream units long  *)
(* and a position in it stands for a sequence number; a packet is its      *)
(* payload plus Overhead.  A packet above the path's MTU is dropped, and a *)
(* router may report it.  The peer's acknowledgments wait in acks until    *)
(* they arrive, so they may be late.  The send window is any of Windows;   *)
(* SACK, tail loss probes and Nagle are off.                               *)
(***************************************************************************)
EXTENDS PmtuSearch

CONSTANTS Stream, Overhead, InterfaceMtu,
          Windows,       \* what the send window may be at a transmission
          Seed,          \* the operator's safe size: _mss_ceiling() plus overhead
          MssFloor,      \* the floor of _apply_pmtu_update
          MinMss,        \* TCP__MIN_MSS
          PeerLimits,    \* the peer's MSS plus overhead
          Paths,         \* the MTUs the path may have, none below Seed
          MaxFaults      \* losses, reports and path changes together

ASSUME SenderConstants ==
    /\ Stream \in Nat /\ Overhead \in Nat \ {0} /\ Windows \subseteq Nat
    /\ InterfaceMtu \in Nat /\ InterfaceMtu >= MinMtu
    /\ Seed \in Nat /\ Seed >= MinMtu /\ Seed <= InterfaceMtu
    /\ MssFloor \in Nat \ {0} /\ MssFloor <= MinMtu - Overhead
    /\ MinMss \in Nat /\ MinMss <= MssFloor
    /\ PeerLimits \subseteq Nat
    /\ Paths \subseteq Nat /\ \A p \in Paths : p >= Seed
    /\ MaxFaults \in Nat

VARIABLES eng,          \* the session's PmtuSearch
          in_flight,    \* the adapter's _in_flight: probes sent and not settled
          implicit,     \* its _implicit_confirm: at most one segment
          una, nxt, smax, \* SND.UNA, SND.NXT, SND.MAX
          mss,          \* snd_mss
          slow,         \* from a timeout to the next acknowledgment: a window of one MSS
          recover,      \* the recovery point of a fast retransmit
          rcvd,         \* what the peer holds of the stream
          acks,         \* acknowledgments on their way
          path,         \* the path's MTU
          reports,      \* packet-too-big reports on their way
          budget        \* faults still allowed

engine == <<eng, in_flight, implicit>>
stream == <<una, nxt, smax, mss, slow, recover>>
network == <<rcvd, acks, path, reports, budget>>
vars == <<eng, in_flight, implicit, una, nxt, smax, mss, slow, recover,
          rcvd, acks, path, reports, budget>>

Probe == [start : Nat, end : Nat, size : Nat]
Covers(p, start, end) == start < p.end /\ p.start < end

-----------------------------------------------------------------------------
(* The adapter.  The engine arms its probe timer with a probe and proposes *)
(* no other while it runs, so the adapter's loops over the probes run once *)
(* here: what an acknowledgment or a retransmission hits is one probe.     *)

(* What a probe opportunity makes of the engine and the probes, and the    *)
(* size it reserves.  A probe whose timer is due is given up first.        *)
maybe_probe ==
    LET late == in_flight # {} /\ probe_timer_expired(eng)
        ready == next_probe_size(IF late THEN on_probe_loss(eng) ELSE eng)
    IN  [size |-> ready.size, engine |-> ready.engine,
         flying |-> IF late THEN {} ELSE in_flight]

on_snd_una_advance(ack) ==
    IF \E p \in in_flight : p.end <= ack
    THEN on_probe_ack(eng, (CHOOSE p \in in_flight : p.end <= ack).size)
    ELSE eng

check_implicit_confirm(e, ack) ==
    IF \E s \in implicit : s.end <= ack
    THEN confirm_current(e, (CHOOSE s \in implicit : TRUE).size)
    ELSE e

on_rto_timeout ==
    on_black_hole_suspected(IF in_flight # {} THEN on_probe_loss(eng) ELSE eng)

on_range_retransmitted(start, end) ==
    /\ eng' = IF \E p \in in_flight : Covers(p, start, end) THEN on_probe_loss(eng) ELSE eng
    /\ in_flight' = {p \in in_flight : ~Covers(p, start, end)}
    /\ implicit' = {s \in implicit : ~Covers(s, start, end)}

note_data_segment(start, end, size) ==
    /\ implicit' = IF \E s \in implicit : s.size >= size THEN implicit
                   ELSE {[start |-> start, end |-> end, size |-> size]}
    /\ UNCHANGED <<eng, in_flight>>

-----------------------------------------------------------------------------
(* The network *)

(* How far the peer holds the stream without a gap.                         *)
Holds(units) == Cardinality({i \in 0..(Stream - 1) : 0..i \subseteq units})

(* A packet above the path's MTU is dropped, and may be reported with the  *)
(* MTU it met; any other reaches the peer, which acknowledges what it      *)
(* holds, or is lost.                                                      *)
Carry(start, end) ==
    LET size == end - start + Overhead
        units == rcvd \cup start..(end - 1)
    IN  \/ /\ size > path
           /\ UNCHANGED <<rcvd, acks, path>>
           /\ \/ UNCHANGED <<reports, budget>>
              \/ /\ budget > 0
                 /\ reports' = reports \cup {path}
                 /\ budget' = budget - 1
        \/ /\ size <= path
           /\ rcvd' = units
           /\ acks' = acks \cup {Holds(units)}
           /\ UNCHANGED <<path, reports, budget>>
        \/ /\ size <= path /\ budget > 0
           /\ budget' = budget - 1
           /\ UNCHANGED <<rcvd, acks, path, reports>>

PathChanges ==
    /\ budget > 0
    /\ path' \in Paths \ {path}
    /\ budget' = budget - 1
    /\ UNCHANGED <<engine, stream, rcvd, acks, reports>>

ProbeTimerDue ==
    /\ eng.probe_timer = "armed"
    /\ eng' = [eng EXCEPT !.probe_timer = "due"]
    /\ UNCHANGED <<in_flight, implicit, stream, network>>

RaiseTimerDue ==
    /\ eng.raise_timer = "armed"
    /\ eng' = [eng EXCEPT !.raise_timer = "due"]
    /\ UNCHANGED <<in_flight, implicit, stream, network>>

-----------------------------------------------------------------------------
(* The session *)

Init ==
    \E limit \in PeerLimits :
      /\ eng = limit_max(NewEngine(InterfaceMtu, TRUE, Seed), limit)
      /\ in_flight = {} /\ implicit = {}
      /\ una = 0 /\ nxt = 0 /\ smax = 0
      /\ mss = Smaller(Seed, Larger(limit, MinMtu)) - Overhead
      /\ slow = FALSE /\ recover = 0
      /\ rcvd = {} /\ acks = {} /\ path \in Paths /\ reports = {}
      /\ budget = MaxFaults

(* One segment leaves: a probe of the candidate's size when one is due and *)
(* fits, a regular segment otherwise.                                      *)
transmit_data ==
    \E window \in (IF slow THEN {mss} ELSE Windows) :
      LET usable == window - (nxt - una)
          remaining == Stream - nxt
          payload == eng.candidate - Overhead
          feasible == /\ eng.candidate # NoSize
                      /\ payload > mss /\ payload <= usable /\ payload <= remaining
          taken == IF feasible THEN maybe_probe
                   ELSE [size |-> NoSize, engine |-> eng, flying |-> in_flight]
          end == nxt + Smaller(mss, Smaller(usable, remaining))
      IN  /\ usable > 0 /\ remaining > 0
          /\ \/ /\ taken.size # NoSize
                /\ eng' = taken.engine
                /\ in_flight' = taken.flying \cup
                     {[start |-> nxt, end |-> nxt + payload, size |-> taken.size]}
                /\ nxt' = nxt + payload
                /\ UNCHANGED implicit
             \/ /\ taken.size = NoSize
                /\ nxt' = end
                /\ IF nxt < smax
                   THEN on_range_retransmitted(nxt, end)
                   ELSE note_data_segment(nxt, end, end - nxt + Overhead)
          /\ smax' = Larger(smax, nxt')
          /\ Carry(nxt, nxt')
          /\ UNCHANGED <<una, mss, slow, recover>>

(* An acknowledgment moves SND.UNA: the probes and the segment it covers   *)
(* are settled, and the MSS follows the engine both ways.                  *)
process_ack_packet ==
    \E ack \in acks :
      /\ ack > una
      /\ una' = ack
      /\ nxt' = Larger(nxt, ack)
      /\ eng' = check_implicit_confirm(on_snd_una_advance(ack), ack)
      /\ in_flight' = {p \in in_flight : p.end > ack}
      /\ implicit' = {s \in implicit : s.end > ack}
      /\ mss' = IF eng'.current - Overhead >= MinMss THEN eng'.current - Overhead ELSE mss
      /\ acks' = {a \in acks : a > ack}
      /\ slow' = FALSE
      /\ UNCHANGED <<smax, recover, rcvd, path, reports, budget>>

retransmit_packet_timeout ==
    /\ una < smax
    /\ eng' = on_rto_timeout
    /\ in_flight' = {} /\ implicit' = {}
    /\ mss' = Smaller(mss, eng'.current - Overhead)
    /\ nxt' = una
    /\ slow' = TRUE
    /\ UNCHANGED <<una, smax, recover, network>>

(* The peer holds later data, and its duplicate acknowledgments say so.    *)
retransmit_packet_request ==
    /\ una >= recover /\ una < nxt
    /\ Holds(rcvd) = una /\ \E i \in rcvd : i > una
    /\ recover' = smax
    /\ nxt' = una
    /\ UNCHANGED <<engine, una, smax, mss, slow, network>>

(* A packet-too-big report.  Whether a segment in flight is now too large, *)
(* so that the sender walks back to SND.UNA, is left open.                 *)
apply_pmtu_update ==
    \E mtu \in reports :
      LET smaller == Larger(mtu - Overhead, MssFloor)
      IN  /\ reports' = reports \ {mtu}
          /\ mss' = Smaller(mss, smaller)
          /\ eng' = on_classical_pmtu(eng, mtu)
          /\ \/ smaller < mss /\ nxt' = una
             \/ nxt' = nxt
          /\ UNCHANGED <<in_flight, implicit, una, smax, slow, recover, rcvd, acks, path, budget>>

Next ==
    \/ transmit_data
    \/ process_ack_packet
    \/ retransmit_packet_timeout
    \/ retransmit_packet_request
    \/ apply_pmtu_update
    \/ PathChanges
    \/ ProbeTimerDue
    \/ RaiseTimerDue

(* The pump runs whenever there is something to send, an acknowledgment    *)
(* that is not lost arrives, and the retransmission timer is armed while   *)
(* anything is outstanding.                                                *)
Fairness ==
    /\ WF_vars(transmit_data)
    /\ WF_vars(process_ack_packet)
    /\ WF_vars(retransmit_packet_timeout)

Spec == Init /\ [][Next]_vars /\ Fairness

-----------------------------------------------------------------------------
(* The search keeps its bounds in order whatever acknowledgments, losses,  *)
(* timers and router reports do to it, and the session never cuts a        *)
(* segment, nor keeps a probe, above what the interface and the peer take: *)
(* a candidate lies strictly below the upper bound, and a search that is   *)
(* over proposes nothing.                                                  *)
SearchBracket ==
    /\ MinMtu <= eng.ack /\ eng.high <= eng.max
    /\ MinMtu <= eng.current /\ eng.current <= eng.max
    /\ mss + Overhead <= eng.max
    /\ eng.state = "SEARCHING" /\ eng.candidate # NoSize => eng.candidate < eng.high
    /\ eng.state \in {"SEARCH_COMPLETE", "ERROR"} => eng.candidate = NoSize
    /\ \A p \in in_flight : p.size <= eng.max

(* The stream gets through whatever the path's MTU turns into and whether  *)
(* or not a router reports it: probing never leaves the sender cutting     *)
(* segments that no longer fit.                                            *)
DataGetsThrough == <>(una = Stream)
=============================================================================
