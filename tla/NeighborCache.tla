--------------------------- MODULE NeighborCache ---------------------------
(***************************************************************************)
(* The neighbour cache of the stack (pmd_pytcp/lib/neighbor.py): the NUD   *)
(* state machine that the IPv4 ARP cache and the IPv6 ND cache share, with *)
(* its bounded queues of packets waiting for resolution, its maintenance   *)
(* pass and its three-tier garbage collector, together with the            *)
(* lookup-then-send-or-queue step of the Ethernet transmit handler.        *)
(*                                                                         *)
(* Every handler runs to completion on the one event loop, so each is one  *)
(* action.  Time is the age of an entry's state (now - state_changed_at)   *)
(* and its idle time (now - last_used_at), both in ticks and capped.       *)
(***************************************************************************)
EXTENDS Naturals, Sequences, FiniteSets

CONSTANTS
    Address,              \* the addresses being resolved
    Mac,                  \* link-layer addresses
    NoMac,                \* Python None
    MaxPackets,           \* bound: packets handed to the transmit handler
    AgeCap,               \* bound: ages are not told apart beyond this
    ReachableTime,        \* neighbor.reachable_time
    DelayFirstProbeTime,  \* neighbor.delay_first_probe_time
    RetransTimer,         \* neighbor.retrans_timer
    MaxMulticastSolicit,  \* neighbor.max_multicast_solicit
    MaxUnicastSolicit,    \* neighbor.max_unicast_solicit
    UnresQlen,            \* neighbor.unres_qlen
    GcThresh1, GcThresh2, GcThresh3, GcStaleTime  \* neighbor.gc_*

\* The sysctl validators: positive timers and budgets, ordered GC thresholds.
ASSUME KnobsAssumption ==
    /\ {MaxPackets, AgeCap, GcThresh1, GcThresh2, GcThresh3} \subseteq Nat
    /\ {ReachableTime, DelayFirstProbeTime, RetransTimer, MaxMulticastSolicit,
        MaxUnicastSolicit, UnresQlen, GcStaleTime} \subseteq Nat \ {0}
    /\ GcThresh1 <= GcThresh2 /\ GcThresh2 <= GcThresh3
    /\ NoMac \notin Mac

VARIABLES
    entries,   \* _entries; state "NONE" stands for a missing key
    override,  \* _reachable_time_override_s; 0 stands for None
    handed,    \* number of packets handed to the transmit handler so far
    wire       \* per address, the <<packet, mac>> pairs put on the TX ring

vars == <<entries, override, handed, wire>>

NudState == {"NONE", "INCOMPLETE", "REACHABLE", "STALE", "DELAY", "PROBE",
             "FAILED", "PERMANENT"}
Packet == 1..MaxPackets
NeighborEntry == [state : NudState, mac_address : Mac \cup {NoMac},
                  age : 0..AgeCap, probe_count : Nat,
                  queued_packets : Seq(Packet), idle : 0..AgeCap]

Missing == [state |-> "NONE", mac_address |-> NoMac, age |-> 0,
            probe_count |-> 0, queued_packets |-> <<>>, idle |-> 0]

Resolved(state, mac) == [state |-> state, mac_address |-> mac, age |-> 0,
                         probe_count |-> 0, queued_packets |-> <<>>, idle |-> 0]

Present == {a \in Address : entries[a].state # "NONE"}

\* States in which a lookup hands out the cached link-layer address.
Usable == {"REACHABLE", "STALE", "DELAY", "PROBE", "PERMANENT"}
----------------------------------------------------------------------------
(* Handlers on one entry.                                                  *)

Transition(e, new) == [e EXCEPT !.state = new, !.age = 0]

StartResolution(e) ==
    [Transition(e, "INCOMPLETE") EXCEPT !.probe_count = 1, !.mac_address = NoMac]

\* Seeded fault: every lookup restarts the DELAY window.
FindEntryRestartsDelay(e) ==
    IF e.state \in {"NONE", "FAILED"} THEN StartResolution(e)
    ELSE IF e.state \in {"STALE", "DELAY"} THEN Transition(e, "DELAY") ELSE e

\* _find_entry: the entry it leaves behind ...
FindEntry(e) ==
    LET used == [e EXCEPT !.idle = 0]
    IN  CASE e.state \in {"NONE", "FAILED"} -> StartResolution(used)
          [] e.state = "STALE" -> Transition(used, "DELAY")
          [] OTHER -> used

\* ... and the address it returns.
Lookup(e) == IF e.state \in Usable THEN e.mac_address ELSE NoMac

\* Seeded fault: the packet goes in front of the ones that wait.
EnqueuePendingInFront(e, p) ==
    LET q == e.queued_packets
        kept == IF Len(q) >= UnresQlen
                THEN SubSeq(q, Len(q) - UnresQlen + 2, Len(q)) ELSE q
    IN  [e EXCEPT !.queued_packets = <<p>> \o kept]

\* _enqueue_pending: drop the oldest until there is room, then append.
EnqueuePending(e, p) ==
    LET q == e.queued_packets
        kept == IF Len(q) >= UnresQlen
                THEN SubSeq(q, Len(q) - UnresQlen + 2, Len(q)) ELSE q
    IN  [e EXCEPT !.queued_packets = Append(kept, p)]

\* Seeded fault: giving up leaves the packets parked.
FailEntryKeepsQueue(e) == Transition(e, "FAILED")

\* _fail_entry: the queued packets can never be sent any more.
FailEntry(e) == [Transition(e, "FAILED") EXCEPT !.queued_packets = <<>>]

EffectiveReachableTime == IF override # 0 THEN override ELSE ReachableTime

Resolicit(e) == [e EXCEPT !.probe_count = @ + 1, !.age = 0]

\* One entry's share of run_maintenance_once.
Maintain(e) ==
    CASE e.state = "REACHABLE" /\ e.age >= EffectiveReachableTime ->
            Transition(e, "STALE")
      [] e.state = "DELAY" /\ e.age >= DelayFirstProbeTime ->
            [Transition(e, "PROBE") EXCEPT !.probe_count = 1]
      [] e.state = "INCOMPLETE" /\ e.probe_count >= MaxMulticastSolicit ->
            FailEntry(e)
      [] e.state = "PROBE" /\ e.probe_count >= MaxUnicastSolicit ->
            FailEntry(e)
      [] /\ \/ e.state = "INCOMPLETE" /\ e.probe_count < MaxMulticastSolicit
            \/ e.state = "PROBE" /\ e.probe_count < MaxUnicastSolicit
         /\ e.age >= RetransTimer ->
            Resolicit(e)
      [] OTHER -> e
----------------------------------------------------------------------------
(* The garbage collector.  Each tier removes a set of addresses; sorting   *)
(* by age or by idle time with ties in any order.                          *)

\* Seeded faults: collecting static entries; collecting entries that still
\* have packets parked.
EvictableStatic(es, a) ==
    /\ es[a].state # "NONE"
    /\ es[a].state = "FAILED" \/ es[a].queued_packets = <<>>
EvictableQueued(es, a) == es[a].state \notin {"NONE", "PERMANENT"}

Evictable(es, a) ==
    /\ es[a].state \notin {"NONE", "PERMANENT"}
    /\ es[a].state = "FAILED" \/ es[a].queued_packets = <<>>

\* Vs is what is removed from From, largest key first, to bring size entries
\* down to limit (or as far as From allows).
OldestFirst(Vs, From, key, size, limit) ==
    /\ Vs \subseteq From
    /\ \A v \in Vs, w \in From \ Vs : key[v] >= key[w]
    /\ IF size <= limit THEN Vs = {}
       ELSE \/ Cardinality(Vs) = size - limit
            \/ Cardinality(Vs) < size - limit /\ Vs = From

GcPass(es, left) ==
    LET present == {a \in Address : es[a].state # "NONE"}
        failed == {a \in present : es[a].state = "FAILED"}
        size1 == Cardinality(present) - Cardinality(failed)
        stale == {a \in present : /\ es[a].state = "STALE" /\ Evictable(es, a)
                                  /\ es[a].age >= GcStaleTime}
        age == [a \in Address |-> es[a].age]
        idle == [a \in Address |-> es[a].idle]
    IN  \/ Cardinality(present) <= GcThresh1 /\ left = es
        \/ /\ Cardinality(present) > GcThresh1
           /\ \E tier2 \in SUBSET stale :
                /\ OldestFirst(tier2, stale, age, size1, GcThresh2)
                /\ LET size2 == size1 - Cardinality(tier2)
                       rest == {a \in present \ (failed \cup tier2) : Evictable(es, a)}
                   IN  \E tier3 \in SUBSET rest :
                         /\ OldestFirst(tier3, rest, idle, size2, GcThresh3)
                         /\ left = [a \in Address |->
                              IF a \in failed \cup tier2 \cup tier3
                              THEN Missing ELSE es[a]]
----------------------------------------------------------------------------
Init ==
    /\ entries = [a \in Address |-> Missing]
    /\ override = 0
    /\ handed = 0
    /\ wire = [a \in Address |-> <<>>]

\* _phtx_ethernet with an unresolved next hop: look up, then send or park.
Transmit(a) ==
    LET e == FindEntry(entries[a])
        p == handed + 1
    IN  /\ handed < MaxPackets
        /\ handed' = p
        /\ \/ /\ Lookup(e) # NoMac
              /\ wire' = [wire EXCEPT ![a] = Append(@, <<p, Lookup(e)>>)]
              /\ entries' = [entries EXCEPT ![a] = e]
           \/ /\ Lookup(e) = NoMac
              /\ entries' = [entries EXCEPT ![a] = EnqueuePending(e, p)]
              /\ UNCHANGED wire
        /\ UNCHANGED override

\* A lookup that has no packet to send (the DHCPv4 lease cache asks for the
\* gateway's link-layer address).
Resolve(a) ==
    /\ entries' = [entries EXCEPT ![a] = FindEntry(@)]
    /\ UNCHANGED <<override, handed, wire>>

\* _add_entry, driven by a received reply.
AddEntry(a, m) ==
    LET e == entries[a]
        flushed == [i \in 1..Len(e.queued_packets) |-> <<e.queued_packets[i], m>>]
    IN  /\ e.state # "PERMANENT"
        /\ entries' = [entries EXCEPT ![a] =
             IF e.state = "NONE" THEN Resolved("REACHABLE", m)
             ELSE [Transition(e, "REACHABLE") EXCEPT
                     !.mac_address = m, !.probe_count = 0, !.queued_packets = <<>>]]
        /\ wire' = [wire EXCEPT ![a] = @ \o flushed]
        /\ UNCHANGED <<override, handed>>

AddPermanentEntry(a, m) ==
    /\ entries' = [entries EXCEPT ![a] = Resolved("PERMANENT", m)]
    /\ UNCHANGED <<override, handed, wire>>

RemoveEntry(a) ==
    /\ entries' = [entries EXCEPT ![a] = Missing]
    /\ UNCHANGED <<override, handed, wire>>

Flush ==
    /\ entries' = [a \in Address |-> Missing]
    /\ UNCHANGED <<override, handed, wire>>

\* TCP saw an ACK advance SND.UNA.
ConfirmReachability(a) ==
    /\ entries[a].state \in {"STALE", "DELAY", "PROBE"}
    /\ entries' = [entries EXCEPT ![a] =
                     [Transition(@, "REACHABLE") EXCEPT !.probe_count = 0]]
    /\ UNCHANGED <<override, handed, wire>>

SetReachableTimeOverride(t) ==
    /\ override' = t
    /\ UNCHANGED <<entries, handed, wire>>

RunMaintenanceOnce ==
    /\ GcPass([a \in Address |-> Maintain(entries[a])], entries')
    /\ UNCHANGED <<override, handed, wire>>

Older(n) == IF n < AgeCap THEN n + 1 ELSE n

Tick ==
    /\ entries' = [a \in Address |->
         IF entries[a].state = "NONE" THEN Missing
         ELSE [entries[a] EXCEPT !.age = Older(@), !.idle = Older(@)]]
    /\ UNCHANGED <<override, handed, wire>>

Traffic(a) == Transmit(a) \/ Resolve(a) \/ ConfirmReachability(a)

Next ==
    \/ \E a \in Address : Traffic(a)
    \/ \E a \in Address, m \in Mac : AddEntry(a, m) \/ AddPermanentEntry(a, m)
    \/ \E a \in Address : RemoveEntry(a)
    \/ Flush
    \/ \E t \in {0, ReachableTime + 1} : SetReachableTimeOverride(t)
    \/ RunMaintenanceOnce
    \/ Tick

\* The maintenance task and the clock keep going; nothing else is promised.
\* (Weak fairness with the guards spelt out: a pass that would change nothing,
\* or ages that are all at the cap.)
Fairness ==
    /\ \/ []<>GcPass([a \in Address |-> Maintain(entries[a])], entries)
       \/ []<><<RunMaintenanceOnce>>_vars
    /\ \/ []<>(\A a \in Present : entries[a].age = AgeCap /\ entries[a].idle = AgeCap)
       \/ []<><<Tick>>_vars

Spec == Init /\ [][Next]_vars /\ Fairness
----------------------------------------------------------------------------
(* Properties.                                                             *)

\* Every variable has its type; wire only ever carries resolved addresses.
TypeOK ==
    /\ entries \in [Address -> NeighborEntry]
    /\ override \in Nat
    /\ handed \in 0..MaxPackets
    /\ wire \in [Address -> Seq(Packet \X Mac)]

\* A state in which _find_entry hands out the cached address always has one:
\* no sequence of replies, confirmations, failures and restarts makes a
\* lookup return None for an entry the FSM believes usable.
UsableHasMac == \A a \in Address :
    entries[a].state \in Usable => entries[a].mac_address \in Mac

\* Packets wait only behind an unfinished resolution, never more of them than
\* neighbor.unres_qlen: a failed, resolved or static entry pins no frames
\* (the reason _fail_entry clears the queue).
ParkedOnlyWhileResolving == \A a \in Address :
    /\ Len(entries[a].queued_packets) <= UnresQlen
    /\ entries[a].queued_packets # <<>> => entries[a].state = "INCOMPLETE"

\* The solicits of one resolution or probe round stay within the budget.
SolicitBudget == \A a \in Address :
    /\ entries[a].state = "INCOMPLETE" => entries[a].probe_count \in 1..MaxMulticastSolicit
    /\ entries[a].state = "PROBE" => entries[a].probe_count \in 1..MaxUnicastSolicit

\* Packets for one next hop leave in the order they were handed over, each
\* at most once: the flush of a resolved queue is never overtaken by, and
\* never repeats, a packet sent directly.
InOrderAtMostOnce == \A a \in Address :
    LET sent == [i \in 1..Len(wire[a]) |-> wire[a][i][1]] \o entries[a].queued_packets
    IN  \A i, j \in 1..Len(sent) : i < j => sent[i] < sent[j]

Operator == Flush \/ \E a \in Address :
                RemoveEntry(a) \/ \E m \in Mac : AddPermanentEntry(a, m)

\* Only the operator touches a static neighbour: replies, confirmations,
\* ageing and garbage collection leave a PERMANENT entry as it is.
StaticEntriesStand == [][
    ~Operator => \A a \in Address : entries[a].state = "PERMANENT" =>
        entries'[a].state = "PERMANENT" /\ entries'[a].mac_address = entries[a].mac_address
    ]_vars

\* A maintenance pass never costs a parked packet its chance: while the
\* solicit budget is not used up the queue survives the pass untouched.
MaintenanceKeepsParked == [][
    RunMaintenanceOnce => \A a \in Address :
        entries[a].state = "INCOMPLETE" /\ entries[a].probe_count < MaxMulticastSolicit
        => entries[a].queued_packets = <<>>
           \/ entries'[a].queued_packets = entries[a].queued_packets
    ]_vars

\* Resolution always comes to an end (answered, failed or removed), and so do
\* the grace period of DELAY, however much traffic uses the entry, and the
\* probing that follows it.
TransientStatesEnd ==
    \A a \in Address : \A s \in {"INCOMPLETE", "DELAY", "PROBE"} :
        entries[a].state = s ~> entries[a].state # s
=============================================================================
