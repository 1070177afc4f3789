------------------------ MODULE NeighborCacheProofs ------------------------
(***************************************************************************)
(* Proofs about NeighborCache, for any number of neighbours and packets    *)
(* and any values of the neighbor.* sysctls that their validators accept.  *)
(***************************************************************************)
EXTENDS NeighborCache, TLAPS

\* What every handler keeps true of one entry; the three invariants are its
\* consequences, and none of them is inductive without the others.
EntryOK(e) ==
    /\ e \in NeighborEntry
    /\ e.state \in Usable => e.mac_address \in Mac
    /\ e.state = "INCOMPLETE" =>
         e.mac_address = NoMac /\ e.probe_count \in 1..MaxMulticastSolicit
    /\ e.state = "PROBE" => e.probe_count \in 1..MaxUnicastSolicit
    /\ Len(e.queued_packets) <= UnresQlen
    /\ e.queued_packets # <<>> => e.state = "INCOMPLETE"

IInv ==
    /\ TypeOK
    /\ \A a \in Address : EntryOK(entries[a])

LEMMA KnobTypes ==
    /\ MaxPackets \in Nat /\ AgeCap \in Nat
    /\ UnresQlen \in Nat \ {0}
    /\ MaxMulticastSolicit \in Nat \ {0} /\ MaxUnicastSolicit \in Nat \ {0}
    /\ ReachableTime \in Nat /\ NoMac \notin Mac
    /\ 0 \in 0..AgeCap
BY KnobsAssumption

\* A missing key, seen as an entry, satisfies the entry invariant.
LEMMA MissingOK == EntryOK(Missing)
BY KnobTypes DEF EntryOK, Missing, NeighborEntry, NudState, Usable, Packet

LEMMA ResolvedOK ==
    ASSUME NEW m \in Mac, NEW s \in {"REACHABLE", "PERMANENT"}
    PROVE  EntryOK(Resolved(s, m))
BY KnobTypes DEF EntryOK, Resolved, NeighborEntry, NudState, Usable, Packet

\* _transition changes the state and restarts its age, and nothing else.
LEMMA TransitionFields ==
    ASSUME NEW e \in NeighborEntry, NEW s \in NudState
    PROVE  /\ Transition(e, s) \in NeighborEntry
           /\ Transition(e, s).state = s
           /\ Transition(e, s).mac_address = e.mac_address
           /\ Transition(e, s).probe_count = e.probe_count
           /\ Transition(e, s).queued_packets = e.queued_packets
BY KnobTypes, Zenon DEF Transition, NeighborEntry

\* A given-up resolution leaves an entry without packets.
LEMMA FailEntryOK ==
    ASSUME NEW e \in NeighborEntry
    PROVE  EntryOK(FailEntry(e))
<1> DEFINE t == Transition(e, "FAILED")
<1>1. t \in NeighborEntry /\ t.state = "FAILED"
  BY TransitionFields DEF NudState
<1>2. FailEntry(e) = [t EXCEPT !.queued_packets = <<>>]
  BY DEF FailEntry
<1> HIDE DEF t
<1>3. <<>> \in Seq(Packet) /\ Len(<<>>) <= UnresQlen
  BY KnobTypes
<1> QED BY <1>1, <1>2, <1>3, Zenon DEF EntryOK, NeighborEntry, Usable

\* _find_entry keeps the entry invariant, and when it returns None the entry
\* it leaves behind is being resolved.
LEMMA FindEntryOK ==
    ASSUME NEW e, EntryOK(e)
    PROVE  /\ EntryOK(FindEntry(e))
           /\ Lookup(FindEntry(e)) = NoMac => FindEntry(e).state = "INCOMPLETE"
           /\ Lookup(FindEntry(e)) # NoMac => Lookup(FindEntry(e)) \in Mac
<1>1. CASE e.state \in {"NONE", "FAILED"}
  <2> DEFINE t == Transition([e EXCEPT !.idle = 0], "INCOMPLETE")
  <2>1. t \in NeighborEntry /\ t.state = "INCOMPLETE" /\ t.queued_packets = e.queued_packets
    <3>1. e \in NeighborEntry /\ 0 \in 0..AgeCap BY KnobTypes DEF EntryOK
    <3>2. /\ [e EXCEPT !.idle = 0] \in NeighborEntry
          /\ [e EXCEPT !.idle = 0].queued_packets = e.queued_packets
      BY <3>1 DEF NeighborEntry
    <3> QED BY <3>2, TransitionFields, Zenon DEF NudState
  <2>2. FindEntry(e) = [t EXCEPT !.probe_count = 1, !.mac_address = NoMac]
    BY <1>1 DEF FindEntry, StartResolution
  <2> HIDE DEF t
  <2>3. 1 \in Nat /\ 1 \in 1..MaxMulticastSolicit
    BY KnobTypes
  <2> QED BY <2>1, <2>2, <2>3, KnobTypes, Zenon DEF EntryOK, Lookup, NeighborEntry, Usable
<1>2. CASE e.state = "STALE"
  BY <1>2, KnobTypes, Zenon DEF EntryOK, FindEntry, Transition, Lookup,
     NeighborEntry, NudState, Usable, Packet
<1>3. CASE e.state \notin {"NONE", "FAILED", "STALE"}
  BY <1>3, KnobTypes, SMTT(30) DEF EntryOK, FindEntry, Lookup, NeighborEntry, NudState, Usable, Packet
<1> QED BY <1>1, <1>2, <1>3

\* Parking a packet behind a resolution respects the queue bound.
LEMMA EnqueuePendingOK ==
    ASSUME NEW e, EntryOK(e), e.state = "INCOMPLETE", NEW p \in Packet
    PROVE  EntryOK(EnqueuePending(e, p))
<1> DEFINE q == e.queued_packets
           kept == IF Len(q) >= UnresQlen
                   THEN SubSeq(q, Len(q) - UnresQlen + 2, Len(q)) ELSE q
<1>1. q \in Seq(Packet) /\ Len(q) \in Nat /\ Len(q) <= UnresQlen
  BY DEF EntryOK, NeighborEntry
<1>2. kept \in Seq(Packet) /\ Len(kept) + 1 <= UnresQlen
  <2>1. CASE Len(q) >= UnresQlen
    <3>1. Len(q) = UnresQlen
      BY <1>1, <2>1, KnobTypes
    <3>2. kept = SubSeq(q, 2, Len(q))
      BY <2>1, <3>1, KnobTypes
    <3> QED BY <1>1, <3>1, <3>2, KnobTypes
  <2>2. CASE Len(q) < UnresQlen
    <3>1. kept = q
      BY <1>1, <2>2, KnobTypes
    <3> QED BY <1>1, <2>2, <3>1, KnobTypes
  <2> QED BY <1>1, <2>1, <2>2, KnobTypes
<1>3. Append(kept, p) \in Seq(Packet) /\ Len(Append(kept, p)) <= UnresQlen
  <2> HIDE DEF kept
  <2> QED BY <1>2
<1>4. EnqueuePending(e, p) = [e EXCEPT !.queued_packets = Append(kept, p)]
  BY DEF EnqueuePending
<1> HIDE DEF kept
<1> QED BY <1>3, <1>4, Zenon DEF EntryOK, NeighborEntry

\* One entry's share of a maintenance pass keeps the entry invariant.
LEMMA MaintainOK ==
    ASSUME NEW e, EntryOK(e)
    PROVE  EntryOK(Maintain(e))
<1>0. e \in NeighborEntry /\ {"STALE", "PROBE"} \subseteq NudState
  BY DEF EntryOK, NudState
<1>1. EntryOK(FailEntry(e))
  BY <1>0, FailEntryOK
<1>2. CASE e.state = "REACHABLE"
  BY <1>0, <1>2, TransitionFields DEF Maintain, EntryOK, Usable
<1>3. CASE e.state = "DELAY"
  <2>1. \/ Maintain(e) = e
        \/ Maintain(e) = [Transition(e, "PROBE") EXCEPT !.probe_count = 1]
    BY <1>3 DEF Maintain
  <2>2. 1 \in Nat /\ 1 \in 1..MaxUnicastSolicit
    BY KnobTypes
  <2> QED BY <1>0, <1>3, <2>1, <2>2, TransitionFields DEF EntryOK, Usable, NeighborEntry
<1>4. ASSUME e.state \in {"INCOMPLETE", "PROBE"},
             e.state = "INCOMPLETE" => e.probe_count < MaxMulticastSolicit,
             e.state = "PROBE" => e.probe_count < MaxUnicastSolicit
      PROVE  EntryOK(Resolicit(e))
  <2>1. /\ e.probe_count + 1 \in Nat
        /\ e.state = "INCOMPLETE" => e.probe_count + 1 \in 1..MaxMulticastSolicit
        /\ e.state = "PROBE" => e.probe_count + 1 \in 1..MaxUnicastSolicit
    BY <1>0, <1>4, KnobTypes DEF NeighborEntry
  <2> QED BY <1>4, <2>1, KnobTypes, Zenon DEF Resolicit, EntryOK, NeighborEntry, Usable
<1>5. CASE e.state = "INCOMPLETE"
  <2>1. \/ Maintain(e) = e
        \/ Maintain(e) = FailEntry(e)
        \/ Maintain(e) = Resolicit(e) /\ e.probe_count < MaxMulticastSolicit
    BY <1>5 DEF Maintain
  <2> QED BY <1>1, <1>4, <1>5, <2>1
<1>6. CASE e.state = "PROBE"
  <2>1. \/ Maintain(e) = e
        \/ Maintain(e) = FailEntry(e)
        \/ Maintain(e) = Resolicit(e) /\ e.probe_count < MaxUnicastSolicit
    BY <1>6 DEF Maintain
  <2> QED BY <1>1, <1>4, <1>6, <2>1
<1>7. CASE e.state \notin {"REACHABLE", "DELAY", "INCOMPLETE", "PROBE"}
  BY <1>7 DEF Maintain
<1> QED BY <1>2, <1>3, <1>5, <1>6, <1>7

\* The collector replaces entries by missing ones and changes no other.
LEMMA GcPassOnlyRemoves ==
    ASSUME NEW es, NEW left, es \in [Address -> NeighborEntry], GcPass(es, left)
    PROVE  /\ left \in [Address -> NeighborEntry]
           /\ \A a \in Address : left[a] = es[a] \/ left[a] = Missing
<1>1. Missing \in NeighborEntry
  BY MissingOK DEF EntryOK
<1> QED BY <1>1, Zenon DEF GcPass

LEMMA InitIInv == Init => IInv
<1> SUFFICES ASSUME Init PROVE IInv
  OBVIOUS
<1>1. \A a \in Address : entries[a] = Missing
  BY DEF Init
<1>2. Missing \in NeighborEntry
  BY MissingOK DEF EntryOK
<1>3. TypeOK
  BY <1>2, KnobTypes DEF Init, TypeOK, Packet
<1> QED BY <1>1, <1>3, MissingOK DEF IInv

\* Every handler keeps the entry invariant at every address.
LEMMA NextIInv == IInv /\ [Next]_vars => IInv'
<1> SUFFICES ASSUME IInv, [Next]_vars PROVE IInv'
  OBVIOUS
<1> USE DEF IInv
\* It is enough to look at the entries, once the rest keeps its type.
<1>0. ASSUME entries' \in [Address -> NeighborEntry],
             \A a \in Address : EntryOK(entries'[a]),
             override' \in Nat, handed' \in 0..MaxPackets,
             wire' \in [Address -> Seq(Packet \X Mac)]
      PROVE  IInv'
  BY <1>0 DEF TypeOK
<1>1. ASSUME NEW a \in Address, NEW e, EntryOK(e),
             entries' = [entries EXCEPT ![a] = e]
      PROVE  entries' \in [Address -> NeighborEntry] /\ \A b \in Address : EntryOK(entries'[b])
  <2>1. e \in NeighborEntry
    BY <1>1 DEF EntryOK
  <2> QED BY <1>1, <2>1 DEF TypeOK
<1>2. ASSUME NEW a \in Address, Transmit(a) PROVE IInv'
  <2> DEFINE e == FindEntry(entries[a])
             p == handed + 1
  <2>1. /\ EntryOK(e)
        /\ Lookup(e) = NoMac => e.state = "INCOMPLETE"
        /\ Lookup(e) # NoMac => Lookup(e) \in Mac
    BY FindEntryOK
  <2>2. p \in Packet /\ handed' \in 0..MaxPackets /\ override' \in Nat
    BY <1>2, KnobTypes DEF Transmit, TypeOK, Packet
  <2>3. CASE Lookup(e) # NoMac
    <3>1. /\ entries' = [entries EXCEPT ![a] = e]
          /\ wire' = [wire EXCEPT ![a] = Append(@, <<p, Lookup(e)>>)]
      BY <1>2, <2>3 DEF Transmit
    <3>2. <<p, Lookup(e)>> \in Packet \X Mac
      BY <2>1, <2>2, <2>3
    <3> HIDE DEF e, p
    <3>3. wire' \in [Address -> Seq(Packet \X Mac)]
      BY <3>1, <3>2 DEF TypeOK
    <3> QED BY <1>0, <1>1, <2>1, <2>2, <3>1, <3>3, Zenon
  <2>4. CASE Lookup(e) = NoMac
    <3>1. entries' = [entries EXCEPT ![a] = EnqueuePending(e, p)] /\ wire' = wire
      BY <1>2, <2>4 DEF Transmit
    <3>2. EntryOK(EnqueuePending(e, p))
      BY <2>1, <2>2, <2>4, EnqueuePendingOK
    <3> QED BY <1>0, <1>1, <2>2, <3>1, <3>2, Zenon DEF TypeOK
  <2> QED BY <2>3, <2>4
<1>3. ASSUME NEW a \in Address, Resolve(a) PROVE IInv'
  <2>1. EntryOK(FindEntry(entries[a]))
    BY FindEntryOK
  <2>2. entries' = [entries EXCEPT ![a] = FindEntry(entries[a])]
    BY <1>3 DEF Resolve, TypeOK
  <2> QED BY <1>0, <1>1, <1>3, <2>1, <2>2, Zenon DEF Resolve, TypeOK
<1>4. ASSUME NEW a \in Address, NEW m \in Mac, AddEntry(a, m) PROVE IInv'
  <2> DEFINE e == entries[a]
             t == Transition(e, "REACHABLE")
             new == IF e.state = "NONE" THEN Resolved("REACHABLE", m)
                    ELSE [t EXCEPT !.mac_address = m, !.probe_count = 0,
                                   !.queued_packets = <<>>]
             flushed == [i \in 1..Len(e.queued_packets) |-> <<e.queued_packets[i], m>>]
  <2>1. t \in NeighborEntry /\ t.state = "REACHABLE"
    BY TransitionFields DEF TypeOK, NudState
  <2>2. EntryOK(new)
    <3>1. EntryOK(Resolved("REACHABLE", m))
      BY ResolvedOK
    <3>2. <<>> \in Seq(Packet) /\ Len(<<>>) <= UnresQlen
      BY KnobTypes
    <3> HIDE DEF t
    <3> QED BY <2>1, <3>1, <3>2, Zenon DEF EntryOK, NeighborEntry, Usable
  <2>3. flushed \in Seq(Packet \X Mac)
    <3>1. e.queued_packets \in Seq(Packet)
      BY DEF TypeOK, NeighborEntry
    <3> QED BY <3>1
  <2>4. entries' = [entries EXCEPT ![a] = new] /\ wire' = [wire EXCEPT ![a] = @ \o flushed]
    BY <1>4 DEF AddEntry
  <2> HIDE DEF new, flushed
  <2>5. wire' \in [Address -> Seq(Packet \X Mac)]
    BY <2>3, <2>4 DEF TypeOK
  <2> QED BY <1>0, <1>1, <1>4, <2>2, <2>4, <2>5, Zenon DEF AddEntry, TypeOK
<1>5. ASSUME NEW a \in Address, NEW m \in Mac, AddPermanentEntry(a, m) PROVE IInv'
  <2>1. EntryOK(Resolved("PERMANENT", m))
    BY ResolvedOK
  <2> QED BY <1>0, <1>1, <1>5, <2>1, Zenon DEF AddPermanentEntry, TypeOK
<1>6. ASSUME NEW a \in Address, RemoveEntry(a) PROVE IInv'
  BY <1>0, <1>1, <1>6, MissingOK, Zenon DEF RemoveEntry, TypeOK
<1>7. CASE Flush
  <2>1. Missing \in NeighborEntry
    BY MissingOK DEF EntryOK
  <2> QED BY <1>0, <1>7, <2>1, MissingOK DEF Flush, TypeOK
<1>8. ASSUME NEW a \in Address, ConfirmReachability(a) PROVE IInv'
  <2> DEFINE t == Transition(entries[a], "REACHABLE")
  <2>1. /\ t \in NeighborEntry /\ t.state = "REACHABLE"
        /\ t.mac_address = entries[a].mac_address
        /\ t.queued_packets = entries[a].queued_packets
    BY TransitionFields DEF TypeOK, NudState
  <2>2. entries' = [entries EXCEPT ![a] = [t EXCEPT !.probe_count = 0]]
    BY <1>8 DEF ConfirmReachability, TypeOK
  <2>3. entries[a].mac_address \in Mac /\ entries[a].queued_packets = <<>>
    BY <1>8 DEF ConfirmReachability, EntryOK, Usable
  <2>4. <<>> \in Seq(Packet) /\ Len(<<>>) <= UnresQlen
    BY KnobTypes
  <2> HIDE DEF t
  <2>5. EntryOK([t EXCEPT !.probe_count = 0])
    BY <2>1, <2>3, <2>4 DEF EntryOK, NeighborEntry, Usable
  <2> QED BY <1>0, <1>1, <1>8, <2>2, <2>5, Zenon DEF ConfirmReachability, TypeOK
<1>9. ASSUME NEW t \in {0, ReachableTime + 1}, SetReachableTimeOverride(t) PROVE IInv'
  BY <1>0, <1>9, KnobTypes DEF SetReachableTimeOverride, TypeOK
<1>10. CASE RunMaintenanceOnce
  <2> DEFINE es == [a \in Address |-> Maintain(entries[a])]
  <2>1. \A a \in Address : EntryOK(es[a])
    BY MaintainOK
  <2>2. es \in [Address -> NeighborEntry]
    BY <2>1 DEF EntryOK
  <2>3. GcPass(es, entries')
    BY <1>10 DEF RunMaintenanceOnce
  <2> HIDE DEF es
  <2>4. /\ entries' \in [Address -> NeighborEntry]
        /\ \A a \in Address : entries'[a] = es[a] \/ entries'[a] = Missing
    BY <2>2, <2>3, GcPassOnlyRemoves
  <2>5. \A a \in Address : EntryOK(entries'[a])
    BY <2>1, <2>4, MissingOK
  <2> QED BY <1>0, <1>10, <2>4, <2>5 DEF RunMaintenanceOnce, TypeOK
<1>11. CASE Tick
  <2>1. ASSUME NEW a \in Address
        PROVE  EntryOK(IF entries[a].state = "NONE" THEN Missing
                       ELSE [entries[a] EXCEPT !.age = Older(@), !.idle = Older(@)])
    <3>1. Older(entries[a].age) \in 0..AgeCap /\ Older(entries[a].idle) \in 0..AgeCap
      BY KnobTypes DEF Older, TypeOK, NeighborEntry
    <3>2. EntryOK(entries[a])
      OBVIOUS
    <3>3. CASE entries[a].state # "NONE"
      <4> DEFINE t == [entries[a] EXCEPT !.age = Older(@), !.idle = Older(@)]
      <4>1. entries[a] \in NeighborEntry BY <3>2 DEF EntryOK
      <4>2. /\ t \in NeighborEntry /\ t.state = entries[a].state
            /\ t.mac_address = entries[a].mac_address /\ t.probe_count = entries[a].probe_count
            /\ t.queued_packets = entries[a].queued_packets
        BY <4>1, <3>1, Zenon DEF NeighborEntry
      <4> HIDE DEF t
      <4>3. EntryOK(t) BY <4>2, <3>2 DEF EntryOK
      <4> QED BY <4>3, <3>3 DEF t
    <3> QED BY <3>3, MissingOK
  <2>2. \A a \in Address : EntryOK(entries'[a])
    BY <1>11, <2>1, Zenon DEF Tick
  <2>3. entries' \in [Address -> NeighborEntry]
    BY <1>11, <2>1, Zenon DEF Tick, EntryOK
  <2> QED BY <1>0, <1>11, <2>2, <2>3, Zenon DEF Tick, TypeOK
<1>12. CASE UNCHANGED vars
  BY <1>0, <1>12 DEF vars, TypeOK
<1> QED BY <1>2, <1>3, <1>4, <1>5, <1>6, <1>7, <1>8, <1>9, <1>10, <1>11, <1>12 DEF Next, Traffic

\* Every variable keeps its type.
THEOREM TypeCorrect == Spec => []TypeOK
<1>1. IInv => TypeOK
  BY DEF IInv
<1> QED BY <1>1, InitIInv, NextIInv, PTL DEF Spec

\* Whatever the order of replies, confirmations, lookups, maintenance passes
\* and operator calls: usable entries have an address, packets wait only behind
\* an unfinished resolution and within the queue bound, and no resolution or
\* probe round exceeds its solicit budget.
THEOREM Safety == Spec => [](UsableHasMac /\ ParkedOnlyWhileResolving /\ SolicitBudget)
<1>1. IInv => UsableHasMac /\ ParkedOnlyWhileResolving /\ SolicitBudget
  BY DEF IInv, EntryOK, UsableHasMac, ParkedOnlyWhileResolving, SolicitBudget
<1> QED BY <1>1, InitIInv, NextIInv, PTL DEF Spec

\* The collector never removes a static entry or one with packets waiting.
LEMMA GcPassKeeps ==
    ASSUME NEW es, NEW left, GcPass(es, left), NEW a \in Address,
           \/ es[a].state = "PERMANENT"
           \/ es[a].state \notin {"NONE", "FAILED"} /\ es[a].queued_packets # <<>>
    PROVE  left[a] = es[a]
BY Zenon DEF GcPass, OldestFirst, Evictable

\* Only the operator touches a static neighbour: whatever is received,
\* confirmed, looked up, aged or collected, a PERMANENT entry keeps its address.
THEOREM StaticStands == Spec => StaticEntriesStand
<1>1. ASSUME IInv, Next, ~Operator, NEW a \in Address, entries[a].state = "PERMANENT"
      PROVE  entries'[a].state = "PERMANENT" /\ entries'[a].mac_address = entries[a].mac_address
  <2> DEFINE Kept(e) == e.state = "PERMANENT" /\ e.mac_address = entries[a].mac_address
  <2>0. entries \in [Address -> NeighborEntry] /\ EntryOK(entries[a])
    BY <1>1 DEF IInv, TypeOK
  <2>1. FindEntry(entries[a]) = [entries[a] EXCEPT !.idle = 0]
    BY <1>1 DEF FindEntry
  <2>2. Kept(FindEntry(entries[a])) /\ Lookup(FindEntry(entries[a])) # NoMac
    BY <1>1, <2>0, <2>1, KnobTypes DEF NeighborEntry, Lookup, Usable, EntryOK
  <2>3. ASSUME NEW b \in Address, Transmit(b) PROVE Kept(entries'[a])
    BY <1>1, <2>0, <2>2, <2>3 DEF Transmit
  <2>4. ASSUME NEW b \in Address, Resolve(b) PROVE Kept(entries'[a])
    BY <1>1, <2>0, <2>2, <2>4 DEF Resolve
  <2>5. ASSUME NEW b \in Address, ConfirmReachability(b) PROVE Kept(entries'[a])
    BY <1>1, <2>0, <2>5 DEF ConfirmReachability
  <2>6. ASSUME NEW b \in Address, NEW m \in Mac, AddEntry(b, m) PROVE Kept(entries'[a])
    BY <1>1, <2>0, <2>6 DEF AddEntry
  <2>7. CASE RunMaintenanceOnce
    <3> DEFINE es == [b \in Address |-> Maintain(entries[b])]
    <3>1. es[a] = entries[a]
      BY <1>1 DEF Maintain
    <3>2. GcPass(es, entries')
      BY <2>7 DEF RunMaintenanceOnce
    <3> HIDE DEF es
    <3> QED BY <1>1, <3>1, <3>2, GcPassKeeps
  <2>8. CASE Tick
    BY <1>1, <2>0, <2>8, Zenon DEF Tick, NeighborEntry
  <2>9. CASE \E t \in {0, ReachableTime + 1} : SetReachableTimeOverride(t)
    BY <1>1, <2>9 DEF SetReachableTimeOverride
  <2> QED BY <1>1, <2>3, <2>4, <2>5, <2>6, <2>7, <2>8, <2>9 DEF Next, Traffic, Operator
<1>2. IInv /\ [Next]_vars => [~Operator => \A a \in Address : entries[a].state = "PERMANENT" =>
         entries'[a].state = "PERMANENT" /\ entries'[a].mac_address = entries[a].mac_address]_vars
  BY <1>1
<1> QED BY <1>2, InitIInv, NextIInv, PTL DEF Spec, StaticEntriesStand

\* A maintenance pass leaves the queue of a resolution that still has solicits
\* to send exactly as it is.
THEOREM ParkedSurvive == Spec => MaintenanceKeepsParked
<1>1. ASSUME IInv, RunMaintenanceOnce, NEW a \in Address,
             entries[a].state = "INCOMPLETE", entries[a].probe_count < MaxMulticastSolicit,
             entries[a].queued_packets # <<>>
      PROVE  entries'[a].queued_packets = entries[a].queued_packets
  <2> DEFINE es == [b \in Address |-> Maintain(entries[b])]
  <2>1. entries[a] \in NeighborEntry
    BY <1>1 DEF IInv, TypeOK
  <2>2. Maintain(entries[a]) = entries[a] \/ Maintain(entries[a]) = Resolicit(entries[a])
    BY <1>1, <2>1, KnobTypes DEF Maintain, NeighborEntry
  <2>3. /\ es[a].state = "INCOMPLETE"
        /\ es[a].queued_packets = entries[a].queued_packets
    BY <1>1, <2>1, <2>2, Zenon DEF Resolicit, NeighborEntry
  <2>4. GcPass(es, entries')
    BY <1>1 DEF RunMaintenanceOnce
  <2> HIDE DEF es
  <2> QED BY <1>1, <2>3, <2>4, GcPassKeeps
<1>2. IInv => [RunMaintenanceOnce => \A a \in Address :
         entries[a].state = "INCOMPLETE" /\ entries[a].probe_count < MaxMulticastSolicit
         => entries[a].queued_packets = <<>>
            \/ entries'[a].queued_packets = entries[a].queued_packets]_vars
  BY <1>1
<1> QED BY <1>2, InitIInv, NextIInv, PTL DEF Spec, MaintenanceKeepsParked

-----------------------------------------------------------------------------
(* The order in which packets leave.  The packets sent to an address, then *)
(* the ones parked for it, were handed over in that order and none of them *)
(* is newer than the last one handed over.                                 *)

InOrder(sent, parked, last) ==
    /\ \A i, j \in 1..Len(sent) : i < j => sent[i][1] < sent[j][1]
    /\ \A i, j \in 1..Len(parked) : i < j => parked[i] < parked[j]
    /\ \A i \in 1..Len(sent), j \in 1..Len(parked) : sent[i][1] < parked[j]
    /\ \A i \in 1..Len(sent) : sent[i][1] <= last
    /\ \A j \in 1..Len(parked) : parked[j] <= last

OrderInv == \A a \in Address : InOrder(wire[a], entries[a].queued_packets, handed)

\* Dropping the parked packets leaves the rest in order.
LEMMA InOrderDrop ==
    ASSUME NEW sent, NEW parked, NEW last, InOrder(sent, parked, last)
    PROVE  InOrder(sent, <<>>, last)
<1>1. Len(<<>>) = 0
  OBVIOUS
<1> QED BY <1>1 DEF InOrder

\* A packet handed over for another address changes nothing here.
LEMMA InOrderLater ==
    ASSUME NEW sent \in Seq(Packet \X Mac), NEW parked \in Seq(Packet), NEW last \in Nat,
           InOrder(sent, parked, last)
    PROVE  InOrder(sent, parked, last + 1)
<1>1. \A i \in 1..Len(sent) : sent[i][1] \in Nat
  BY KnobTypes DEF Packet
<1>2. \A j \in 1..Len(parked) : parked[j] \in Nat
  BY KnobTypes DEF Packet
<1> QED BY <1>1, <1>2 DEF InOrder

\* A packet sent straight away follows everything sent before.
LEMMA InOrderSend ==
    ASSUME NEW sent \in Seq(Packet \X Mac), NEW last \in Nat, NEW m,
           InOrder(sent, <<>>, last), last + 1 \in Packet
    PROVE  InOrder(Append(sent, <<last + 1, m>>), <<>>, last + 1)
<1> DEFINE new == Append(sent, <<last + 1, m>>)
<1>1. /\ Len(new) = Len(sent) + 1 /\ Len(sent) \in Nat
      /\ \A i \in 1..Len(sent) : new[i] = sent[i]
      /\ new[Len(sent) + 1] = <<last + 1, m>>
  OBVIOUS
<1>2. \A i \in 1..Len(sent) : sent[i][1] \in Nat /\ sent[i][1] <= last
  BY KnobTypes DEF Packet, InOrder
<1>3. new[Len(sent) + 1][1] = last + 1
  BY <1>1
<1> HIDE DEF new
<1>4. \A i \in 1..Len(new) : new[i][1] <= last + 1
  BY <1>1, <1>2, <1>3
<1>5. \A i, j \in 1..Len(new) : i < j => new[i][1] < new[j][1]
  <2> SUFFICES ASSUME NEW i \in 1..Len(new), NEW j \in 1..Len(new), i < j
               PROVE  new[i][1] < new[j][1]
    OBVIOUS
  <2>1. i \in 1..Len(sent) /\ new[i] = sent[i]
    BY <1>1
  <2>2. CASE j = Len(sent) + 1
    BY <1>2, <1>3, <2>1, <2>2
  <2>3. CASE j # Len(sent) + 1
    <3>1. j \in 1..Len(sent) /\ new[j] = sent[j]
      BY <1>1, <2>3
    <3> QED BY <2>1, <3>1 DEF InOrder
  <2> QED BY <2>2, <2>3
<1>6. Len(<<>>) = 0
  OBVIOUS
<1> QED BY <1>4, <1>5, <1>6 DEF InOrder, new

\* Parking the next packet, with the oldest ones dropped or not, keeps order.
LEMMA InOrderPark ==
    ASSUME NEW e, EntryOK(e), e.state = "INCOMPLETE", NEW sent \in Seq(Packet \X Mac),
           NEW last \in Nat, InOrder(sent, e.queued_packets, last), last + 1 \in Packet
    PROVE  InOrder(sent, EnqueuePending(e, last + 1).queued_packets, last + 1)
<1> DEFINE q == e.queued_packets
           from == IF Len(q) >= UnresQlen THEN 1 ELSE 0
           kept == IF Len(q) >= UnresQlen
                   THEN SubSeq(q, Len(q) - UnresQlen + 2, Len(q)) ELSE q
           new == Append(kept, last + 1)
<1>1. q \in Seq(Packet) /\ Len(q) \in Nat /\ Len(q) <= UnresQlen
  BY DEF EntryOK, NeighborEntry
<1>2. /\ from \in Nat /\ kept \in Seq(Packet) /\ Len(kept) \in Nat
      /\ Len(kept) = Len(q) - from
      /\ \A i \in 1..Len(kept) : kept[i] = q[i + from]
  <2>1. CASE Len(q) >= UnresQlen
    <3>1. Len(q) = UnresQlen
      BY <1>1, <2>1, KnobTypes
    <3>2. kept = SubSeq(q, 2, Len(q)) /\ from = 1
      BY <2>1, <3>1, KnobTypes
    <3> HIDE DEF kept, from, q
    <3> QED BY <1>1, <3>1, <3>2, KnobTypes
  <2>2. CASE Len(q) < UnresQlen
    <3>1. kept = q /\ from = 0
      BY <1>1, <2>2, KnobTypes
    <3> HIDE DEF kept, from, q
    <3> QED BY <1>1, <3>1
  <2> QED BY <1>1, <2>1, <2>2, KnobTypes
<1>3. EnqueuePending(e, last + 1).queued_packets = new
  <2>1. EnqueuePending(e, last + 1) = [e EXCEPT !.queued_packets = new]
    BY DEF EnqueuePending
  <2> HIDE DEF new
  <2> QED BY <2>1, Zenon DEF EntryOK, NeighborEntry
<1> HIDE DEF kept, from
<1>4. /\ Len(new) = Len(kept) + 1
      /\ \A i \in 1..Len(kept) : new[i] = kept[i]
      /\ new[Len(kept) + 1] = last + 1
  <2>1. Len(new) = Len(kept) + 1
    <3>1. \A s \in Seq(Packet) : Len(Append(s, last + 1)) = Len(s) + 1
      OBVIOUS
    <3> QED BY <1>2, <3>1, Zenon
  <2>2. \A i \in 1..Len(kept) : new[i] = kept[i]
    BY <1>2, SMTT(20)
  <2>3. new[Len(kept) + 1] = last + 1
    BY <1>2, SMTT(20)
  <2> QED BY <2>1, <2>2, <2>3
<1> HIDE DEF new, q
<1>5. \A i \in 1..Len(kept) :
         /\ new[i] = q[i + from] /\ i + from \in 1..Len(q)
         /\ new[i] \in Nat /\ new[i] <= last
  <2> TAKE i \in 1..Len(kept)
  <2>1. new[i] = q[i + from] /\ i + from \in 1..Len(q)
    BY <1>1, <1>2, <1>4
  <2>2. q[i + from] \in Nat
    BY <1>1, <2>1, KnobTypes DEF Packet
  <2>3. q[i + from] <= last
    BY <2>1 DEF InOrder, q
  <2> QED BY <2>1, <2>2, <2>3
<1>6. \A i \in 1..Len(new) : i \in 1..Len(kept) \/ i = Len(kept) + 1
  <2>1. Len(kept) \in Nat /\ Len(new) = Len(kept) + 1
    BY <1>2, <1>4
  <2> QED BY <2>1
<1>7. \A i, j \in 1..Len(new) : i < j => new[i] < new[j]
  <2> SUFFICES ASSUME NEW i \in 1..Len(new), NEW j \in 1..Len(new), i < j
               PROVE  new[i] < new[j]
    OBVIOUS
  <2>1. i \in 1..Len(kept)
    BY <1>2, <1>4
  <2>2. CASE j = Len(kept) + 1
    <3>1. new[j] = last + 1 /\ new[i] \in Nat /\ new[i] <= last
      BY <1>4, <1>5, <2>1, <2>2
    <3> QED BY <3>1
  <2>3. CASE j \in 1..Len(kept)
    <3>1. /\ new[i] = q[i + from] /\ i + from \in 1..Len(q)
          /\ new[j] = q[j + from] /\ j + from \in 1..Len(q)
      BY <1>5, <2>1, <2>3
    <3>2. i + from < j + from
      BY <1>2
    <3> QED BY <3>1, <3>2 DEF InOrder, q
  <2> QED BY <1>6, <2>2, <2>3
<1>8. \A i \in 1..Len(sent), j \in 1..Len(new) : sent[i][1] < new[j]
  <2> SUFFICES ASSUME NEW i \in 1..Len(sent), NEW j \in 1..Len(new)
               PROVE  sent[i][1] < new[j]
    OBVIOUS
  <2>1. sent[i][1] \in Nat /\ sent[i][1] <= last
    BY KnobTypes DEF Packet, InOrder
  <2>2. CASE j = Len(kept) + 1
    BY <1>4, <2>1, <2>2
  <2>3. CASE j \in 1..Len(kept)
    BY <1>5, <2>3 DEF InOrder, q
  <2> QED BY <1>6, <2>2, <2>3
<1>9. \A j \in 1..Len(new) : new[j] <= last + 1
  <2> TAKE j \in 1..Len(new)
  <2>1. CASE j = Len(kept) + 1
    BY <1>4, <2>1
  <2>2. CASE j \in 1..Len(kept)
    BY <1>5, <2>2
  <2> QED BY <1>6, <2>1, <2>2
<1>10. \A i \in 1..Len(sent) : sent[i][1] \in Nat
  BY KnobTypes DEF Packet
<1>11. InOrder(sent, new, last + 1)
  BY <1>7, <1>8, <1>9, <1>10 DEF InOrder
<1> QED BY <1>3, <1>11

\* A reply flushes the parked packets behind the ones sent before.
LEMMA InOrderFlush ==
    ASSUME NEW sent \in Seq(Packet \X Mac), NEW parked \in Seq(Packet), NEW last, NEW m,
           InOrder(sent, parked, last)
    PROVE  InOrder(sent \o [i \in 1..Len(parked) |-> <<parked[i], m>>], <<>>, last)
<1> DEFINE flushed == [i \in 1..Len(parked) |-> <<parked[i], m>>]
           new == sent \o flushed
<1>1. /\ Len(sent) \in Nat /\ Len(parked) \in Nat
      /\ flushed \in Seq(Packet \X {m}) /\ Len(flushed) = Len(parked)
  OBVIOUS
<1>2. \A i \in 1..Len(parked) : flushed[i][1] = parked[i]
  OBVIOUS
<1> HIDE DEF flushed
<1>3. /\ Len(new) = Len(sent) + Len(parked)
      /\ \A i \in 1..Len(sent) : new[i] = sent[i]
      /\ \A i \in 1..Len(parked) : new[Len(sent) + i] = flushed[i]
  <2>1. Len(new) = Len(sent) + Len(parked)
    BY <1>1
  <2>2. \A i \in 1..Len(sent) : new[i] = sent[i]
    BY <1>1, SMTT(20)
  <2>3. \A i \in 1..Len(parked) : new[Len(sent) + i] = flushed[i]
    BY <1>1, SMTT(20)
  <2> QED BY <2>1, <2>2, <2>3
<1> HIDE DEF new
<1>4. \A i \in 1..Len(new) : i \in 1..Len(sent) \/ i - Len(sent) \in 1..Len(parked)
  BY <1>1, <1>3
<1>5. \A i \in 1..Len(new) : i - Len(sent) \in 1..Len(parked) =>
         new[i][1] = parked[i - Len(sent)]
  <2> SUFFICES ASSUME NEW i \in 1..Len(new), i - Len(sent) \in 1..Len(parked)
               PROVE  new[i][1] = parked[i - Len(sent)]
    OBVIOUS
  <2>1. i = Len(sent) + (i - Len(sent))
    BY <1>1
  <2>2. new[i] = flushed[i - Len(sent)]
    BY <1>3, <2>1
  <2> QED BY <1>2, <2>2
<1>6. \A i, j \in 1..Len(new) : i < j => new[i][1] < new[j][1]
  <2> SUFFICES ASSUME NEW i \in 1..Len(new), NEW j \in 1..Len(new), i < j
               PROVE  new[i][1] < new[j][1]
    OBVIOUS
  <2>1. CASE i \in 1..Len(sent) /\ j \in 1..Len(sent)
    BY <1>3, <2>1 DEF InOrder
  <2>2. CASE i \in 1..Len(sent) /\ j - Len(sent) \in 1..Len(parked)
    BY <1>3, <1>5, <2>2 DEF InOrder
  <2>3. CASE i - Len(sent) \in 1..Len(parked) /\ j - Len(sent) \in 1..Len(parked)
    <3>1. i - Len(sent) < j - Len(sent)
      BY <1>1
    <3> QED BY <1>5, <2>3, <3>1 DEF InOrder
  <2>4. CASE i - Len(sent) \in 1..Len(parked) /\ j \in 1..Len(sent)
    BY <1>1, <2>4
  <2> QED BY <1>4, <2>1, <2>2, <2>3, <2>4
<1>7. \A i \in 1..Len(new) : new[i][1] <= last
  <2> TAKE i \in 1..Len(new)
  <2>1. CASE i \in 1..Len(sent)
    BY <1>3, <2>1 DEF InOrder
  <2>2. CASE i - Len(sent) \in 1..Len(parked)
    BY <1>5, <2>2 DEF InOrder
  <2> QED BY <1>4, <2>1, <2>2
<1>8. Len(<<>>) = 0
  OBVIOUS
<1> QED BY <1>6, <1>7, <1>8 DEF InOrder, new, flushed

\* A lookup leaves the queue alone.
LEMMA FindEntryQueue ==
    ASSUME NEW e \in NeighborEntry
    PROVE  FindEntry(e).queued_packets = e.queued_packets
<1> DEFINE used == [e EXCEPT !.idle = 0]
<1>1. used \in NeighborEntry /\ used.queued_packets = e.queued_packets
  BY KnobTypes DEF NeighborEntry
<1>2. \/ FindEntry(e) = used
      \/ FindEntry(e) = Transition(used, "DELAY")
      \/ FindEntry(e) = [Transition(used, "INCOMPLETE") EXCEPT !.probe_count = 1,
                                                               !.mac_address = NoMac]
  BY DEF FindEntry, StartResolution
<1> HIDE DEF used
<1>3. ASSUME NEW s \in {"DELAY", "INCOMPLETE"}
      PROVE  Transition(used, s) \in NeighborEntry
             /\ Transition(used, s).queued_packets = e.queued_packets
  BY <1>1, TransitionFields DEF NudState
<1>4. [Transition(used, "INCOMPLETE") EXCEPT !.probe_count = 1,
          !.mac_address = NoMac].queued_packets = e.queued_packets
  BY <1>3, Zenon DEF NeighborEntry
<1> QED BY <1>1, <1>2, <1>3, <1>4

\* A maintenance pass keeps a queue or drops it.
LEMMA MaintainQueue ==
    ASSUME NEW e \in NeighborEntry
    PROVE  Maintain(e).queued_packets \in {e.queued_packets, <<>>}
<1>1. \/ Maintain(e) = e
      \/ Maintain(e) = Transition(e, "STALE")
      \/ Maintain(e) = [Transition(e, "PROBE") EXCEPT !.probe_count = 1]
      \/ Maintain(e) = FailEntry(e)
      \/ Maintain(e) = Resolicit(e)
  BY DEF Maintain
<1>2. ASSUME NEW s \in {"STALE", "PROBE", "FAILED"}
      PROVE  Transition(e, s) \in NeighborEntry
             /\ Transition(e, s).queued_packets = e.queued_packets
  BY TransitionFields DEF NudState
<1>3. [Transition(e, "PROBE") EXCEPT !.probe_count = 1].queued_packets = e.queued_packets
  BY <1>2, Zenon DEF NeighborEntry
<1>4. FailEntry(e).queued_packets = <<>>
  BY <1>2, Zenon DEF FailEntry, NeighborEntry
<1>5. Resolicit(e).queued_packets = e.queued_packets
  BY Zenon DEF Resolicit, NeighborEntry
<1> QED BY <1>1, <1>2, <1>3, <1>4, <1>5

\* Every handler keeps the packets of every address in order.
LEMMA NextOrder == IInv /\ OrderInv /\ [Next]_vars => OrderInv'
<1> SUFFICES ASSUME IInv, OrderInv, [Next]_vars PROVE OrderInv'
  OBVIOUS
<1>0. /\ entries \in [Address -> NeighborEntry] /\ wire \in [Address -> Seq(Packet \X Mac)]
      /\ handed \in Nat
      /\ \A a \in Address : /\ EntryOK(entries[a])
                            /\ entries[a] \in NeighborEntry
                            /\ entries[a].queued_packets \in Seq(Packet)
                            /\ wire[a] \in Seq(Packet \X Mac)
                            /\ InOrder(wire[a], entries[a].queued_packets, handed)
  BY DEF IInv, TypeOK, OrderInv, NeighborEntry
\* Most handlers send nothing, and keep or drop what is parked.
<1>1. ASSUME handed' = handed, wire' = wire,
             \A a \in Address : entries'[a].queued_packets \in {entries[a].queued_packets, <<>>}
      PROVE  OrderInv'
  <2> SUFFICES ASSUME NEW a \in Address
               PROVE  InOrder(wire[a], entries'[a].queued_packets, handed)
    BY <1>1 DEF OrderInv
  <2>1. InOrder(wire[a], entries[a].queued_packets, handed)
    BY <1>0
  <2>2. InOrder(wire[a], <<>>, handed)
    BY <2>1, InOrderDrop, Zenon
  <2> QED BY <1>1, <2>1, <2>2
<1>2. ASSUME handed' = handed, wire' = wire, NEW a \in Address, NEW e,
             entries' = [entries EXCEPT ![a] = e],
             e.queued_packets \in {entries[a].queued_packets, <<>>}
      PROVE  OrderInv'
  BY <1>0, <1>1, <1>2, Zenon
<1>3. ASSUME NEW a \in Address, Transmit(a) PROVE OrderInv'
  <2> DEFINE e == FindEntry(entries[a])
             p == handed + 1
  <2>1. /\ EntryOK(e) /\ e.queued_packets = entries[a].queued_packets
        /\ Lookup(e) = NoMac => e.state = "INCOMPLETE"
    BY <1>0, FindEntryOK, FindEntryQueue
  <2>2. p \in Packet /\ handed' = p
    BY <1>0, <1>3, KnobTypes DEF Transmit, Packet
  <2>3. \A b \in Address : InOrder(wire[b], entries[b].queued_packets, p)
    BY <1>0, InOrderLater
  <2>4. CASE Lookup(e) # NoMac
    <3>1. /\ entries' = [entries EXCEPT ![a] = e]
          /\ wire' = [wire EXCEPT ![a] = Append(@, <<p, Lookup(e)>>)]
      BY <1>3, <2>4 DEF Transmit
    <3>2. e.queued_packets = <<>>
      <4>1. e.state # "INCOMPLETE"
        BY <2>4, Zenon DEF Lookup, Usable
      <4> QED BY <2>1, <4>1 DEF EntryOK
    <3>3. InOrder(wire[a], <<>>, handed)
      BY <1>0, InOrderDrop
    <3>4. InOrder(Append(wire[a], <<p, Lookup(e)>>), <<>>, p)
      BY <1>0, <2>2, <3>3, InOrderSend
    <3> HIDE DEF e, p
    <3>5. ASSUME NEW b \in Address
          PROVE  InOrder(wire'[b], entries'[b].queued_packets, p)
      <4>1. CASE b = a
        <5>1. wire'[b] = Append(wire[a], <<p, Lookup(e)>>) /\ entries'[b] = e
          BY <1>0, <3>1, <4>1
        <5> QED BY <3>2, <3>4, <5>1
      <4>2. CASE b # a
        <5>1. wire'[b] = wire[b] /\ entries'[b] = entries[b]
          BY <1>0, <3>1, <4>2
        <5> QED BY <2>3, <5>1
      <4> QED BY <4>1, <4>2
    <3> QED BY <2>2, <3>5 DEF OrderInv
  <2>5. CASE Lookup(e) = NoMac
    <3>1. entries' = [entries EXCEPT ![a] = EnqueuePending(e, p)] /\ wire' = wire
      BY <1>3, <2>5 DEF Transmit
    <3>2. InOrder(wire[a], EnqueuePending(e, p).queued_packets, p)
      BY <1>0, <2>1, <2>2, <2>5, InOrderPark
    <3> HIDE DEF e, p
    <3>3. ASSUME NEW b \in Address
          PROVE  InOrder(wire'[b], entries'[b].queued_packets, p)
      <4>1. CASE b = a
        <5>1. wire'[b] = wire[a] /\ entries'[b] = EnqueuePending(e, p)
          BY <1>0, <3>1, <4>1
        <5> QED BY <3>2, <5>1
      <4>2. CASE b # a
        <5>1. wire'[b] = wire[b] /\ entries'[b] = entries[b]
          BY <1>0, <3>1, <4>2
        <5> QED BY <2>3, <5>1
      <4> QED BY <4>1, <4>2
    <3> QED BY <2>2, <3>3 DEF OrderInv
  <2> QED BY <2>4, <2>5
<1>4. ASSUME NEW a \in Address, Resolve(a) PROVE OrderInv'
  <2>1. FindEntry(entries[a]).queued_packets = entries[a].queued_packets
    BY <1>0, FindEntryQueue
  <2>2. entries' = [entries EXCEPT ![a] = FindEntry(entries[a])]
    BY <1>4, <1>0 DEF Resolve
  <2> QED BY <1>2, <1>4, <2>1, <2>2, Zenon DEF Resolve
<1>5. ASSUME NEW a \in Address, NEW m \in Mac, AddEntry(a, m) PROVE OrderInv'
  <2> DEFINE e == entries[a]
             t == Transition(e, "REACHABLE")
             new == IF e.state = "NONE" THEN Resolved("REACHABLE", m)
                    ELSE [t EXCEPT !.mac_address = m, !.probe_count = 0,
                                   !.queued_packets = <<>>]
             flushed == [i \in 1..Len(e.queued_packets) |-> <<e.queued_packets[i], m>>]
  <2>1. /\ entries' = [entries EXCEPT ![a] = new] /\ wire' = [wire EXCEPT ![a] = @ \o flushed]
        /\ handed' = handed
    BY <1>5 DEF AddEntry
  <2>2. new.queued_packets = <<>>
    <3>1. t \in NeighborEntry
      BY <1>0, TransitionFields DEF NudState
    <3> HIDE DEF t
    <3> QED BY <3>1, Zenon DEF NeighborEntry, Resolved
  <2>3. InOrder(wire[a] \o flushed, <<>>, handed)
    BY <1>0, InOrderFlush
  <2> HIDE DEF new, flushed
  <2>4. ASSUME NEW b \in Address
        PROVE  InOrder(wire'[b], entries'[b].queued_packets, handed)
    <3>1. CASE b = a
      <4>1. wire'[b] = wire[a] \o flushed /\ entries'[b] = new
        BY <1>0, <2>1, <3>1
      <4> QED BY <2>2, <2>3, <4>1
    <3>2. CASE b # a
      <4>1. wire'[b] = wire[b] /\ entries'[b] = entries[b]
        BY <1>0, <2>1, <3>2
      <4> QED BY <1>0, <4>1
    <3> QED BY <3>1, <3>2
  <2> QED BY <2>1, <2>4 DEF OrderInv
<1>6. ASSUME NEW a \in Address, NEW m \in Mac, AddPermanentEntry(a, m) PROVE OrderInv'
  <2>1. Resolved("PERMANENT", m).queued_packets = <<>>
    BY DEF Resolved
  <2> QED BY <1>2, <1>6, <2>1, Zenon DEF AddPermanentEntry
<1>7. ASSUME NEW a \in Address, RemoveEntry(a) PROVE OrderInv'
  <2>1. Missing.queued_packets = <<>>
    BY DEF Missing
  <2> QED BY <1>2, <1>7, <2>1, Zenon DEF RemoveEntry
<1>8. CASE Flush
  <2>1. Missing.queued_packets = <<>>
    BY DEF Missing
  <2> QED BY <1>1, <1>8, <2>1 DEF Flush
<1>9. ASSUME NEW a \in Address, ConfirmReachability(a) PROVE OrderInv'
  <2> DEFINE t == Transition(entries[a], "REACHABLE")
  <2>1. t \in NeighborEntry /\ t.queued_packets = entries[a].queued_packets
    BY <1>0, TransitionFields DEF NudState
  <2>2. entries' = [entries EXCEPT ![a] = [t EXCEPT !.probe_count = 0]]
    BY <1>0, <1>9 DEF ConfirmReachability
  <2> HIDE DEF t
  <2>3. [t EXCEPT !.probe_count = 0].queued_packets = entries[a].queued_packets
    BY <2>1, Zenon DEF NeighborEntry
  <2> QED BY <1>2, <1>9, <2>2, <2>3, Zenon DEF ConfirmReachability
<1>10. ASSUME NEW t, SetReachableTimeOverride(t) PROVE OrderInv'
  BY <1>1, <1>10 DEF SetReachableTimeOverride
<1>11. CASE RunMaintenanceOnce
  <2> DEFINE es == [a \in Address |-> Maintain(entries[a])]
  <2>1. \A a \in Address : EntryOK(es[a])
                           /\ es[a].queued_packets \in {entries[a].queued_packets, <<>>}
    BY <1>0, MaintainOK, MaintainQueue
  <2>2. es \in [Address -> NeighborEntry]
    BY <2>1 DEF EntryOK
  <2>3. GcPass(es, entries')
    BY <1>11 DEF RunMaintenanceOnce
  <2> HIDE DEF es
  <2>4. \A a \in Address : entries'[a] = es[a] \/ entries'[a] = Missing
    BY <2>2, <2>3, GcPassOnlyRemoves
  <2>5. Missing.queued_packets = <<>>
    BY DEF Missing
  <2>6. \A a \in Address : entries'[a].queued_packets \in {entries[a].queued_packets, <<>>}
    <3> TAKE a \in Address
    <3>1. es[a].queued_packets \in {entries[a].queued_packets, <<>>}
      BY <2>1, Zenon
    <3>2. entries'[a] = es[a] \/ entries'[a] = Missing
      BY <2>4, Zenon
    <3> QED BY <2>5, <3>1, <3>2, Zenon
  <2>7. handed' = handed /\ wire' = wire
    BY <1>11 DEF RunMaintenanceOnce
  <2> QED BY <1>1, <2>6, <2>7, Zenon
<1>12. CASE Tick
  <2>1. Missing.queued_packets = <<>>
    BY DEF Missing
  <2>2. \A a \in Address : [entries[a] EXCEPT !.age = Older(@), !.idle = Older(@)].queued_packets
                           = entries[a].queued_packets
    BY <1>0, Zenon DEF NeighborEntry
  <2>3. \A a \in Address : entries'[a].queued_packets \in {entries[a].queued_packets, <<>>}
    BY <1>12, <2>1, <2>2, Zenon DEF Tick
  <2>4. handed' = handed /\ wire' = wire
    BY <1>12, Zenon DEF Tick
  <2> QED BY <1>1, <2>3, <2>4, Zenon
<1>13. CASE UNCHANGED vars
  BY <1>1, <1>13 DEF vars
<1> QED BY <1>3, <1>4, <1>5, <1>6, <1>7, <1>8, <1>9, <1>10, <1>11, <1>12, <1>13 DEF Next, Traffic

\* The packets of one next hop leave in the order they were handed over and
\* none leaves twice, for any number of neighbours and packets: neither the
\* drop of the oldest at the queue bound, nor the flush of a resolved queue,
\* nor a packet sent directly after it breaks the order.
THEOREM SendsInOrder == Spec => []InOrderAtMostOnce
<1>1. Init => OrderInv
  <2> SUFFICES ASSUME Init, NEW a \in Address
               PROVE  InOrder(wire[a], entries[a].queued_packets, handed)
    BY DEF OrderInv
  <2>1. wire[a] = <<>> /\ entries[a].queued_packets = <<>> /\ Len(<<>>) = 0
    BY DEF Init, Missing
  <2> QED BY <2>1 DEF InOrder
<1>2. IInv /\ OrderInv => InOrderAtMostOnce
  <2> SUFFICES ASSUME IInv, OrderInv, NEW a \in Address
               PROVE  LET sent == [i \in 1..Len(wire[a]) |-> wire[a][i][1]]
                                  \o entries[a].queued_packets
                      IN  \A i, j \in 1..Len(sent) : i < j => sent[i] < sent[j]
    BY DEF InOrderAtMostOnce
  <2> DEFINE w == wire[a]
             q == entries[a].queued_packets
             first == [i \in 1..Len(w) |-> w[i][1]]
             sent == first \o q
  <2>1. w \in Seq(Packet \X Mac) /\ q \in Seq(Packet) /\ InOrder(w, q, handed)
    BY DEF IInv, TypeOK, NeighborEntry, OrderInv
  <2> HIDE DEF w, q
  <2>2. /\ Len(w) \in Nat /\ Len(q) \in Nat /\ first \in Seq(Packet) /\ Len(first) = Len(w)
        /\ \A i \in 1..Len(w) : first[i] = w[i][1]
    BY <2>1
  <2> HIDE DEF first
  <2>3. /\ Len(sent) = Len(w) + Len(q)
        /\ \A i \in 1..Len(w) : sent[i] = w[i][1]
        /\ \A i \in 1..Len(q) : sent[Len(w) + i] = q[i]
    BY <2>1, <2>2
  <2> HIDE DEF sent
  <2>4. ASSUME NEW i \in 1..Len(sent), NEW j \in 1..Len(sent), i < j
        PROVE  sent[i] < sent[j]
    <3> DEFINE k == i - Len(w)
               l == j - Len(w)
    <3>1. /\ i \in 1..Len(w) \/ k \in 1..Len(q)
          /\ j \in 1..Len(w) \/ l \in 1..Len(q)
          /\ k \in 1..Len(q) => l \in 1..Len(q) /\ k < l
          /\ i = Len(w) + k /\ j = Len(w) + l
      BY <2>2, <2>3, <2>4
    <3> HIDE DEF k, l
    <3>2. CASE i \in 1..Len(w) /\ j \in 1..Len(w)
      BY <2>1, <2>3, <2>4, <3>2 DEF InOrder
    <3>3. CASE i \in 1..Len(w) /\ l \in 1..Len(q)
      BY <2>1, <2>3, <3>1, <3>3 DEF InOrder
    <3>4. CASE k \in 1..Len(q)
      BY <2>1, <2>3, <3>1, <3>4 DEF InOrder
    <3> QED BY <3>1, <3>2, <3>3, <3>4
  <2> QED BY <2>4 DEF sent, first, w, q
<1> QED BY <1>1, <1>2, InitIInv, NextIInv, NextOrder, PTL DEF Spec

=============================================================================
