------------------------ MODULE Ip4AddressingProofs ------------------------
(* Proofs about Ip4Addressing, for any leases, any bounds of a behaviour
   (restarts, exchanges, replies in flight), any timers and any number of
   link-local conflicts. *)
EXTENDS Ip4ControlProofs

Candidates == {LLCandidate[i] : i \in 1..MaxConflicts}

(* Link-local's detector, as a function of where the task is. *)
LLDetector ==
    IF ll_state = "BOUND" THEN Defending(candidate)
    ELSE IF ll_pc = "claim" THEN Holding(1) ELSE Holding(0)

(* The link-local task: it never suspends while BOUND, and the candidate it
   claims or holds is one of the addresses no server leases. *)
LinkLocalInv ==
    /\ ll_state \in {"INIT", "CLAIMING", "BOUND", "HALTED"}
    /\ ll_pc \in {"run", "claim", "limit", "off"}
    /\ ll_pc = "run" => ll_state # "CLAIMING"
    /\ ll_pc \in {"claim", "limit"} => ll_state = "CLAIMING"
    /\ conflicts \in Nat
    /\ ll_pc \in {"run", "claim"} => conflicts < MaxConflicts
    /\ ll_state = "BOUND" => ll_pc = "run" /\ conflicts = 0
    /\ ll_pc = "claim" \/ ll_state = "BOUND" => candidate \in Candidates
    /\ ll_pc # "off" => ll_acd = LLDetector

(* The server and the client: a reply to the transaction the client waits
   on was sent in the present phase, and the server's binding of a confirmed
   lease is no older than the client believes. *)
GrantInv ==
    /\ xid \in 0..(plan.xids + 1) /\ age \in 0..Span /\ confirmed \in BOOLEAN
    /\ grant \in [Addr -> 0..Span \cup {None}]
    /\ asked \in [1..plan.xids -> Addr \cup {None, "any"}]
    /\ \A x \in 1..plan.xids : x > xid => asked[x] = None
    /\ \A m \in net : m.xid <= xid
    /\ pc \in {"offer", "collect"} =>
         /\ xid <= plan.xids => asked[xid] = "any"
         /\ \A m \in net : m.xid = xid => m.type # "ACK"
    /\ pc \in {"request", "reboot", "exchange"} =>
         \A m \in net : Expected(m, {"ACK"}) /\ m.complete => grant[m.lease.addr] = 0
    /\ pc \in {"probe", "swap"} => grant[cand.addr] = 0
    /\ Alive /\ confirmed /\ Leased =>
         grant[lease.addr] \in Nat /\ grant[lease.addr] <= age

(* The client's part of the interface's addresses, and link-local's. *)
LeasedList == IF pc = "swap" THEN <<cand.addr>>
              ELSE IF Leased THEN <<lease.addr>> ELSE << >>
LocalList == IF ll_state = "BOUND" THEN <<candidate>> ELSE << >>

(* The inductive invariant. *)
IInv == ControlInv /\ SocketInv /\ LinkLocalInv /\ AddressFollowsLease /\ GrantInv

-----------------------------------------------------------------------------
(* LinkLocalInv.  Link-local draws candidate conflicts + 1, and pauses when it
   has met MaxConflicts conflicts. *)

LEMMA ReconciledCases ==
    ASSUME LinkLocalInv, LLHolds
    PROVE  /\ Reconciled \in {"INIT", "BOUND", "HALTED"}
           /\ Reconciled = "BOUND" => ll_state = "BOUND"
           /\ Reconciled = "INIT" => ll_state # "BOUND"
  BY DEF Reconciled, LinkLocalInv, LLHolds

LEMMA StepKeepsLinkLocal ==
    ASSUME LinkLocalInv, [Next]_vars
    PROVE  LinkLocalInv'
  <1>0. ASSUME UNCHANGED llvars PROVE LinkLocalInv'
    BY <1>0 DEF llvars, LinkLocalInv, LLDetector
  <1>1. CASE LLClaim
    <2>1. Reconciled = "INIT" /\ ll_state # "BOUND" /\ conflicts \in Nat /\ conflicts < MaxConflicts
      BY <1>1, ReconciledCases DEF LLClaim, LLHolds, LinkLocalInv
    <2>2. candidate' \in Candidates
      BY <1>1, <2>1, LinkLocalConstants DEF LLClaim, Candidates
    <2>3. ll_acd' = Holding(1)
      BY <1>1, <2>1, DetectorSteps DEF LLClaim, LLHolds, LinkLocalInv, LLDetector
    <2> QED BY <1>1, <2>1, <2>2, <2>3 DEF LLClaim, LinkLocalInv, LLDetector
  <1>2. CASE LLHalted
    <2>1. ll_acd' = Holding(0) /\ conflicts' \in Nat /\ conflicts' < MaxConflicts
      BY <1>2, DetectorSteps, LinkLocalConstants DEF LLHalted, Yield, LLHolds, LinkLocalInv, LLDetector
    <2> QED BY <1>2, <2>1 DEF LLHalted, LLHolds, LinkLocalInv, LLDetector
  <1>3. CASE LLClaimed
    <2>1. ll_acd = Holding(1) /\ candidate' = candidate /\ candidate \in Candidates
      BY <1>3 DEF LLClaimed, LinkLocalInv, LLDetector
    <2>2. ll_acd' = Defending(candidate)
      BY <1>3, <2>1, DetectorSteps, Zenon DEF LLClaimed
    <2> QED BY <1>3, <2>1, <2>2, LinkLocalConstants DEF LLClaimed, LinkLocalInv, LLDetector
  <1>4. CASE LLConflict
    <2>1. ll_acd = Holding(1)
      BY <1>4 DEF LLConflict, LinkLocalInv, LLDetector
    <2>2. ll_acd' = Holding(0)
      BY <1>4, <2>1, DetectorSteps, Zenon DEF LLConflict
    <2> QED BY <1>4, <2>2, LinkLocalConstants DEF LLConflict, LinkLocalInv, LLDetector
  <1>5. CASE LLLimitEnds
    BY <1>5, LinkLocalConstants DEF LLLimitEnds, LinkLocalInv, LLDetector
  <1>6. CASE LLBound
    <2>1. ll_state = "BOUND" /\ ll_acd = Defending(candidate)
      BY <1>6, ReconciledCases DEF LLBound, LLHolds, LinkLocalInv, LLDetector
    <2>2. CASE UNCHANGED <<ll_state, candidate, conflicts, ll_acd>>
      BY <1>6, <2>1, <2>2 DEF LLBound, LinkLocalInv, LLDetector
    <2>3. CASE /\ ll_acd' = AcdRelease(ll_acd) /\ conflicts' = conflicts + 1
               /\ ll_state' = "INIT"
      <3>1. ll_acd' = Holding(0)
        BY <2>1, <2>3, DetectorSteps, Zenon
      <3> QED BY <1>6, <2>1, <2>3, <3>1, LinkLocalConstants DEF LLBound, LLHolds, LinkLocalInv, LLDetector
    <2> QED BY <1>6, <2>2, <2>3 DEF LLBound
  <1>7. CASE LLStop
    BY <1>7 DEF LLStop, LinkLocalInv
  <1>8. CASE LLPeerSpeaks \/ LLTime
    BY <1>8 DEF LLPeerSpeaks, LLTime, LinkLocalInv, LLDetector
  <1>9. CASE Restart
    BY <1>9, DetectorSteps, LinkLocalConstants DEF Restart, LinkLocalInv, LLDetector
  <1>10. CASE ClientStep \/ LLPeer \/ Shutdown \/ UNCHANGED vars
    BY <1>0, <1>10 DEF ClientStep, LLPeer, Shutdown, vars
  <1> QED BY <1>0, <1>1, <1>2, <1>3, <1>4, <1>5, <1>6, <1>7, <1>8, <1>9, <1>10
          DEF Next, LLStep, World

-----------------------------------------------------------------------------
(* AddressFollowsLease.  The client moves only while link-local is suspended,
   so not BOUND, and has the list to itself then. *)

LEMMA ResetDrops ==
    ASSUME ControlInv, Alive, pc # "swap", ip4_ifaddr = LeasedList, ResetToInit
    PROVE  Alive' => ip4_ifaddr' = LeasedList'
  <1>1. CASE Leased
    <2>1. ip4_ifaddr = <<lease.addr>> /\ lease # None
      BY <1>1, LeaseFacts DEF LeasedList, Leased, ControlInv
    <2>2. ip4_ifaddr' = RemoveAddress(<<lease.addr>>, lease.addr)
      BY <2>1 DEF ResetToInit
    <2> QED BY <2>2, RemoveFromOne DEF ResetToInit, LeasedList, Leased
  <1>2. CASE ~Leased
    <2>1. ip4_ifaddr = << >>
      BY <1>2 DEF LeasedList
    <2>2. ip4_ifaddr' = << >>
      BY SMTT(20), <2>1, RemoveFromNone DEF ResetToInit
    <2> QED BY <2>2 DEF ResetToInit, LeasedList, Leased
  <1> QED BY <1>1, <1>2

LEMMA ClientKeepsAddress ==
    ASSUME ControlInv, Alive => ip4_ifaddr = LeasedList, DStep
    PROVE  Alive' => ip4_ifaddr' = LeasedList'
  <1>1. CASE Discover
    BY <1>1 DEF Discover, NewExchange, LeasedList, Leased, ControlInv, Alive, host
  <1>2. CASE RequestOut
    BY <1>2 DEF RequestOut, LeasedList, Leased, ControlInv, Alive, host
  <1>3. CASE NoAnswer
    BY <1>3 DEF NoAnswer, TaskEnds, Alive
  <1>4. CASE Probed
    <2>1. ip4_ifaddr = << >> /\ state' = "INIT"
      BY <1>4 DEF Probed, LeasedList, Leased, ControlInv, Alive
    <2>2. CASE OnBound(cand, [acd EXCEPT !.open = @ - 1])
      BY <1>4, <2>1, <2>2 DEF OnBound, AddAddress, LeasedList, Leased
    <2>3. CASE pc' = "backoff" /\ ip4_ifaddr' = ip4_ifaddr
      BY <1>4, <2>1, <2>3 DEF LeasedList, Leased
    <2> QED BY <1>4, <2>2, <2>3 DEF Probed, host
  <1>5. CASE BackoffEnds
    BY <1>5 DEF BackoffEnds, StartOver, TaskEnds, wire, LeasedList, Leased, ControlInv, Alive, host
  <1>6. CASE Announced
    BY <1>6 DEF Announced, LeasedList, Leased, ControlInv, Alive, host
  <1>7. CASE RebootStarts
    BY <1>7 DEF RebootStarts, NewExchange, wire, LeasedList, Leased, ControlInv, Alive, host
  <1>8. CASE GatewayAnswers
    <2>1. ip4_ifaddr = << >>
      BY <1>8 DEF GatewayAnswers, LeasedList, Leased, ControlInv, Alive
    <2>2. ip4_ifaddr' = <<lease'.addr>> /\ pc' = "announce"
      BY <1>8, <2>1 DEF GatewayAnswers, OnBound, AddAddress
    <2> QED BY <2>2 DEF LeasedList, Leased
  <1>9. CASE GatewaySilent
    BY <1>9 DEF GatewaySilent, NewExchange, LeasedList, Leased, ControlInv, Alive, host
  <1>10. CASE RebootSilent
    <2>1. ip4_ifaddr = << >>
      BY <1>10 DEF RebootSilent, LeasedList, Leased, ControlInv, Alive
    <2>2. ip4_ifaddr' = <<lease'.addr>> /\ pc' = "announce"
      BY <1>10, <2>1 DEF RebootSilent, OnBound, AddAddress
    <2> QED BY <2>2 DEF LeasedList, Leased
  <1>11. CASE BoundPass
    BY <1>11 DEF BoundPass, wire, LeasedList, Leased, ControlInv, Alive, host
  <1>12. CASE WaitEnds
    BY <1>12 DEF WaitEnds, wire, LeasedList, Leased, ControlInv, Alive, host
  <1>13. CASE Declined
    BY <1>13, ResetDrops DEF Declined, ControlInv, Alive
  <1>14. CASE RenewPass
    BY <1>14 DEF RenewPass, NewExchange, wire, LeasedList, Leased, ControlInv, Alive, host
  <1>15. CASE RebindPass
    BY <1>15 DEF RebindPass, NewExchange, LeasedList, Leased, ControlInv, Alive, host
  <1>16. CASE LeaseExpires
    BY <1>16, ResetDrops DEF LeaseExpires, ControlInv, Alive
  <1>17. CASE ExchangeVoid
    BY <1>17 DEF ExchangeVoid, wire, LeasedList, Leased, ControlInv, Alive, host
  <1>18. CASE SwapEnds
    BY <1>18 DEF SwapEnds, wire, LeasedList, Leased, ControlInv, Alive, host
  <1>19. CASE Fails
    BY <1>19 DEF Fails, TaskEnds, Alive
  <1>20. ASSUME NEW m \in net, OfferIn(m) PROVE Alive' => ip4_ifaddr' = LeasedList'
    BY <1>20 DEF OfferIn, TaskEnds, wire, LeasedList, Leased, ControlInv, Alive, host
  <1>21. ASSUME NEW m \in net, AckIn(m) PROVE Alive' => ip4_ifaddr' = LeasedList'
    BY <1>21 DEF AckIn, TaskEnds, wire, LeasedList, Leased, ControlInv, Alive, host
  <1>22. ASSUME NEW m \in net, NakIn(m) PROVE Alive' => ip4_ifaddr' = LeasedList'
    BY <1>22 DEF NakIn, StartOver, TaskEnds, wire, LeasedList, Leased, ControlInv, Alive, host
  <1>23. ASSUME NEW m \in net, RebootAck(m) PROVE Alive' => ip4_ifaddr' = LeasedList'
    <2>1. ip4_ifaddr = << >>
      BY <1>23 DEF RebootAck, LeasedList, Leased, ControlInv, Alive
    <2>2. ip4_ifaddr' = <<lease'.addr>> /\ pc' = "announce"
      BY <1>23, <2>1 DEF RebootAck, OnBound, AddAddress
    <2> QED BY <2>2 DEF LeasedList, Leased
  <1>24. ASSUME NEW m \in net, RebootRefused(m) PROVE Alive' => ip4_ifaddr' = LeasedList'
    BY <1>24, ResetDrops DEF RebootRefused, ControlInv, Alive
  <1>25. ASSUME NEW m \in net, ExchangeNak(m) PROVE Alive' => ip4_ifaddr' = LeasedList'
    BY <1>25, ResetDrops DEF ExchangeNak, ControlInv, Alive
  <1>26. ASSUME NEW m \in net, Renewed(m) PROVE Alive' => ip4_ifaddr' = LeasedList'
    <2>1. ip4_ifaddr = <<lease.addr>> /\ ip4_ifaddr' = ip4_ifaddr
      BY <1>26 DEF Renewed, LeasedList, Leased, ControlInv, Alive, host
    <2>2. lease'.addr = lease.addr
      BY <1>26 DEF Renewed, LeaseOf
    <2> QED BY <1>26, <2>1, <2>2 DEF Renewed, LeasedList, Leased
  <1>27. ASSUME NEW m \in net, SwapStarts(m) PROVE Alive' => ip4_ifaddr' = LeasedList'
    <2>1. ip4_ifaddr = <<lease.addr>>
      BY <1>27 DEF SwapStarts, LeasedList, Leased, ControlInv, Alive
    <2>2. LeaseOf(m).addr = m.lease.addr
      BY DEF LeaseOf
    <2>3. AddAddress(ip4_ifaddr, m.lease.addr) = <<lease.addr, m.lease.addr>>
      BY <2>1, ShortLists, Zenon DEF AddAddress
    <2>4. ip4_ifaddr' = RemoveAddress(<<lease.addr, m.lease.addr>>, lease.addr)
      BY <1>27, <2>3, Zenon DEF SwapStarts, ReplaceAddress
    <2>5. ip4_ifaddr' = <<m.lease.addr>>
      BY <1>27, <2>4, RemoveOneOfTwo, Zenon DEF SwapStarts
    <2> QED BY <1>27, <2>2, <2>5 DEF SwapStarts, LeasedList
  <1> QED BY SMTT(20), <1>1, <1>2, <1>3, <1>4, <1>5, <1>6, <1>7, <1>8, <1>9, <1>10, <1>11, <1>12, <1>13, <1>14, <1>15, <1>16, <1>17, <1>18, <1>19, <1>20, <1>21, <1>22, <1>23, <1>24, <1>25, <1>26, <1>27 DEF DStep

(* The link-local address leaves a list that holds it and at most one leased
   address. *)
LEMMA RemoveLocal ==
    ASSUME NEW c, NEW leased, NEW list,
           leased = << >> \/ \E a : a # c /\ leased = <<a>>,
           list = leased \o <<c>> \/ list = <<c>> \o leased
    PROVE  RemoveAddress(list, c) = leased
  <1>1. CASE leased = << >>
    <2>1. list = <<c>>
      BY <1>1, ShortLists, Zenon
    <2> QED BY <1>1, <2>1, RemoveFromOne, Zenon
  <1>2. CASE \E a : a # c /\ leased = <<a>>
    <2>1. PICK a : a # c /\ leased = <<a>>
      BY <1>2
    <2>2. list = <<a, c>> \/ list = <<c, a>>
      BY <2>1, ShortLists, Zenon
    <2>3. CASE list = <<a, c>>
      BY <2>1, <2>3, RemoveOneOfTwo, Zenon
    <2>4. CASE list = <<c, a>>
      BY <2>1, <2>4, RemoveOneOfTwo, Zenon
    <2> QED BY <2>2, <2>3, <2>4
  <1> QED BY <1>1, <1>2

LEMMA AddressParts ==
    AddressFollowsLease <=>
        (Alive => ip4_ifaddr \in {LeasedList \o LocalList, LocalList \o LeasedList})
  BY Zenon DEF AddressFollowsLease, LeasedList, LocalList

LEMMA AlmostEmpty ==
    ASSUME ll_state # "BOUND"
    PROVE  AddressFollowsLease <=> (Alive => ip4_ifaddr = LeasedList)
  <1>1. LeasedList \o << >> = LeasedList /\ << >> \o LeasedList = LeasedList
    BY DEF LeasedList
  <1> QED BY <1>1, AddressParts, Zenon DEF LocalList

(* The same of the state after a step. *)
LEMMA AlmostEmptyNext ==
    ASSUME ll_state' # "BOUND", Alive' => ip4_ifaddr' = LeasedList'
    PROVE  AddressFollowsLease'
  <1>1. LeasedList' \o << >> = LeasedList' /\ LocalList' = << >>
    BY DEF LeasedList, LocalList
  <1>2. Alive' => ip4_ifaddr' = LeasedList' \o LocalList'
    BY <1>1, Zenon
  <1> QED BY <1>2, Zenon DEF AddressFollowsLease, LeasedList, LocalList

LEMMA LocalIsNoLease ==
    ASSUME ControlInv, LinkLocalInv, ll_state = "BOUND" \/ ll_pc = "claim", Alive
    PROVE  LeasedList = << >> \/ \E a : a # candidate /\ LeasedList = <<a>>
  <1>1. candidate \notin Addr
    BY LinkLocalConstants DEF LinkLocalInv, Candidates
  <1>2. CASE pc = "swap"
    BY <1>1, <1>2, LeaseFacts DEF LeasedList, ControlInv
  <1>3. CASE pc # "swap" /\ Leased
    BY <1>1, <1>3, LeaseFacts DEF LeasedList, Leased, ControlInv
  <1>4. CASE pc # "swap" /\ ~Leased
    BY <1>4 DEF LeasedList
  <1> QED BY <1>2, <1>3, <1>4

LEMMA LinkLocalKeepsAddress ==
    ASSUME ControlInv, LinkLocalInv, AddressFollowsLease,
           LLStep \/ LLStop \/ LLPeer \/ LLPeerSpeaks \/ LLTime
    PROVE  AddressFollowsLease'
  <1>0. LeasedList' = LeasedList /\ (Alive' <=> Alive)
    BY LinkLocalFrame DEF client, LeasedList, Leased, Alive
  <1>1. ASSUME ip4_ifaddr' = ip4_ifaddr, ll_state # "BOUND", ll_state' # "BOUND"
        PROVE  AddressFollowsLease'
    <2>1. Alive => ip4_ifaddr = LeasedList
      BY <1>1, AlmostEmpty
    <2>2. Alive' => ip4_ifaddr' = LeasedList'
      BY <1>0, <1>1, <2>1, Zenon
    <2> QED BY <1>1, <2>2, AlmostEmptyNext
  <1>2. ASSUME ip4_ifaddr' = ip4_ifaddr, UNCHANGED <<ll_state, candidate>>
        PROVE  AddressFollowsLease'
    BY <1>0, <1>2, LinkLocalFrame DEF AddressFollowsLease, Leased, Alive, client
  <1>3. ASSUME ip4_ifaddr' = RemoveAddress(ip4_ifaddr, candidate),
               ll_state = "BOUND", ll_state' # "BOUND"
        PROVE  AddressFollowsLease'
    <2>1. ASSUME Alive PROVE ip4_ifaddr' = LeasedList
      <3>1. ip4_ifaddr = LeasedList \o <<candidate>> \/ ip4_ifaddr = <<candidate>> \o LeasedList
        BY <1>3, <2>1, AddressParts, Zenon DEF LocalList
      <3>2. LeasedList = << >> \/ \E a : a # candidate /\ LeasedList = <<a>>
        BY <1>3, <2>1, LocalIsNoLease
      <3> QED BY <1>3, <3>1, <3>2, RemoveLocal, Zenon
    <2>2. Alive' => ip4_ifaddr' = LeasedList'
      BY <1>0, <2>1, Zenon
    <2> QED BY <1>3, <2>2, AlmostEmptyNext
  <1>4. CASE LLClaim
    BY <1>1, <1>4, ReconciledCases DEF LLClaim, dvars, host
  <1>5. CASE LLHalted
    BY <1>1, <1>3, <1>5 DEF LLHalted, Yield
  <1>6. CASE LLClaimed
    <2>1. ll_state # "BOUND" /\ ll_state' = "BOUND" /\ candidate' = candidate
      BY <1>6 DEF LLClaimed, LinkLocalInv
    <2>2. ASSUME Alive PROVE ip4_ifaddr' = LeasedList \o <<candidate>>
      <3>1. ip4_ifaddr = LeasedList /\ ip4_ifaddr' = Append(ip4_ifaddr, candidate)
        BY <1>6, <2>1, <2>2, AlmostEmpty DEF LLClaimed, AddAddress
      <3>2. LeasedList = << >> \/ \E a : LeasedList = <<a>>
        BY DEF LeasedList
      <3>3. Append(<< >>, candidate) = << >> \o <<candidate>>
        OBVIOUS
      <3> QED BY <3>1, <3>2, <3>3, ShortLists, Zenon
    <2>3. Alive' => ip4_ifaddr' = LeasedList' \o LocalList'
      BY <1>0, <2>1, <2>2, Zenon DEF LocalList
    <2> QED BY <2>3, Zenon DEF AddressFollowsLease, LeasedList, LocalList
  <1>7. CASE LLConflict \/ LLLimitEnds
    BY <1>1, <1>7 DEF LLConflict, LLLimitEnds, LinkLocalInv, dvars, host
  <1>8. CASE LLBound
    <2>1. ll_state = "BOUND"
      BY <1>8, ReconciledCases DEF LLBound
    <2> QED BY <1>2, <1>3, <1>8, <2>1 DEF LLBound
  <1>9. CASE LLStop \/ LLPeer \/ LLPeerSpeaks \/ LLTime
    BY <1>2, <1>9 DEF LLStop, LLPeer, LLPeerSpeaks, LLTime, dvars, host, llvars
  <1> QED BY <1>4, <1>5, <1>6, <1>7, <1>8, <1>9 DEF LLStep

LEMMA StepKeepsAddress ==
    ASSUME ControlInv, LinkLocalInv, AddressFollowsLease, [Next]_vars
    PROVE  AddressFollowsLease'
  <1>0. ASSUME UNCHANGED <<state, pc, lease, cand, ip4_ifaddr, ll_state, candidate>>
        PROVE  AddressFollowsLease'
    BY <1>0 DEF AddressFollowsLease, Leased, Alive
  <1>1. CASE ClientStep
    <2>1. ll_state # "BOUND" /\ ll_state' # "BOUND"
      BY <1>1 DEF ClientStep, LLHolds, LinkLocalInv, llvars
    <2>2. Alive => ip4_ifaddr = LeasedList
      BY <2>1, AlmostEmpty
    <2>3. Alive' => ip4_ifaddr' = LeasedList'
      BY <1>1, <2>2, ClientKeepsAddress DEF ClientStep
    <2> QED BY <2>1, <2>3, AlmostEmptyNext
  <1>2. CASE LLStep \/ LLStop \/ LLPeer \/ LLPeerSpeaks \/ LLTime
    BY <1>2, LinkLocalKeepsAddress
  <1>3. CASE (Environment \/ TimePasses) /\ UNCHANGED llvars
    BY <1>0, <1>3 DEF Environment, ServerReplies, ReplyDropped, TimePasses, PeerArrives,
       PeerSpeaks, client, host, llvars
  <1>4. CASE Stop
    BY <1>4 DEF Stop, AddressFollowsLease, Alive
  <1>5. CASE Restart
    <2>1. ll_state' # "BOUND"
      BY <1>5 DEF Restart
    <2>2. ip4_ifaddr' = LeasedList'
      BY <1>5 DEF Restart, Reboot, LeasedList, Leased
    <2> QED BY <2>1, <2>2, AlmostEmptyNext
  <1>6. CASE UNCHANGED vars
    BY <1>0, <1>6 DEF vars, dvars, client, host, llvars
  <1> QED BY <1>1, <1>2, <1>3, <1>4, <1>5, <1>6 DEF Next, World, Shutdown

-----------------------------------------------------------------------------
(* GrantInv.  Its last conjunct, of the state the client is in. *)

ClaimSound == Alive /\ confirmed /\ Leased =>
                  grant[lease.addr] \in Nat /\ grant[lease.addr] <= age

(* A step that neither sends nor hears of the server. *)
LEMMA GrantQuiet ==
    ASSUME GrantInv, UNCHANGED <<xid, asked, net, grant, plan>>,
           age' \in 0..Span, confirmed' \in BOOLEAN,
           pc' \in {"offer", "collect"} => pc \in {"offer", "collect"},
           pc' \in {"request", "reboot", "exchange"} => pc = pc',
           pc' \in {"probe", "swap"} => grant[cand'.addr] = 0,
           ClaimSound'
    PROVE  GrantInv'
  BY DEF GrantInv, ClaimSound, Expected

(* A new exchange: no reply in flight is for it. *)
LEMMA ExchangeStarts ==
    ASSUME ControlInv, GrantInv, NEW what \in Addr \cup {"any"}, NewExchange(what),
           UNCHANGED <<plan, age, confirmed, lease>>,
           pc' \in {"offer", "reboot", "exchange"}, pc' = "offer" => what = "any",
           Leased' => Alive /\ Leased
    PROVE  GrantInv'
  <1>1. plan.xids \in Nat /\ xid \in 0..(plan.xids + 1) /\ xid' \in 1..(plan.xids + 1)
    BY ClientConstants DEF NewExchange, GrantInv, ControlInv
  <1>2. \A m \in net : m.xid \in 1..plan.xids /\ m.xid <= xid
    BY DEF GrantInv, ControlInv, Replies
  <1>3. \A m \in net : m.xid # xid' /\ m.xid <= xid'
    BY <1>1, <1>2 DEF NewExchange
  <1>4. /\ asked' \in [1..plan.xids -> Addr \cup {None, "any"}]
        /\ \A x \in 1..plan.xids : x > xid' => asked'[x] = None
        /\ xid' <= plan.xids => asked'[xid'] = what
    <2>1. CASE xid < plan.xids
      <3>0. xid' = xid + 1 /\ xid' \in 1..plan.xids
        BY <1>1, <2>1 DEF NewExchange
      <3>1. asked' = [asked EXCEPT ![xid'] = what]
        BY <2>1, <3>0, Zenon DEF NewExchange
      <3>2. /\ asked \in [1..plan.xids -> Addr \cup {None, "any"}]
            /\ \A x \in 1..plan.xids : x > xid => asked[x] = None
        BY DEF GrantInv
      <3> QED BY <1>1, <3>0, <3>1, <3>2
    <2>2. CASE ~(xid < plan.xids)
      BY <1>1, <2>2 DEF NewExchange, GrantInv
    <2> QED BY <2>1, <2>2
  <1>5. net' = net /\ grant' = grant
    BY DEF NewExchange
  <1>6. ClaimSound'
    BY <1>5 DEF GrantInv, ClaimSound
  <1> QED BY SMTT(20), <1>1, <1>3, <1>4, <1>5, <1>6 DEF GrantInv, ClaimSound, Expected

(* The client gives an address back. *)
LEMMA GrantReturned ==
    ASSUME GrantInv, NEW a, grant' = [grant EXCEPT ![a] = None],
           UNCHANGED <<xid, asked, net, confirmed, plan>>, age' \in 0..Span,
           pc' \in {"backoff", "run", "off"}, ~(Alive' /\ Leased')
    PROVE  GrantInv'
  <1>1. grant' \in [Addr -> 0..Span \cup {None}]
    BY DEF GrantInv
  <1> QED BY <1>1 DEF GrantInv

LEMMA ClientKeepsGrant ==
    ASSUME ControlInv, GrantInv, DStep
    PROVE  GrantInv'
  <1>0. /\ age \in 0..Span /\ 0 \in 0..Span /\ confirmed \in BOOLEAN /\ ClaimSound
        /\ pc \in {"probe", "swap"} => grant[cand.addr] = 0
    BY ClientConstants DEF GrantInv, ClaimSound
  <1>1. CASE Discover
    BY <1>1, LeaseFacts, ExchangeStarts DEF Discover, Leased, Alive, ControlInv, ClaimSound
  <1>2. CASE RequestOut
    <2>1. asked' \in [1..plan.xids -> Addr \cup {None, "any"}]
      BY SMTT(20), <1>2, LeaseFacts DEF RequestOut, GrantInv, ControlInv
    <2>2. \A x \in 1..plan.xids : x > xid => asked'[x] = None
      BY <1>2 DEF RequestOut, GrantInv
    <2>3. \A m \in net : ~Expected(m, {"ACK"})
      BY <1>2 DEF RequestOut, GrantInv, Expected
    <2> QED BY <1>2, <2>1, <2>2, <2>3 DEF RequestOut, GrantInv, Leased, Alive, ControlInv, Expected
  <1>3. CASE NoAnswer
    BY <1>3, <1>0, GrantQuiet DEF NoAnswer, TaskEnds, Leased, Alive, ControlInv, wire, ClaimSound
  <1>4. CASE Probed
    <2>1. CASE grant' = grant
      BY <1>4, <2>1, <1>0, GrantQuiet DEF Probed, OnBound, Leased, Alive, ControlInv, wire, ClaimSound
    <2>2. CASE pc' = "backoff" /\ grant' = [grant EXCEPT ![cand.addr] = None]
      BY <1>4, <1>0, <2>2, GrantReturned DEF Probed, OnBound, Leased, ControlInv
    <2> QED BY <1>4, <2>1, <2>2 DEF Probed
  <1>5. CASE BackoffEnds
    BY <1>5, <1>0, GrantQuiet DEF BackoffEnds, StartOver, TaskEnds, Leased, Alive, ControlInv, wire, ClaimSound
  <1>6. CASE Announced
    BY <1>6, <1>0, GrantQuiet DEF Announced, Leased, Alive, ControlInv, wire, ClaimSound
  <1>7. CASE RebootStarts
    <2>1. CASE pc' = "reboot"
      <3>1. lease.addr \in Addr
        BY <1>7, LeaseFacts DEF RebootStarts, ControlInv
      <3> QED BY <1>7, <2>1, <3>1, ExchangeStarts DEF RebootStarts, Leased
    <2>2. CASE pc' = "dnav4"
      BY <1>7, <2>2, <1>0, GrantQuiet DEF RebootStarts, Leased, Alive, ControlInv, wire, ClaimSound
    <2> QED BY <1>7, <2>1, <2>2 DEF RebootStarts
  <1>8. CASE GatewayAnswers
    BY <1>8, <1>0, GrantQuiet DEF GatewayAnswers, OnBound, Leased, Alive, ControlInv, wire, ClaimSound
  <1>9. CASE GatewaySilent
    BY <1>9, LeaseFacts, ExchangeStarts DEF GatewaySilent, Leased, Alive, ControlInv, ClaimSound
  <1>10. CASE RebootSilent
    BY ZenonT(40), <1>10, <1>0, GrantQuiet DEF RebootSilent, OnBound, Leased, Alive, ControlInv, wire, ClaimSound
  <1>11. CASE BoundPass
    BY <1>11, <1>0, GrantQuiet DEF BoundPass, Leased, Alive, ControlInv, wire, ClaimSound
  <1>12. CASE WaitEnds
    BY <1>12, <1>0, GrantQuiet DEF WaitEnds, Leased, Alive, ControlInv, wire, ClaimSound
  <1>13. CASE Declined
    BY <1>13, <1>0, GrantReturned DEF Declined, ResetToInit, Leased
  <1>14. CASE RenewPass
    <2>1. CASE pc' = "exchange"
      BY <1>14, <2>1, LeaseFacts, ExchangeStarts DEF RenewPass, Leased, Alive, ControlInv, ClaimSound
    <2>2. CASE state' = "REBINDING" /\ UNCHANGED <<pc, xid, wire>>
      BY <1>14, <2>2, <1>0, GrantQuiet DEF RenewPass, Leased, Alive, ControlInv, wire, ClaimSound
    <2> QED BY <1>14, <2>1, <2>2 DEF RenewPass
  <1>15. CASE RebindPass
    BY <1>15, LeaseFacts, ExchangeStarts DEF RebindPass, Leased, Alive, ControlInv, ClaimSound
  <1>16. CASE LeaseExpires
    BY <1>16, <1>0, GrantQuiet DEF LeaseExpires, ResetToInit, Leased, Alive, ControlInv, wire, ClaimSound
  <1>17. CASE ExchangeVoid
    BY <1>17, <1>0, GrantQuiet DEF ExchangeVoid, Leased, Alive, ControlInv, wire, ClaimSound
  <1>18. CASE SwapEnds
    BY <1>18, <1>0, GrantQuiet DEF SwapEnds, Leased, Alive, ControlInv, wire, ClaimSound
  <1>19. CASE Fails
    BY <1>19, <1>0, GrantQuiet DEF Fails, TaskEnds, Leased, Alive, ControlInv, wire, ClaimSound
  <1>20. ASSUME NEW m \in net, OfferIn(m) PROVE GrantInv'
    BY SMTT(20), <1>20, <1>0, GrantQuiet DEF OfferIn, TaskEnds, Leased, Alive, ControlInv, wire, ClaimSound
  <1>21. ASSUME NEW m \in net, AckIn(m) PROVE GrantInv'
    <2>1. m.complete => LeaseOf(m).addr = m.lease.addr /\ grant[m.lease.addr] = 0
      BY <1>21 DEF AckIn, LeaseOf, GrantInv, Expected
    <2> QED BY SMTT(20), <1>21, <2>1, <1>0, GrantQuiet DEF AckIn, TaskEnds, Leased, Alive, ControlInv, wire, ClaimSound
  <1>22. ASSUME NEW m \in net, NakIn(m) PROVE GrantInv'
    BY <1>22, <1>0, GrantQuiet DEF NakIn, StartOver, TaskEnds, Leased, Alive, ControlInv, wire, ClaimSound
  <1>23. ASSUME NEW m \in net, RebootAck(m) PROVE GrantInv'
    <2>1. m.complete => LeaseOf(m).addr = m.lease.addr /\ grant[m.lease.addr] = 0
      BY <1>23 DEF RebootAck, LeaseOf, GrantInv, Expected
    <2> QED BY SMTT(20), <1>23, <2>1, <1>0, GrantQuiet DEF RebootAck, OnBound, Leased, Alive, ControlInv, wire, ClaimSound
  <1>24. ASSUME NEW m \in net, RebootRefused(m) PROVE GrantInv'
    BY SMTT(20), <1>24, <1>0, GrantQuiet DEF RebootRefused, ResetToInit, Leased, Alive, ControlInv, wire, ClaimSound
  <1>25. ASSUME NEW m \in net, ExchangeNak(m) PROVE GrantInv'
    BY SMTT(20), <1>25, <1>0, GrantQuiet DEF ExchangeNak, ResetToInit, Leased, Alive, ControlInv, wire, ClaimSound
  <1>26. ASSUME NEW m \in net, Renewed(m) PROVE GrantInv'
    <2>1. m.complete => LeaseOf(m).addr = m.lease.addr /\ grant[m.lease.addr] = 0
      BY <1>26 DEF Renewed, LeaseOf, GrantInv, Expected
    <2> QED BY SMTT(20), <1>26, <2>1, <1>0, GrantQuiet DEF Renewed, Leased, Alive, ControlInv, wire, ClaimSound
  <1>27. ASSUME NEW m \in net, SwapStarts(m) PROVE GrantInv'
    <2>1. m.complete => LeaseOf(m).addr = m.lease.addr /\ grant[m.lease.addr] = 0
      BY SMTT(20), <1>27 DEF SwapStarts, LeaseOf, GrantInv, Expected
    <2> QED BY SMTT(20), <1>27, <2>1, <1>0, GrantQuiet DEF SwapStarts, Leased, Alive, ControlInv, wire, ClaimSound
  <1> QED BY <1>1, <1>2, <1>3, <1>4, <1>5, <1>6, <1>7, <1>8, <1>9, <1>10, <1>11, <1>12, <1>13, <1>14, <1>15, <1>16, <1>17, <1>18, <1>19, <1>20, <1>21, <1>22, <1>23, <1>24, <1>25, <1>26, <1>27 DEF DStep

(* A server's reply starts its binding afresh. *)
LEMMA ReplyKeepsGrant ==
    ASSUME ControlInv, GrantInv, NEW m \in Replies, ServerReplies(m)
    PROVE  GrantInv'
  <1>1. /\ UNCHANGED <<state, pc, lease, cand, age, xid, asked, confirmed, plan>>
        /\ net' = net \cup {m} /\ plan \in Plans /\ m.xid \in 1..plan.xids
    BY DEF ServerReplies, client, ControlInv, Replies
  <1>2. m.xid <= xid
    <2>1. asked[m.xid] # None
      BY ClientConstants DEF ServerReplies
    <2>2. \A x \in 1..plan.xids : x > xid => asked[x] = None
      BY DEF GrantInv
    <2>3. xid \in Nat
      BY DEF GrantInv
    <2> QED BY <1>1, <2>1, <2>2, <2>3
  <1>3. /\ grant' \in [Addr -> 0..Span \cup {None}]
        /\ \A a \in Addr : grant'[a] = grant[a] \/ grant'[a] = 0
        /\ m.type = "ACK" /\ m.complete => m.lease.addr \in Addr /\ grant'[m.lease.addr] = 0
    <2>1. CASE m.type = "ACK" /\ m.complete
      <3>1. m.lease.addr \in Addr
        BY <1>1, <2>1, LeaseOfReply
      <3> QED BY <2>1, <3>1, ClientConstants DEF ServerReplies, GrantInv
    <2>2. CASE ~(m.type = "ACK" /\ m.complete)
      BY <2>2 DEF ServerReplies, GrantInv
    <2> QED BY <2>1, <2>2
  <1>4. ASSUME pc \in {"offer", "collect"}, m.xid = xid PROVE m.type # "ACK"
    BY <1>1, <1>4, ClientConstants DEF ServerReplies, GrantInv
  <1>5. \A n \in net : n.type = "ACK" /\ n.complete => n.lease.addr \in Addr
    BY SMTT(20), <1>1, LeaseOfReply DEF ControlInv
  <1>6. pc \in {"request", "reboot", "exchange"} =>
          \A n \in net' : Expected(n, {"ACK"}) /\ n.complete => grant'[n.lease.addr] = 0
    <2>1. SUFFICES ASSUME pc \in {"request", "reboot", "exchange"}, NEW n \in net',
                          n.type = "ACK", n.xid = xid, n.complete
                   PROVE  grant'[n.lease.addr] = 0
      BY <1>1 DEF Expected
    <2>2. CASE n = m
      BY <1>3, <2>1, <2>2
    <2>3. CASE n \in net
      <3>1. grant[n.lease.addr] = 0
        BY <2>1, <2>3 DEF GrantInv, Expected
      <3> QED BY <1>3, <1>5, <2>1, <2>3, <3>1
    <2> QED BY <1>1, <2>1, <2>2, <2>3
  <1>7. pc \in {"probe", "swap"} => grant'[cand.addr] = 0
    BY <1>3, LeaseFacts DEF GrantInv, ControlInv
  <1>8. ClaimSound'
    <2>1. Leased => lease.addr \in Addr
      BY LeaseFacts DEF Leased, ControlInv
    <2>2. age \in Nat
      BY DEF GrantInv
    <2> QED BY <1>1, <1>3, <2>1, <2>2 DEF GrantInv, ClaimSound, Leased, Alive
  <1>9. /\ \A n \in net' : n.xid <= xid
        /\ pc \in {"offer", "collect"} => \A n \in net' : n.xid = xid => n.type # "ACK"
    BY <1>1, <1>2, <1>4 DEF GrantInv
  <1> QED BY <1>1, <1>3, <1>6, <1>7, <1>8, <1>9 DEF GrantInv, ClaimSound, Expected

(* A phase goes by for the client and for the server alike. *)
LEMMA TimeKeepsGrant ==
    ASSUME ControlInv, GrantInv, TimePasses
    PROVE  GrantInv'
  <1>1. /\ UNCHANGED <<state, pc, lease, cand, xid, asked, net, confirmed, plan>>
        /\ Span \in Nat /\ None \notin Nat
    BY ClientConstants DEF TimePasses
  <1>2. \A n \in 0..Span \cup {None} : Older(n) \in 0..Span \cup {None}
    BY <1>1 DEF Older
  <1>3. /\ age' \in 0..Span
        /\ grant' \in [Addr -> 0..Span \cup {None}]
        /\ \A a \in Addr : grant'[a] = Older(grant[a])
    BY <1>1, <1>2 DEF TimePasses, GrantInv, Older
  <1>4. /\ pc \in {"request", "reboot", "exchange"} => \A m \in net : ~Expected(m, {"ACK"})
        /\ pc \notin {"probe", "swap"}
    BY DEF TimePasses, Prompt
  <1>5. ClaimSound'
    <2>1. SUFFICES ASSUME Alive, confirmed, Leased
                   PROVE  grant'[lease.addr] \in Nat /\ grant'[lease.addr] <= age'
      BY <1>1 DEF ClaimSound, Leased, Alive
    <2>2. lease \in Lease
      BY <2>1 DEF Leased, ControlInv
    <2>3. lease # None /\ lease.addr \in Addr
      BY <2>2, LeaseFacts
    <2>4. age' = Older(age) /\ grant'[lease.addr] = Older(grant[lease.addr])
      BY <1>3, <2>3 DEF TimePasses
    <2>5. /\ age \in 0..Span /\ grant[lease.addr] \in 0..Span
          /\ grant[lease.addr] <= age
      BY <1>1, <2>1, <2>3 DEF GrantInv
    <2> QED BY <1>1, <2>4, <2>5 DEF Older
  <1> QED BY <1>1, <1>3, <1>4, <1>5 DEF GrantInv, ClaimSound, Expected

LEMMA StepKeepsGrant ==
    ASSUME ControlInv, GrantInv, [Next]_vars
    PROVE  GrantInv'
  <1>0. ASSUME UNCHANGED <<state, pc, lease, cand, age, xid, asked, net, grant, confirmed, plan>>
        PROVE  GrantInv'
    BY <1>0 DEF GrantInv, Expected, Leased, Alive
  <1>1. CASE ClientStep
    BY <1>1, ClientKeepsGrant DEF ClientStep
  <1>2. CASE LLStep \/ LLStop \/ LLPeer \/ LLPeerSpeaks \/ LLTime
    BY <1>0, <1>2, LinkLocalFrame DEF client, wire
  <1>3. ASSUME NEW m \in Replies, ServerReplies(m) PROVE GrantInv'
    BY SMTT(20), <1>3, ReplyKeepsGrant
  <1>4. CASE ReplyDropped
    BY <1>4 DEF ReplyDropped, client, GrantInv, Expected, Leased, Alive
  <1>5. CASE TimePasses
    BY <1>5, TimeKeepsGrant
  <1>6. ASSUME NEW a, PeerArrives(a) PROVE GrantInv'
    BY <1>0, <1>6 DEF PeerArrives, client, wire
  <1>7. CASE PeerSpeaks
    BY <1>0, <1>7 DEF PeerSpeaks, client, wire
  <1>8. CASE Stop
    <2>1. /\ UNCHANGED <<age, xid, asked, net, confirmed, plan>> /\ pc' = "off" /\ ~Alive'
          /\ grant' = grant \/ grant' = [grant EXCEPT ![lease.addr] = None]
      BY <1>8 DEF Stop, Alive
    <2>2. age' \in 0..Span /\ confirmed' \in BOOLEAN
      BY <2>1 DEF GrantInv
    <2> QED BY <2>1, <2>2, GrantQuiet, GrantReturned DEF ClaimSound
  <1>9. CASE Reboot
    <2>1. cache.wall \in 0..Span \/ ~Readable
      BY DEF Readable, ControlInv
    <2>2. age' \in 0..Span /\ confirmed' \in BOOLEAN
      BY <1>9, <2>1, ClientConstants DEF Reboot, GrantInv
    <2>3. ~Leased' /\ pc' = "run" /\ UNCHANGED <<xid, asked, net, grant, plan>>
      BY <1>9 DEF Reboot, Leased, wire
    <2> QED BY <2>2, <2>3, GrantQuiet DEF ClaimSound
  <1>10. CASE UNCHANGED vars
    BY <1>0, <1>10 DEF vars, dvars, client, wire
  <1> QED BY SMTT(20), <1>1, <1>2, <1>3, <1>4, <1>5, <1>6, <1>7, <1>8, <1>9, <1>10
          DEF Next, World, Shutdown, Restart, Environment

-----------------------------------------------------------------------------
(* The theorems. *)

LEMMA InitHolds ==
    ASSUME Init
    PROVE  IInv
  <1>1. ControlInv
    BY DEF Init, DInit, ControlInv, States, Alive
  <1>2. SocketInv
    BY DetectorSteps DEF Init, DInit, SocketInv, Detector, Steady
  <1>3. LinkLocalInv
    BY DetectorSteps, LinkLocalConstants DEF Init, LLInit, LinkLocalInv, LLDetector
  <1>4. AddressFollowsLease
    <2>1. ll_state # "BOUND" /\ ip4_ifaddr = LeasedList
      BY DEF Init, DInit, LLInit, LeasedList, Leased
    <2> QED BY <2>1, AlmostEmpty
  <1>5. GrantInv
    <2>1. plan.xids \in Nat /\ Span \in Nat
      BY ClientConstants DEF Init, DInit
    <2> QED BY <2>1 DEF Init, DInit, GrantInv, Leased
  <1> QED BY <1>1, <1>2, <1>3, <1>4, <1>5 DEF IInv

LEMMA Inductive == Spec => []IInv
  <1>1. Init => IInv
    BY InitHolds
  <1>2. IInv /\ [Next]_vars => IInv'
    BY StepKeepsControl, StepKeepsSockets, StepKeepsLinkLocal, StepKeepsAddress, StepKeepsGrant
       DEF IInv
  <1> QED BY <1>1, <1>2, PTL DEF Spec

(* While the client runs the interface carries exactly the leased address and
   the link-local address its two owners stand for (_on_bound, _reset_to_init,
   the swap of a renewal; _release_bound_address and the claim), whatever is
   granted, lost, repeated, refused or contested, and however often the
   process starts again. *)
THEOREM AddressesFollow == Spec => []AddressFollowsLease
  BY Inductive, PTL DEF IInv

(* Neither detector loses or leaks an ARP socket, and a bound owner defends
   the address it uses (Ip4Acd.probe, start_defense, claim and release as the
   two owners call them). *)
THEOREM SocketsAreAccounted == Spec => []SocketsAccounted
  <1>1. IInv => SocketsAccounted
    <2> SUFFICES ASSUME IInv PROVE SocketsAccounted
      OBVIOUS
    <2>1. ASSUME Alive
          PROVE  /\ acd.open = (IF acd.sock THEN 1 ELSE 0)
                               + (IF pc \in {"probe", "dnav4", "announce", "swap"} THEN 1 ELSE 0)
                 /\ state = "BOUND" => acd.sock /\ acd.claimed = lease.addr
      BY <2>1 DEF IInv, SocketInv, ControlInv, Detector, Steady, Holding, Defending
    <2>2. ASSUME ll_pc # "off"
          PROVE  /\ ll_acd.open = IF ll_pc = "claim" \/ ll_state = "BOUND" THEN 1 ELSE 0
                 /\ ll_state = "BOUND" => ll_acd.claimed = candidate
      BY <2>2 DEF IInv, LinkLocalInv, LLDetector, Holding, Defending
    <2> QED BY <2>1, <2>2 DEF SocketsAccounted
  <1> QED BY <1>1, Inductive, PTL

(* The address the client uses under a lease a server has confirmed is one
   the server still grants it: the client's count of the lease, from
   acquired_at_monotonic, is never behind the server's, through renewals, late
   replies of earlier transactions, declines and restarts from the cache. *)
THEOREM GrantOutlives == Spec => []GrantOutlivesLease
  <1>1. IInv => GrantOutlivesLease
    BY ClientConstants DEF IInv, GrantInv, GrantOutlivesLease
  <1> QED BY <1>1, Inductive, PTL

=============================================================================
