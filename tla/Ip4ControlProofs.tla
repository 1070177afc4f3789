-------------------------- MODULE Ip4ControlProofs --------------------------
(* The groundwork of the proofs about Ip4Addressing: short address lists,
   where the client stands in each of its states, and its detector. *)
EXTENDS Ip4Addressing, TLAPS

Steady == {"BOUND", "RENEWING", "REBINDING"}

(* Where the client may be suspended in each of its states, and which leases
   it has at hand there. *)
ControlInv ==
    /\ plan \in Plans
    /\ state \in States /\ pc \in Awaits \cup {"run", "off"}
    /\ pc \in {"offer", "collect", "request", "probe", "backoff"} => state = "INIT"
    /\ pc \in {"dnav4", "reboot"} => state = "INIT_REBOOT"
    /\ pc = "announce" => state \in {"INIT", "INIT_REBOOT"}
    /\ pc \in {"wait", "decline"} => state = "BOUND"
    /\ pc \in {"exchange", "swap"} => state \in {"RENEWING", "REBINDING"}
    /\ Alive /\ state = "INIT" /\ pc # "announce" => lease = None
    /\ state # "INIT" \/ pc = "announce" => lease \in Lease
    /\ pc \in {"collect", "request", "probe", "swap"} => cand \in Lease
    /\ cache = None \/ cache \in [lease : Lease, wall : 0..Span]
    /\ net \subseteq Replies

(* A detector that defends an address, and one that holds no address and has
   n sockets open. *)
Defending(a) == [sock |-> TRUE, claimed |-> a, open |-> 1]
Holding(n) == [sock |-> FALSE, claimed |-> None, open |-> n]

(* The client's detector, as a function of where the client is. *)
Detector ==
    IF state \in Steady /\ pc # "swap" THEN Defending(lease.addr)
    ELSE IF pc \in {"probe", "dnav4", "announce", "swap"} THEN Holding(1) ELSE Holding(0)

SocketInv == Alive => acd = Detector

-----------------------------------------------------------------------------
(* RemoveAddress on the lists an interface can have here. *)

(* One step of the filter on the first i addresses. *)
Kept(list, a, g) ==
    [i \in 0..Len(list) |-> IF i = 0 THEN << >>
                            ELSE IF list[i] # a THEN Append(g[i - 1], list[i])
                            ELSE g[i - 1]]

(* The filter is what its equation says wherever that equation has a
   solution. *)
LEMMA RemoveAddressUnfolds ==
    ASSUME NEW list, NEW a, NEW f, f = Kept(list, a, f)
    PROVE  \E g : g = Kept(list, a, g) /\ RemoveAddress(list, a) = g[Len(list)]
  <1> DEFINE P(g) == g = Kept(list, a, g)
             h == CHOOSE g : P(g)
  <1>1. P(f)
    BY Zenon
  <1>2. P(h)
    BY <1>1, Zenon
  <1>3. RemoveAddress(list, a) = h[Len(list)]
    BY Zenon DEF RemoveAddress, Kept
  <1> HIDE DEF h
  <1> QED BY <1>2, <1>3, Zenon

LEMMA KeptAt ==
    ASSUME NEW list, NEW a, NEW g, Len(list) \in Nat
    PROVE  /\ DOMAIN Kept(list, a, g) = 0..Len(list)
           /\ Kept(list, a, g)[0] = << >>
           /\ 1 <= Len(list) => Kept(list, a, g)[1] =
                IF list[1] # a THEN Append(g[0], list[1]) ELSE g[0]
           /\ 2 <= Len(list) => Kept(list, a, g)[2] =
                IF list[2] # a THEN Append(g[1], list[2]) ELSE g[1]
  <1>1. 0 \in 0..Len(list) /\ (1 <= Len(list) => 1 \in 0..Len(list))
        /\ (2 <= Len(list) => 2 \in 0..Len(list)) /\ 1 - 1 = 0 /\ 2 - 1 = 1
    OBVIOUS
  <1>2. DOMAIN Kept(list, a, g) = 0..Len(list) /\ Kept(list, a, g)[0] = << >>
    BY <1>1, Zenon DEF Kept
  <1>3. ASSUME 1 <= Len(list)
        PROVE  Kept(list, a, g)[1] = IF list[1] # a THEN Append(g[1 - 1], list[1]) ELSE g[1 - 1]
    BY <1>1, <1>3 DEF Kept
  <1>4. ASSUME 2 <= Len(list)
        PROVE  Kept(list, a, g)[2] = IF list[2] # a THEN Append(g[2 - 1], list[2]) ELSE g[2 - 1]
    BY <1>1, <1>4 DEF Kept
  <1> QED BY <1>1, <1>2, <1>3, <1>4, Zenon

LEMMA KeptIsFunction ==
    ASSUME NEW list, NEW a, NEW g
    PROVE  Kept(list, a, g) = [i \in 0..Len(list) |-> Kept(list, a, g)[i]]
  BY Zenon DEF Kept

LEMMA RemoveFromNone ==
    ASSUME NEW a
    PROVE  RemoveAddress(<< >>, a) = << >>
  <1> DEFINE list == << >>
             f == [i \in 0..0 |-> << >>]
  <1>1. Len(list) = 0 /\ 0 \in Nat
    OBVIOUS
  <1>2. \A i \in 0..0 : i = 0
    OBVIOUS
  <1> HIDE DEF list
  <1>3. f = Kept(list, a, f)
    <2>1. DOMAIN Kept(list, a, f) = 0..0 /\ Kept(list, a, f)[0] = << >>
      BY <1>1, KeptAt
    <2>2. Kept(list, a, f) = [i \in 0..0 |-> Kept(list, a, f)[i]]
      BY <1>1, KeptIsFunction, Zenon
    <2> QED BY <1>2, <2>1, <2>2, Zenon
  <1>4. PICK g : g = Kept(list, a, g) /\ RemoveAddress(list, a) = g[Len(list)]
    BY <1>3, RemoveAddressUnfolds, Zenon
  <1>5. g[0] = << >>
    BY <1>1, <1>4, KeptAt
  <1> QED BY <1>1, <1>4, <1>5 DEF list

LEMMA RemoveFromOne ==
    ASSUME NEW x, NEW a
    PROVE  RemoveAddress(<<x>>, a) = IF x # a THEN <<x>> ELSE << >>
  <1> DEFINE list == <<x>>
             one == IF x # a THEN <<x>> ELSE << >>
             f == [i \in 0..1 |-> IF i = 0 THEN << >> ELSE one]
  <1>1. Len(list) = 1 /\ list[1] = x /\ 1 \in Nat
    OBVIOUS
  <1>2. one = IF x # a THEN Append(<< >>, x) ELSE << >>
    OBVIOUS
  <1>3. DOMAIN f = 0..1 /\ f[0] = << >> /\ f[1] = one
    OBVIOUS
  <1> HIDE DEF list, one
  <1>4. f = Kept(list, a, f)
    <2>1. /\ DOMAIN Kept(list, a, f) = 0..1 /\ Kept(list, a, f)[0] = << >>
          /\ Kept(list, a, f)[1] = one
      BY <1>1, <1>2, <1>3, KeptAt
    <2>2. f = [i \in 0..1 |-> f[i]]
      OBVIOUS
    <2> HIDE DEF f
    <2>3. Kept(list, a, f) = [i \in 0..1 |-> Kept(list, a, f)[i]]
      <3>1. Len(list) = 1
        BY <1>1
      <3>2. Kept(list, a, f) = [i \in 0..Len(list) |-> Kept(list, a, f)[i]]
        BY KeptIsFunction, Zenon
      <3> QED BY <3>1, <3>2, Zenon
    <2>4. \A i \in 0..1 : i = 0 \/ i = 1
      OBVIOUS
    <2>5. \A i \in 0..1 : f[i] = Kept(list, a, f)[i]
      BY <1>3, <2>1, <2>4, Zenon
    <2> QED BY <2>2, <2>3, <2>5, Zenon
  <1>5. PICK g : g = Kept(list, a, g) /\ RemoveAddress(list, a) = g[Len(list)]
    BY <1>4, RemoveAddressUnfolds, Zenon
  <1>6. g[1] = one
    BY <1>1, <1>2, <1>5, KeptAt
  <1> QED BY <1>1, <1>5, <1>6 DEF list, one

(* What is left of the list <<x>>. *)
Unless(x, a) == IF x # a THEN <<x>> ELSE << >>

LEMMA RemoveFromTwo ==
    ASSUME NEW x, NEW y, NEW a
    PROVE  RemoveAddress(<<x, y>>, a) = Unless(x, a) \o Unless(y, a)
  <1> DEFINE list == <<x, y>>
             one == IF x # a THEN <<x>> ELSE << >>
             two == IF y # a THEN Append(one, y) ELSE one
             f == [i \in 0..2 |-> IF i = 0 THEN << >> ELSE IF i = 1 THEN one ELSE two]
  <1>1. Len(list) = 2 /\ list[1] = x /\ list[2] = y /\ 2 \in Nat
    OBVIOUS
  <1>2. one = IF x # a THEN Append(<< >>, x) ELSE << >>
    OBVIOUS
  <1>3. two = one \o (IF y # a THEN <<y>> ELSE << >>)
    <2>1. CASE x # a
      <3>1. one = <<x>>
        BY <2>1
      <3>2. Append(<<x>>, y) = <<x>> \o <<y>> /\ <<x>> \o << >> = <<x>>
        OBVIOUS
      <3> QED BY <3>1, <3>2
    <2>2. CASE x = a
      <3>1. one = << >>
        BY <2>2
      <3>2. Append(<< >>, y) = << >> \o <<y>> /\ << >> \o << >> = << >>
        OBVIOUS
      <3> QED BY <3>1, <3>2
    <2> QED BY <2>1, <2>2
  <1>4. DOMAIN f = 0..2 /\ f[0] = << >> /\ f[1] = one /\ f[2] = two
    OBVIOUS
  <1>5. two = IF y # a THEN Append(one, y) ELSE one
    OBVIOUS
  <1> HIDE DEF list, one, two
  <1>6. f = Kept(list, a, f)
    <2>1. /\ DOMAIN Kept(list, a, f) = 0..2 /\ Kept(list, a, f)[0] = << >>
          /\ Kept(list, a, f)[1] = one /\ Kept(list, a, f)[2] = two
      BY <1>1, <1>2, <1>4, <1>5, KeptAt
    <2>2. f = [i \in 0..2 |-> f[i]]
      OBVIOUS
    <2> HIDE DEF f
    <2>3. Kept(list, a, f) = [i \in 0..2 |-> Kept(list, a, f)[i]]
      <3>1. Len(list) = 2
        BY <1>1
      <3>2. Kept(list, a, f) = [i \in 0..Len(list) |-> Kept(list, a, f)[i]]
        BY KeptIsFunction, Zenon
      <3> QED BY <3>1, <3>2, Zenon
    <2>4. \A i \in 0..2 : i = 0 \/ i = 1 \/ i = 2
      OBVIOUS
    <2>5. \A i \in 0..2 : f[i] = Kept(list, a, f)[i]
      BY <1>4, <2>1, <2>4, Zenon
    <2> QED BY <2>2, <2>3, <2>5, Zenon
  <1>7. PICK g : g = Kept(list, a, g) /\ RemoveAddress(list, a) = g[Len(list)]
    BY <1>6, RemoveAddressUnfolds, Zenon
  <1>8. g[0] = << >>
    BY <1>1, <1>7, KeptAt
  <1>9. g[1] = one
    BY <1>1, <1>2, <1>7, <1>8, KeptAt
  <1>10. g[2] = two
    BY <1>1, <1>5, <1>7, <1>9, KeptAt
  <1>11. RemoveAddress(list, a) = two
    BY <1>1, <1>7, <1>10
  <1> QED BY <1>3, <1>11, Zenon DEF list, one, Unless

LEMMA ShortLists ==
    ASSUME NEW x, NEW y
    PROVE  /\ Append(<<x>>, y) = <<x, y>> /\ <<x>> \o <<y>> = <<x, y>>
           /\ <<x>> \o << >> = <<x>> /\ << >> \o <<x>> = <<x>>
  <1>1. Append(<<x>>, y) = <<x, y>>
    <2> DEFINE S == {x, y}
               list == Append(<<x>>, y)
    <2>1. x \in S /\ y \in S
      OBVIOUS
    <2> HIDE DEF S
    <2>2. list \in Seq(S) /\ Len(list) = 2 /\ list[1] = x /\ list[2] = y
      BY <2>1
    <2> HIDE DEF list
    <2>3. list = <<x, y>>
      BY <2>1, <2>2
    <2> QED BY <2>3 DEF list
  <1>2. <<x>> \o <<y>> = <<x, y>>
    <2>1. Append(<<x>>, y) = <<x>> \o <<y>>
      OBVIOUS
    <2> QED BY <1>1, <2>1, Zenon
  <1>3. <<x>> \o << >> = <<x>> /\ << >> \o <<x>> = <<x>>
    OBVIOUS
  <1> QED BY <1>1, <1>2, <1>3

LEMMA RemoveOneOfTwo ==
    ASSUME NEW x, NEW y, x # y
    PROVE  RemoveAddress(<<x, y>>, x) = <<y>> /\ RemoveAddress(<<x, y>>, y) = <<x>>
  <1>1. Unless(x, x) = << >> /\ Unless(y, x) = <<y>> /\ Unless(x, y) = <<x>> /\ Unless(y, y) = << >>
    BY DEF Unless
  <1>2. RemoveAddress(<<x, y>>, x) = Unless(x, x) \o Unless(y, x)
    BY RemoveFromTwo, Zenon
  <1>3. RemoveAddress(<<x, y>>, y) = Unless(x, y) \o Unless(y, y)
    BY RemoveFromTwo, Zenon
  <1>4. << >> \o <<y>> = <<y>>
    OBVIOUS
  <1>5. <<x>> \o << >> = <<x>>
    OBVIOUS
  <1> QED BY <1>1, <1>2, <1>3, <1>4, <1>5, Zenon

-----------------------------------------------------------------------------
(* Leases. *)

LEMMA LeaseFacts ==
    ASSUME NEW l \in Lease
    PROVE  l.addr \in Addr /\ l # None
  BY ClientConstants DEF Lease

(* The lease a complete OFFER or ACK carries is one of the grants. *)
LEMMA LeaseOfReply ==
    ASSUME plan \in Plans, NEW m \in Replies, m.complete, m.type # "NAK"
    PROVE  LeaseOf(m) \in Lease /\ LeaseOf(m).addr = m.lease.addr /\ m.lease.addr \in Addr
  <1>1. m.lease \in plan.leases /\ plan.leases \subseteq Grants
    BY ClientConstants DEF Replies
  <1>2. m.timers \in {<<None, None>>} \cup UNION {p.timers : p \in Plans}
    BY DEF Replies
  <1> QED BY <1>1, <1>2, Zenon DEF LeaseOf, Lease, Addr

-----------------------------------------------------------------------------
(* ControlInv. *)

LEMMA ControlFrame ==
    ASSUME ControlInv, UNCHANGED <<state, pc, lease, cand, cache, net, plan>>
    PROVE  ControlInv'
  BY DEF ControlInv, Alive, Replies

LEMMA CachedLease ==
    ASSUME NEW l \in Lease, WriteCachedLease(l)
    PROVE  cache' \in [lease : Lease, wall : 0..Span]
  <1>1. PICK known \in BOOLEAN : cache' = [lease |-> [l EXCEPT !.mac = known], wall |-> 0]
    BY DEF WriteCachedLease, Lease
  <1>2. [l EXCEPT !.mac = known] \in Lease
    BY Zenon DEF Lease
  <1>3. 0 \in 0..Span
    BY ClientConstants
  <1> QED BY <1>1, <1>2, <1>3, Zenon

(* The client reads replies and changes none; its bounds are fixed. *)
LEMMA ClientFrame ==
    ASSUME DStep
    PROVE  UNCHANGED <<net, plan, boots>>
  <1>1. CASE Discover
    BY <1>1 DEF Discover, NewExchange
  <1>2. CASE RequestOut
    BY <1>2 DEF RequestOut
  <1>3. CASE NoAnswer
    BY <1>3 DEF NoAnswer, TaskEnds, wire
  <1>4. CASE Probed
    BY <1>4 DEF Probed
  <1>5. CASE BackoffEnds
    BY <1>5 DEF BackoffEnds, StartOver, TaskEnds, wire
  <1>6. CASE Announced
    BY <1>6 DEF Announced, wire
  <1>7. CASE RebootStarts
    BY <1>7 DEF RebootStarts, NewExchange, wire
  <1>8. CASE GatewayAnswers
    BY <1>8 DEF GatewayAnswers, OnBound, wire
  <1>9. CASE GatewaySilent
    BY <1>9 DEF GatewaySilent, NewExchange
  <1>10. CASE RebootSilent
    BY <1>10 DEF RebootSilent, OnBound, wire
  <1>11. CASE BoundPass
    BY <1>11 DEF BoundPass, wire
  <1>12. CASE WaitEnds
    BY <1>12 DEF WaitEnds, wire
  <1>13. CASE Declined
    BY <1>13 DEF Declined, ResetToInit
  <1>14. CASE RenewPass
    BY <1>14 DEF RenewPass, NewExchange, wire
  <1>15. CASE RebindPass
    BY <1>15 DEF RebindPass, NewExchange
  <1>16. CASE LeaseExpires
    BY <1>16 DEF LeaseExpires, ResetToInit, wire
  <1>17. CASE ExchangeVoid
    BY <1>17 DEF ExchangeVoid, wire
  <1>18. CASE SwapEnds
    BY <1>18 DEF SwapEnds, wire
  <1>19. CASE Fails
    BY <1>19 DEF Fails, TaskEnds, wire
  <1>20. ASSUME NEW m \in net, OfferIn(m) PROVE UNCHANGED <<net, plan, boots>>
    BY <1>20 DEF OfferIn, TaskEnds, wire
  <1>21. ASSUME NEW m \in net, AckIn(m) PROVE UNCHANGED <<net, plan, boots>>
    BY <1>21 DEF AckIn, TaskEnds, wire
  <1>22. ASSUME NEW m \in net, NakIn(m) PROVE UNCHANGED <<net, plan, boots>>
    BY <1>22 DEF NakIn, StartOver, TaskEnds, wire
  <1>23. ASSUME NEW m \in net, RebootAck(m) PROVE UNCHANGED <<net, plan, boots>>
    BY <1>23 DEF RebootAck, OnBound, wire
  <1>24. ASSUME NEW m \in net, RebootRefused(m) PROVE UNCHANGED <<net, plan, boots>>
    BY <1>24 DEF RebootRefused, ResetToInit, wire
  <1>25. ASSUME NEW m \in net, ExchangeNak(m) PROVE UNCHANGED <<net, plan, boots>>
    BY <1>25 DEF ExchangeNak, ResetToInit, wire
  <1>26. ASSUME NEW m \in net, Renewed(m) PROVE UNCHANGED <<net, plan, boots>>
    BY <1>26 DEF Renewed, wire
  <1>27. ASSUME NEW m \in net, SwapStarts(m) PROVE UNCHANGED <<net, plan, boots>>
    BY <1>27 DEF SwapStarts, wire
  <1> QED BY <1>1, <1>2, <1>3, <1>4, <1>5, <1>6, <1>7, <1>8, <1>9, <1>10, <1>11, <1>12, <1>13, <1>14, <1>15, <1>16, <1>17, <1>18, <1>19, <1>20, <1>21, <1>22, <1>23, <1>24, <1>25, <1>26, <1>27 DEF DStep

LEMMA ClientKeepsControl ==
    ASSUME ControlInv, DStep
    PROVE  ControlInv'
  <1>0. /\ plan \in Plans /\ net \subseteq Replies
        /\ plan' = plan /\ net' = net /\ Replies' = Replies
    BY ClientFrame DEF ControlInv, Replies
  <1>1. CASE Discover
    BY <1>1, <1>0 DEF Discover, NewExchange, ControlInv, States, Awaits, Alive
  <1>2. CASE RequestOut
    BY <1>2, <1>0 DEF RequestOut, ControlInv, States, Awaits, Alive
  <1>3. CASE NoAnswer
    BY <1>3, <1>0 DEF NoAnswer, TaskEnds, wire, ControlInv, States, Awaits, Alive
  <1>4. CASE Probed
    <2>1. CASE OnBound(cand, [acd EXCEPT !.open = @ - 1]) /\ cand' = None
      BY <1>4, <1>0, <2>1 DEF Probed, OnBound, ControlInv, States, Awaits, Alive
    <2>2. CASE pc' = "backoff" /\ UNCHANGED <<lease, cand>>
      BY <1>4, <1>0, <2>2 DEF Probed, ControlInv, States, Awaits, Alive
    <2> QED BY <1>4, <2>1, <2>2 DEF Probed
  <1>5. CASE BackoffEnds
    BY <1>5, <1>0 DEF BackoffEnds, StartOver, TaskEnds, wire, ControlInv, States, Awaits, Alive
  <1>6. CASE Announced
    <2>1. lease \in Lease
      BY <1>6 DEF Announced, ControlInv
    <2>2. cache' \in [lease : Lease, wall : 0..Span]
      BY <1>6, <2>1, CachedLease DEF Announced
    <2> QED BY <1>6, <1>0, <2>1, <2>2 DEF Announced, ControlInv, States, Awaits, Alive
  <1>7. CASE RebootStarts
    BY <1>7, <1>0 DEF RebootStarts, NewExchange, wire, ControlInv, States, Awaits, Alive
  <1>8. CASE GatewayAnswers
    BY <1>8, <1>0 DEF GatewayAnswers, OnBound, wire, ControlInv, States, Awaits, Alive
  <1>9. CASE GatewaySilent
    BY <1>9, <1>0 DEF GatewaySilent, NewExchange, ControlInv, States, Awaits, Alive
  <1>10. CASE RebootSilent
    BY <1>10, <1>0 DEF RebootSilent, OnBound, wire, ControlInv, States, Awaits, Alive
  <1>11. CASE BoundPass
    BY <1>11, <1>0 DEF BoundPass, wire, ControlInv, States, Awaits, Alive
  <1>12. CASE WaitEnds
    BY <1>12, <1>0 DEF WaitEnds, wire, ControlInv, States, Awaits, Alive
  <1>13. CASE Declined
    BY <1>13, <1>0 DEF Declined, ResetToInit, ControlInv, States, Awaits, Alive
  <1>14. CASE RenewPass
    BY <1>14, <1>0 DEF RenewPass, NewExchange, wire, ControlInv, States, Awaits, Alive
  <1>15. CASE RebindPass
    BY <1>15, <1>0 DEF RebindPass, NewExchange, ControlInv, States, Awaits, Alive
  <1>16. CASE LeaseExpires
    BY <1>16, <1>0 DEF LeaseExpires, ResetToInit, wire, ControlInv, States, Awaits, Alive
  <1>17. CASE ExchangeVoid
    BY <1>17, <1>0 DEF ExchangeVoid, wire, ControlInv, States, Awaits, Alive
  <1>18. CASE SwapEnds
    BY <1>18, <1>0 DEF SwapEnds, wire, ControlInv, States, Awaits, Alive
  <1>19. CASE Fails
    BY <1>19, <1>0 DEF Fails, TaskEnds, wire, ControlInv, States, Awaits, Alive
  <1>20. ASSUME NEW m \in net, OfferIn(m) PROVE ControlInv'
    <2>1. m.complete => LeaseOf(m) \in Lease
      BY <1>20, <1>0, LeaseOfReply DEF OfferIn, Expected
    <2> QED BY <1>20, <1>0, <2>1 DEF OfferIn, TaskEnds, ControlInv, States, Awaits, Alive
  <1>21. ASSUME NEW m \in net, AckIn(m) PROVE ControlInv'
    <2>1. m.complete => LeaseOf(m) \in Lease
      BY <1>21, <1>0, LeaseOfReply DEF AckIn, Expected
    <2> QED BY <1>21, <1>0, <2>1 DEF AckIn, TaskEnds, ControlInv, States, Awaits, Alive
  <1>22. ASSUME NEW m \in net, NakIn(m) PROVE ControlInv'
    BY <1>22, <1>0 DEF NakIn, StartOver, TaskEnds, wire, ControlInv, States, Awaits, Alive
  <1>23. ASSUME NEW m \in net, RebootAck(m) PROVE ControlInv'
    <2>1. LeaseOf(m) \in Lease
      BY <1>23, <1>0, LeaseOfReply DEF RebootAck, Expected
    <2> QED BY <1>23, <1>0, <2>1 DEF RebootAck, OnBound, ControlInv, States, Awaits, Alive
  <1>24. ASSUME NEW m \in net, RebootRefused(m) PROVE ControlInv'
    BY <1>24, <1>0 DEF RebootRefused, ResetToInit, wire, ControlInv, States, Awaits, Alive
  <1>25. ASSUME NEW m \in net, ExchangeNak(m) PROVE ControlInv'
    BY <1>25, <1>0 DEF ExchangeNak, ResetToInit, wire, ControlInv, States, Awaits, Alive
  <1>26. ASSUME NEW m \in net, Renewed(m) PROVE ControlInv'
    <2>1. LeaseOf(m) \in Lease
      BY <1>26, <1>0, LeaseOfReply DEF Renewed, Expected
    <2>2. cache' \in [lease : Lease, wall : 0..Span]
      BY <1>26, <2>1, CachedLease DEF Renewed
    <2> QED BY <1>26, <1>0, <2>1, <2>2 DEF Renewed, ControlInv, States, Awaits, Alive
  <1>27. ASSUME NEW m \in net, SwapStarts(m) PROVE ControlInv'
    <2>1. LeaseOf(m) \in Lease
      BY <1>27, <1>0, LeaseOfReply DEF SwapStarts, Expected
    <2> QED BY <1>27, <1>0, <2>1 DEF SwapStarts, ControlInv, States, Awaits, Alive
  <1> QED BY <1>1, <1>2, <1>3, <1>4, <1>5, <1>6, <1>7, <1>8, <1>9, <1>10, <1>11, <1>12, <1>13, <1>14, <1>15, <1>16, <1>17, <1>18, <1>19, <1>20, <1>21, <1>22, <1>23, <1>24, <1>25, <1>26, <1>27 DEF DStep

(* Servers, time, neighbours, a shutdown and a restart. *)
LEMMA WorldKeepsControl ==
    ASSUME ControlInv, Environment \/ TimePasses \/ Stop \/ Reboot
    PROVE  ControlInv'
  <1>1. ASSUME NEW m \in Replies, ServerReplies(m) PROVE ControlInv'
    <2>1. plan' = plan /\ net' = net \cup {m} /\ net \subseteq Replies
      BY <1>1 DEF ServerReplies, ControlInv
    <2>2. net' \subseteq Replies'
      <3>1. Replies' = Replies
        BY <2>1, Zenon DEF Replies
      <3> QED BY <1>1, <2>1, <3>1, Zenon
    <2> QED BY <1>1, <2>1, <2>2 DEF ServerReplies, client, ControlInv, Alive
  <1>2. CASE ReplyDropped
    BY <1>2 DEF ReplyDropped, client, ControlInv, Alive, Replies
  <1>3. CASE TimePasses
    <2>1. cache' = None \/ cache' \in [lease : Lease, wall : 0..Span]
      <3>1. CASE cache = None
        BY <1>3, <3>1 DEF TimePasses
      <3>2. CASE cache # None
        <4>1. cache \in [lease : Lease, wall : 0..Span] /\ Span \in Nat
          BY <3>2, ClientConstants DEF ControlInv
        <4>2. Older(cache.wall) \in 0..Span
          BY <4>1 DEF Older
        <4>3. cache' = [cache EXCEPT !.wall = Older(cache.wall)]
          BY <1>3, <3>2, <4>1 DEF TimePasses
        <4> QED BY <4>1, <4>2, <4>3, Zenon
      <3> QED BY <3>1, <3>2
    <2> QED BY <1>3, <2>1 DEF TimePasses, ControlInv, Alive, Replies
  <1>4. ASSUME NEW a, PeerArrives(a) PROVE ControlInv'
    BY <1>4, ControlFrame DEF PeerArrives, client, wire
  <1>5. CASE PeerSpeaks
    BY <1>5, ControlFrame DEF PeerSpeaks, client, wire
  <1>6. CASE Stop
    BY <1>6 DEF Stop, ControlInv, Alive, Awaits, Replies
  <1>7. CASE Reboot
    <2>1. Readable => cache.lease \in Lease
      BY DEF Readable, ControlInv
    <2> QED BY <1>7, <2>1 DEF Reboot, wire, ControlInv, Alive, States, Replies
  <1> QED BY <1>1, <1>2, <1>3, <1>4, <1>5, <1>6, <1>7 DEF Environment

(* The link-local task and its timers touch nothing of the client's. *)
LEMMA LinkLocalFrame ==
    ASSUME LLStep \/ LLStop \/ LLPeer \/ LLPeerSpeaks \/ LLTime
    PROVE  UNCHANGED <<client, fib, wire, cache, heard, confirmed, boots, plan>>
  BY DEF LLStep, LLClaim, LLHalted, LLClaimed, LLConflict, LLLimitEnds, LLBound,
         LLStop, LLPeer, LLPeerSpeaks, LLTime, dvars, host

LEMMA StepKeepsControl ==
    ASSUME ControlInv, [Next]_vars
    PROVE  ControlInv'
  <1>1. CASE ClientStep
    BY <1>1, ClientKeepsControl DEF ClientStep
  <1>2. CASE LLStep \/ LLStop \/ LLPeer \/ LLPeerSpeaks \/ LLTime
    BY <1>2, LinkLocalFrame, ControlFrame DEF client, wire
  <1>3. CASE Environment \/ TimePasses \/ Stop \/ Reboot
    BY <1>3, WorldKeepsControl
  <1>4. CASE UNCHANGED vars
    BY <1>4, ControlFrame DEF vars, dvars, client, wire
  <1> QED BY <1>1, <1>2, <1>3, <1>4 DEF Next, World, Shutdown, Restart

-----------------------------------------------------------------------------
(* SocketInv. *)

LEMMA DetectorRecord ==
    ASSUME NEW s, NEW c, NEW n, NEW d \in [sock : {s}, claimed : {c}, open : {n}]
    PROVE  d = [sock |-> s, claimed |-> c, open |-> n]
  OBVIOUS

LEMMA DetectorSteps ==
    /\ NoAcd = Holding(0)
    /\ AcdOpen(Holding(0)) = Holding(1)
    /\ [Holding(1) EXCEPT !.open = @ - 1] = Holding(0)
    /\ \A a : AcdHold(Holding(1), a) = Defending(a)
    /\ \A a : AcdRelease(Defending(a)) = Holding(0)
    /\ AcdRelease(Holding(0)) = Holding(0)
  <1>1. NoAcd = Holding(0) /\ AcdRelease(Holding(0)) = Holding(0)
    BY DEF NoAcd, Holding, AcdRelease
  <1>2. AcdOpen(Holding(0)) = Holding(1)
    <2>1. AcdOpen(Holding(0)) = [Holding(0) EXCEPT !.open = 1]
      BY DEF AcdOpen, Holding
    <2>2. [Holding(0) EXCEPT !.open = 1] \in [sock : {FALSE}, claimed : {None}, open : {1}]
      BY DEF Holding
    <2> QED BY <2>1, <2>2, DetectorRecord, Zenon DEF Holding
  <1>3. [Holding(1) EXCEPT !.open = @ - 1] = Holding(0)
    <2>1. [Holding(1) EXCEPT !.open = @ - 1] = [Holding(1) EXCEPT !.open = 0]
      BY DEF Holding
    <2>2. [Holding(1) EXCEPT !.open = 0] \in [sock : {FALSE}, claimed : {None}, open : {0}]
      BY DEF Holding
    <2> QED BY <2>1, <2>2, DetectorRecord, Zenon DEF Holding
  <1>4. ASSUME NEW a PROVE AcdHold(Holding(1), a) = Defending(a)
    <2>1. AcdHold(Holding(1), a) \in [sock : {TRUE}, claimed : {a}, open : {1}]
      BY DEF AcdHold, Holding
    <2> QED BY <2>1, DetectorRecord, Zenon DEF Defending
  <1>5. ASSUME NEW a PROVE AcdRelease(Defending(a)) = Holding(0)
    BY DEF AcdRelease, Holding, Defending
  <1> QED BY <1>1, <1>2, <1>3, <1>4, <1>5, Zenon

LEMMA ClientKeepsSockets ==
    ASSUME ControlInv, SocketInv, DStep
    PROVE  SocketInv'
  <1>1. CASE Discover
    BY <1>1, DetectorSteps DEF Discover, NewExchange, SocketInv, Detector, Steady, ControlInv, Alive, States, Awaits
  <1>2. CASE RequestOut
    BY <1>2, DetectorSteps DEF RequestOut, SocketInv, Detector, Steady, ControlInv, Alive, States, Awaits
  <1>3. CASE NoAnswer
    BY <1>3, DetectorSteps DEF NoAnswer, TaskEnds, wire, SocketInv, Detector, Steady, ControlInv, Alive, States, Awaits
  <1>4. CASE Probed
    <2>1. acd = Holding(1) /\ state = "INIT"
      BY <1>4 DEF Probed, SocketInv, Detector, Steady, ControlInv, Alive
    <2>2. CASE OnBound(cand, [acd EXCEPT !.open = @ - 1])
      BY <1>4, <2>1, <2>2, DetectorSteps DEF Probed, OnBound, SocketInv, Detector, Steady
    <2>3. CASE pc' = "backoff" /\ acd' = [acd EXCEPT !.open = @ - 1]
      BY <1>4, <2>1, <2>3, DetectorSteps DEF Probed, SocketInv, Detector, Steady
    <2> QED BY <1>4, <2>2, <2>3 DEF Probed
  <1>5. CASE BackoffEnds
    BY <1>5, DetectorSteps DEF BackoffEnds, StartOver, TaskEnds, wire, SocketInv, Detector, Steady, ControlInv, Alive, States, Awaits
  <1>6. CASE Announced
    BY <1>6, DetectorSteps DEF Announced, SocketInv, Detector, Steady, ControlInv, Alive, States, Awaits
  <1>7. CASE RebootStarts
    BY <1>7, DetectorSteps DEF RebootStarts, NewExchange, wire, SocketInv, Detector, Steady, ControlInv, Alive, States, Awaits
  <1>8. CASE GatewayAnswers
    BY <1>8, DetectorSteps DEF GatewayAnswers, OnBound, wire, SocketInv, Detector, Steady, ControlInv, Alive, States, Awaits
  <1>9. CASE GatewaySilent
    BY <1>9, DetectorSteps DEF GatewaySilent, NewExchange, SocketInv, Detector, Steady, ControlInv, Alive, States, Awaits
  <1>10. CASE RebootSilent
    BY <1>10, DetectorSteps DEF RebootSilent, OnBound, wire, SocketInv, Detector, Steady, ControlInv, Alive, States, Awaits
  <1>11. CASE BoundPass
    BY <1>11, DetectorSteps DEF BoundPass, wire, SocketInv, Detector, Steady, ControlInv, Alive, States, Awaits
  <1>12. CASE WaitEnds
    BY <1>12, DetectorSteps DEF WaitEnds, wire, SocketInv, Detector, Steady, ControlInv, Alive, States, Awaits
  <1>13. CASE Declined
    BY <1>13, DetectorSteps DEF Declined, ResetToInit, SocketInv, Detector, Steady, ControlInv, Alive, States, Awaits
  <1>14. CASE RenewPass
    BY <1>14, DetectorSteps DEF RenewPass, NewExchange, wire, SocketInv, Detector, Steady, ControlInv, Alive, States, Awaits
  <1>15. CASE RebindPass
    BY <1>15, DetectorSteps DEF RebindPass, NewExchange, SocketInv, Detector, Steady, ControlInv, Alive, States, Awaits
  <1>16. CASE LeaseExpires
    BY <1>16, DetectorSteps DEF LeaseExpires, ResetToInit, wire, SocketInv, Detector, Steady, ControlInv, Alive, States, Awaits
  <1>17. CASE ExchangeVoid
    BY <1>17, DetectorSteps DEF ExchangeVoid, wire, SocketInv, Detector, Steady, ControlInv, Alive, States, Awaits
  <1>18. CASE SwapEnds
    BY <1>18, DetectorSteps DEF SwapEnds, wire, SocketInv, Detector, Steady, ControlInv, Alive, States, Awaits
  <1>19. CASE Fails
    BY <1>19, DetectorSteps DEF Fails, TaskEnds, wire, SocketInv, Detector, Steady, ControlInv, Alive, States, Awaits
  <1>20. ASSUME NEW m \in net, OfferIn(m) PROVE SocketInv'
    BY <1>20, DetectorSteps DEF OfferIn, TaskEnds, wire, SocketInv, Detector, Steady, ControlInv, Alive, States, Awaits
  <1>21. ASSUME NEW m \in net, AckIn(m) PROVE SocketInv'
    BY <1>21, DetectorSteps DEF AckIn, TaskEnds, wire, SocketInv, Detector, Steady, ControlInv, Alive, States, Awaits
  <1>22. ASSUME NEW m \in net, NakIn(m) PROVE SocketInv'
    BY <1>22, DetectorSteps DEF NakIn, StartOver, TaskEnds, wire, SocketInv, Detector, Steady, ControlInv, Alive, States, Awaits
  <1>23. ASSUME NEW m \in net, RebootAck(m) PROVE SocketInv'
    BY <1>23, DetectorSteps DEF RebootAck, OnBound, wire, SocketInv, Detector, Steady, ControlInv, Alive, States, Awaits
  <1>24. ASSUME NEW m \in net, RebootRefused(m) PROVE SocketInv'
    BY <1>24, DetectorSteps DEF RebootRefused, ResetToInit, wire, SocketInv, Detector, Steady, ControlInv, Alive, States, Awaits
  <1>25. ASSUME NEW m \in net, ExchangeNak(m) PROVE SocketInv'
    BY <1>25, DetectorSteps DEF ExchangeNak, ResetToInit, wire, SocketInv, Detector, Steady, ControlInv, Alive, States, Awaits
  <1>26. ASSUME NEW m \in net, Renewed(m) PROVE SocketInv'
    <2>1. acd = Defending(lease.addr) /\ acd' = acd
      BY <1>26 DEF Renewed, SocketInv, Detector, Steady, ControlInv, Alive
    <2>2. lease'.addr = lease.addr
      BY <1>26 DEF Renewed, LeaseOf
    <2> QED BY <1>26, <2>1, <2>2 DEF Renewed, SocketInv, Detector, Steady
  <1>27. ASSUME NEW m \in net, SwapStarts(m) PROVE SocketInv'
    <2>1. acd = Defending(lease.addr) /\ state \in Steady
      BY <1>27 DEF SwapStarts, SocketInv, Detector, Steady, ControlInv, Alive
    <2>2. acd' = Holding(1) /\ pc' = "swap"
      BY <1>27, <2>1, DetectorSteps, Zenon DEF SwapStarts
    <2> QED BY <2>2, Zenon DEF SocketInv, Detector
  <1> QED BY <1>1, <1>2, <1>3, <1>4, <1>5, <1>6, <1>7, <1>8, <1>9, <1>10, <1>11, <1>12, <1>13, <1>14, <1>15, <1>16, <1>17, <1>18, <1>19, <1>20, <1>21, <1>22, <1>23, <1>24, <1>25, <1>26, <1>27 DEF DStep

LEMMA StepKeepsSockets ==
    ASSUME ControlInv, SocketInv, [Next]_vars
    PROVE  SocketInv'
  <1>0. ASSUME UNCHANGED <<state, pc, lease, acd>> PROVE SocketInv'
    BY <1>0 DEF SocketInv, Detector, Alive
  <1>1. CASE ClientStep
    BY <1>1, ClientKeepsSockets DEF ClientStep
  <1>2. CASE LLStep \/ LLStop \/ LLPeer \/ LLPeerSpeaks \/ LLTime
    BY <1>0, <1>2, LinkLocalFrame DEF client
  <1>3. CASE Environment \/ TimePasses
    BY <1>0, <1>3 DEF Environment, ServerReplies, ReplyDropped, TimePasses, PeerArrives,
       PeerSpeaks, client
  <1>4. CASE Stop
    BY <1>4 DEF Stop, SocketInv, Alive
  <1>5. CASE Reboot
    BY <1>5, DetectorSteps DEF Reboot, SocketInv, Detector, Steady
  <1>6. CASE UNCHANGED vars
    BY <1>0, <1>6 DEF vars, dvars, client
  <1> QED BY <1>1, <1>2, <1>3, <1>4, <1>5, <1>6 DEF Next, World, Shutdown, Restart

=============================================================================
