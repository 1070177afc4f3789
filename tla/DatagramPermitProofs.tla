------------------------ MODULE DatagramPermitProofs ------------------------
(***************************************************************************)
(* The semaphores of the datagram sockets, for every set of sockets, every *)
(* plan of calls and arrivals, and every limit:                            *)
(*                                                                         *)
(*   PermitsHold      Spec => []PermitsMatchQueue                          *)
(*                                                                         *)
(* It rests on the line in front of each semaphore: a waiting read stands  *)
(* in exactly one line, once.                                              *)
(***************************************************************************)
EXTENDS DatagramSockets, FiniteSetTheorems, WellFoundedInduction, TLAPS

Calls == UNION {plan.todo : plan \in Plans}

(* What a queue holds: packets, and the entries made of ICMP errors. *)
Items == Calls \cup {build_icmp_error_entry(p) : p \in Calls} \cup {TooBigEntry(p) : p \in Calls}

Waiter == [call : Calls, granted : BOOLEAN]

Queue == [queue : Seq(Items), value : Nat, waiters : Seq(Waiter)]

Fields == {"laddr", "lport", "raddr", "rport", "unreachable", "closed", "rx", "errors", "adapter", "signals"}

(* The line of the reads of one socket and one queue: each of them is      *)
(* waiting, is a read of that queue, and stands in it once.                *)
InLine(q, s, box, waiting) ==
    /\ \A i \in DOMAIN q.waiters :
           LET c == q.waiters[i].call
           IN  c \in waiting /\ c.sock = s /\ Box(c) = box
    /\ \A i, j \in DOMAIN q.waiters : q.waiters[i].call = q.waiters[j].call => i = j

QueueInv(q, s, box, waiting) == q \in Queue /\ InLine(q, s, box, waiting)

SocketInv(rec, s, waiting) ==
    /\ DOMAIN rec = Fields
    /\ QueueInv(rec.rx, s, "rx", waiting)
    /\ QueueInv(rec.errors, s, "errors", waiting)
    /\ rec.closed \/ Counts(rec.rx)
    /\ Counts(rec.errors)

ReadInv ==
    /\ todo \subseteq Calls
    /\ reading \subseteq Calls
    /\ reading \cap todo = {}
    /\ \A c \in reading : c.sock \in Socket

PermitInv ==
    /\ ReadInv
    /\ DOMAIN socks = Socket
    /\ \A s \in Socket : SocketInv(socks[s], s, reading)

-----------------------------------------------------------------------------
(* Places in a line.                                                       *)

(* Every non-empty set of naturals has a least element. *)
LEMMA LeastPlace ==
    ASSUME NEW T, T \subseteq Nat, T # {}
    PROVE  \E x \in T : \A y \in T : x <= y
<1> DEFINE R == OpToRel(<, Nat)
<1>1. IsWellFoundedOn(R, Nat) BY NatLessThanWellFounded
<1> HIDE DEF R
<1>2. PICK x \in T : \A y \in T : ~(<<y, x>> \in R) BY <1>1, WFMin, Zenon
<1>3. \A y \in T : ~(y < x) BY <1>2, Zenon DEF R, OpToRel
<1> QED BY <1>3

(* Every non-empty set of places of a line has a last one. *)
LEMMA LastPlace ==
    ASSUME NEW n \in Nat, NEW T, T \subseteq 1..n, T # {}
    PROVE  \E x \in T : \A y \in T : y <= x
<1> DEFINE U == {n - x : x \in T}
<1>1. U \subseteq Nat
  <2>1. \A x \in T : n - x \in Nat OBVIOUS
  <2> QED BY <2>1
<1>2. U # {} OBVIOUS
<1> HIDE DEF U
<1>3. PICK u \in U : \A v \in U : u <= v BY <1>1, <1>2, LeastPlace
<1>4. PICK x \in T : u = n - x BY DEF U
<1>5. \A y \in T : n - y \in U BY DEF U
<1>6. \A y \in T : n - x <= n - y BY <1>3, <1>4, <1>5
<1> QED BY <1>4, <1>6

(* The places of a line are finitely many, and so are the granted ones. *)
LEMMA PlacesFinite ==
    ASSUME NEW n \in Nat, NEW T, T \subseteq 1..n
    PROVE  IsFiniteSet(T) /\ Cardinality(T) \in Nat
<1>1. IsFiniteSet(1..n) BY FS_Interval
<1>2. IsFiniteSet(T) BY <1>1, FS_Subset
<1> QED BY <1>2, FS_CardinalityType

Ahead(pending, i) == {j \in pending : j < i}

(* _wake_up_next, called n times, wakes n readers at most, and at least one *)
(* if there is one that waits.                                              *)
LEMMA FirstFew ==
    ASSUME NEW len \in Nat, NEW pending, pending \subseteq 1..len, NEW n \in Nat,
           NEW first, first \subseteq pending,
           \A i \in pending : i \in first <=> Cardinality(Ahead(pending, i)) < n
    PROVE  /\ Cardinality(first) \in 0..n
           /\ pending # {} /\ n > 0 => first # {}
<1>1. first \subseteq pending /\ IsFiniteSet(first) /\ Cardinality(first) \in Nat BY PlacesFinite
<1>0. pending \subseteq Nat /\ \A y \in pending : y \in Int
  <2>1. \A y \in 1..len : y \in Nat OBVIOUS
  <2> QED BY <2>1
<1>2. Cardinality(first) <= n
  <2>1. CASE first = {} BY <2>1, FS_EmptySet
  <2>2. CASE first # {}
    <3>1. PICK m \in first : \A y \in first : y <= m BY <1>1, <2>2, LastPlace
    <3>0. \A y \in first \ {m} : y < m BY <3>1, <1>0, <1>1
    <3> DEFINE B == Ahead(pending, m)
    <3>2. Cardinality(B) < n BY <3>1
    <3>3. B \subseteq 1..len /\ first \ {m} \subseteq B BY <1>1, <3>0 DEF Ahead
    <3>4. IsFiniteSet(B) /\ Cardinality(B) \in Nat BY <3>3, PlacesFinite
    <3>5. Cardinality(first \ {m}) <= Cardinality(B) BY <3>3, <3>4, FS_Subset
    <3>6. Cardinality(first \ {m}) = Cardinality(first) - 1 BY <1>1, <3>1, FS_RemoveElement
    <3> HIDE DEF B
    <3> QED BY <1>1, <3>2, <3>4, <3>5, <3>6
  <2> QED BY <2>1, <2>2
<1>3. ASSUME pending # {}, n > 0 PROVE first # {}
  <2>1. PICK k \in pending : \A y \in pending : k <= y BY <1>0, <1>3, LeastPlace
  <2>2. Ahead(pending, k) = {}
    <3>1. \A y \in pending : ~(y < k) BY <1>0, <2>1
    <3> QED BY <3>1 DEF Ahead
  <2>3. Cardinality(Ahead(pending, k)) < n BY <2>2, <1>3, FS_EmptySet
  <2> QED BY <2>1, <2>3
<1> QED BY <1>1, <1>2, <1>3

-----------------------------------------------------------------------------
(* The semaphore.                                                          *)

GrantedPlaces(w) == {i \in DOMAIN w : w[i].granted}

SameCalls(w, v) == DOMAIN v = DOMAIN w /\ \A i \in DOMAIN w : v[i].call = w[i].call

(* Semaphore._wake_up_next turns free permits into granted ones, and leaves *)
(* nobody waiting next to a free permit unless a granted reader is due.     *)
LEMMA WakeUp ==
    ASSUME NEW q \in Queue, NEW n \in Nat, n <= q.value, n = 0 => q.value = 0
    PROVE  LET r == wake_up(q, n)
           IN  /\ r \in Queue /\ r.queue = q.queue
               /\ SameCalls(q.waiters, r.waiters)
               /\ r.value + GrantedIn(r) = q.value + GrantedIn(q)
               /\ r.value > 0 => GrantedIn(r) > 0 \/ r.waiters = <<>>
<1> DEFINE w == q.waiters
           len == Len(w)
           pending == {i \in DOMAIN w : ~w[i].granted}
           first == {i \in pending : Cardinality({j \in pending : j < i}) < n}
           v == [i \in DOMAIN w |-> [call |-> w[i].call, granted |-> w[i].granted \/ i \in first]]
           r == wake_up(q, n)
<1>1. len \in Nat /\ DOMAIN w = 1..len /\ w \in Seq(Waiter) /\ \A i \in 1..len : w[i] \in Waiter BY DEF Queue
<1>2. pending \subseteq 1..len /\ first \subseteq pending BY <1>1
<1>3. Cardinality(first) \in 0..n /\ (pending # {} /\ n > 0 => first # {})
  <2>1. \A i \in pending : i \in first <=> Cardinality(Ahead(pending, i)) < n BY DEF Ahead
  <2> HIDE DEF pending, first
  <2> QED BY <1>1, <1>2, <2>1, FirstFew
<1>4. IsFiniteSet(first) /\ Cardinality(first) \in Nat BY <1>1, <1>2, PlacesFinite
<1>5. \A i \in 1..len : v[i] \in Waiter /\ v[i].call = w[i].call /\ (v[i].granted <=> w[i].granted \/ i \in first)
  <2> HIDE DEF first, pending
  <2> QED BY <1>1 DEF Waiter
<1>6. v \in Seq(Waiter) /\ Len(v) = len /\ DOMAIN v = 1..len
  <2> HIDE DEF first, pending
  <2>1. v \in [1..len -> Waiter] BY <1>5, <1>1
  <2> QED BY <2>1, <1>1
<1>7. r = [q EXCEPT !.value = @ - Cardinality(first), !.waiters = v] BY DEF wake_up
<1> HIDE DEF v, first, pending, r, w
<1>8. q.value \in Nat /\ q.value - Cardinality(first) \in Nat BY <1>3, <1>4 DEF Queue
<1>9. r \in Queue /\ r.queue = q.queue /\ r.value = q.value - Cardinality(first) /\ r.waiters = v
  BY <1>6, <1>7, <1>8 DEF Queue
<1>10. SameCalls(q.waiters, r.waiters) BY <1>1, <1>5, <1>6, <1>9 DEF SameCalls, w
<1> DEFINE G == GrantedPlaces(w)
<1>11. GrantedPlaces(v) = G \cup first /\ G \cap first = {}
  BY <1>1, <1>2, <1>5, <1>6 DEF GrantedPlaces, pending
<1>12. IsFiniteSet(G) /\ Cardinality(G) \in Nat BY <1>1, PlacesFinite DEF GrantedPlaces
<1>13. Cardinality(G \cup first) = Cardinality(G) + Cardinality(first) /\ IsFiniteSet(G \cup first)
  <2> HIDE DEF G
  <2>1. Cardinality(G \cap first) = 0 BY <1>11, FS_EmptySet
  <2> QED BY <1>4, <1>12, <2>1, FS_Union
<1>14. GrantedIn(q) = Cardinality(G) /\ GrantedIn(r) = Cardinality(G) + Cardinality(first)
  BY <1>9, <1>11, <1>13 DEF GrantedIn, GrantedPlaces, w
<1>15. r.value + GrantedIn(r) = q.value + GrantedIn(q)
  <2> HIDE DEF G
  <2> QED BY <1>4, <1>8, <1>9, <1>12, <1>14
<1>16. ASSUME r.value > 0 PROVE GrantedIn(r) > 0 \/ r.waiters = <<>>
  <2>1. n > 0 BY <1>16, <1>8, <1>9, <1>4
  <2>2. CASE G \cup first = {}
    <3>1. pending = {} BY <2>1, <2>2, <1>3
    <3>2. 1..len = {} BY <2>2, <3>1, <1>1 DEF pending, GrantedPlaces
    <3>3. v = <<>> BY <3>2, <1>6, <1>1
    <3> QED BY <3>3, <1>9
  <2>3. CASE G \cup first # {}
    <3> HIDE DEF G
    <3>1. Cardinality(G \cup first) # 0 BY <2>3, <1>13, FS_EmptySet
    <3> QED BY SMTT(20), <3>1, <1>4, <1>12, <1>13, <1>14
  <2> QED BY <2>2, <2>3
<1> QED BY <1>9, <1>10, <1>15, <1>16 DEF r

(* The permits of a queue, free and granted. *)
Permits(q) == q.value + GrantedIn(q)

(* Nobody waits next to a free permit unless a granted reader is due. *)
Awake(q) == q.value > 0 => GrantedIn(q) > 0 \/ q.waiters = <<>>

LEMMA GrantsAreFinite ==
    ASSUME NEW q \in Queue
    PROVE  GrantedIn(q) \in Nat /\ IsFiniteSet(GrantedPlaces(q.waiters))
           /\ GrantedIn(q) = Cardinality(GrantedPlaces(q.waiters))
<1>1. Len(q.waiters) \in Nat /\ DOMAIN q.waiters = 1..Len(q.waiters) BY DEF Queue
<1>2. GrantedPlaces(q.waiters) \subseteq 1..Len(q.waiters) BY <1>1 DEF GrantedPlaces
<1>3. GrantedIn(q) = Cardinality(GrantedPlaces(q.waiters)) BY DEF GrantedIn, GrantedPlaces
<1> QED BY <1>1, <1>2, <1>3, PlacesFinite

LEMMA CountsUnfolds ==
    ASSUME NEW q
    PROVE  Counts(q) <=> Permits(q) = Len(q.queue) /\ Awake(q)
BY DEF Counts, Permits, Awake

(* The same reads in the same order make the same line. *)
LEMMA SameLine ==
    ASSUME NEW q, NEW r, SameCalls(q.waiters, r.waiters), NEW s, NEW box, NEW waiting,
           InLine(q, s, box, waiting)
    PROVE  InLine(r, s, box, waiting)
BY DEF SameCalls, InLine

(* Semaphore.release adds one permit. *)
LEMMA Release ==
    ASSUME NEW q \in Queue
    PROVE  LET r == release(q)
           IN  /\ r \in Queue /\ r.queue = q.queue
               /\ SameCalls(q.waiters, r.waiters)
               /\ Permits(r) = Permits(q) + 1
               /\ Awake(r)
<1> DEFINE p == [q EXCEPT !.value = @ + 1]
<1>1. p \in Queue /\ p.queue = q.queue /\ p.waiters = q.waiters /\ p.value = q.value + 1 /\ q.value \in Nat
  BY DEF Queue
<1>2. release(q) = wake_up(p, 1) BY DEF release
<1>3. GrantedIn(p) = GrantedIn(q) BY <1>1 DEF GrantedIn
<1> HIDE DEF p
<1>4. 1 \in Nat /\ 1 <= p.value BY <1>1
<1> DEFINE r == wake_up(p, 1)
<1>5. /\ r \in Queue /\ r.queue = p.queue
      /\ SameCalls(p.waiters, r.waiters)
      /\ r.value + GrantedIn(r) = p.value + GrantedIn(p)
      /\ r.value > 0 => GrantedIn(r) > 0 \/ r.waiters = <<>>
  BY <1>1, <1>4, WakeUp
<1> HIDE DEF r
<1>6. GrantedIn(q) \in Nat BY GrantsAreFinite
<1>7. Permits(r) = Permits(q) + 1 BY <1>1, <1>3, <1>5, <1>6 DEF Permits
<1>8. r = release(q) BY <1>2 DEF r
<1> QED BY <1>1, <1>5, <1>7, <1>8 DEF Awake

(* A read that finds no free permit, or others in line, stands behind them. *)
LEMMA Enter ==
    ASSUME NEW q \in Queue, NEW c \in Calls, NEW waiting, c \notin waiting,
           NEW box, box = Box(c), InLine(q, c.sock, box, waiting)
    PROVE  LET r == enter(q, c)
           IN  /\ r \in Queue /\ r.queue = q.queue
               /\ Permits(r) = Permits(q)
               /\ locked(q) /\ Awake(q) => Awake(r)
               /\ InLine(r, c.sock, box, waiting \cup {c})
<1> DEFINE e == [call |-> c, granted |-> FALSE]
           w == q.waiters
           v == Append(w, e)
           r == enter(q, c)
<1>1. w \in Seq(Waiter) /\ e \in Waiter /\ q.value \in Nat BY DEF Queue, Waiter
<1>2. v \in Seq(Waiter) /\ Len(v) = Len(w) + 1 /\ Len(w) \in Nat /\ DOMAIN w = 1..Len(w) /\ DOMAIN v = 1..Len(v)
      /\ v[Len(v)] = e /\ \A i \in 1..Len(w) : v[i] = w[i]
  <2> HIDE DEF e, w
  <2> QED BY <1>1
<1>3. r \in Queue /\ r.queue = q.queue /\ r.value = q.value /\ r.waiters = v
  <2>1. r = [q EXCEPT !.waiters = v] BY DEF enter
  <2> HIDE DEF v, r
  <2> QED BY <1>2, <2>1 DEF Queue
<1>4. e.call = c /\ ~e.granted OBVIOUS
<1> HIDE DEF e, v, r
<1>5. GrantedPlaces(v) = GrantedPlaces(w) BY <1>2, <1>4 DEF GrantedPlaces
<1>6. GrantedIn(r) = GrantedIn(q) BY <1>3, <1>5 DEF GrantedIn, GrantedPlaces
<1>7. Permits(r) = Permits(q) BY <1>3, <1>6 DEF Permits
<1>8. ASSUME locked(q), Awake(q) PROVE Awake(r)
  BY <1>1, <1>3, <1>6, <1>8 DEF locked, Awake
<1>9. ASSUME NEW i \in DOMAIN v
      PROVE  v[i].call \in waiting \cup {c} /\ v[i].call.sock = c.sock /\ Box(v[i].call) = box
  <2>1. CASE i = Len(v) BY <2>1, <1>2, <1>4
  <2>2. CASE i \in 1..Len(w) BY <2>2, <1>2 DEF InLine
  <2> QED BY <2>1, <2>2, <1>2
<1>10. ASSUME NEW i \in DOMAIN v, NEW j \in DOMAIN v, v[i].call = v[j].call PROVE i = j
  <2>1. \A k \in 1..Len(w) : v[k].call # c BY SMTT(20), <1>2 DEF InLine
  <2>2. CASE i \in 1..Len(w) /\ j \in 1..Len(w) BY <2>2, <1>2, <1>10 DEF InLine
  <2>3. CASE i = Len(v) /\ j = Len(v) BY <2>3
  <2>4. \A k \in DOMAIN v : k \in 1..Len(w) \/ k = Len(v) BY <1>2
  <2>5. v[Len(v)].call = c BY <1>2, <1>4
  <2> QED BY <2>1, <2>2, <2>3, <2>4, <2>5, <1>10
<1>11. InLine(r, c.sock, box, waiting \cup {c}) BY <1>3, <1>9, <1>10 DEF InLine
<1> QED BY <1>3, <1>7, <1>8, <1>11 DEF r

-----------------------------------------------------------------------------
(* Leaving a line, and a cohort.                                           *)

(* The place in the old list of place i of the list without place k. *)
Skip(k, i) == IF i < k THEN i ELSE i + 1

Drop(list, k) == [i \in 1..(Len(list) - 1) |-> list[Skip(k, i)]]

LEMMA WithoutDrops ==
    ASSUME NEW list, NEW places
    PROVE  /\ places = {} => Without(list, places) = list
           /\ places # {} => \E k \in places : Without(list, places) = Drop(list, k)
<1>1. places = {} => Without(list, places) = list BY DEF Without
<1>2. ASSUME places # {} PROVE \E k \in places : Without(list, places) = Drop(list, k)
  <2> DEFINE k == CHOOSE i \in places : TRUE
  <2>1. k \in places BY <1>2
  <2>2. Without(list, places) = Drop(list, k) BY <1>2 DEF Without, Drop, Skip
  <2> QED BY <2>1, <2>2
<1> QED BY <1>1, <1>2

(* Dropping a place keeps the others, in their order. *)
LEMMA DropKeeps ==
    ASSUME NEW S, NEW list \in Seq(S), NEW k \in DOMAIN list
    PROVE  LET v == Drop(list, k)
           IN  /\ v \in Seq(S) /\ Len(v) = Len(list) - 1 /\ DOMAIN v = 1..(Len(list) - 1)
               /\ \A i \in DOMAIN v : v[i] = list[Skip(k, i)] /\ Skip(k, i) \in DOMAIN list \ {k}
               /\ \A i, j \in DOMAIN v : Skip(k, i) = Skip(k, j) => i = j
               /\ \A j \in DOMAIN list \ {k} : \E i \in DOMAIN v : Skip(k, i) = j
<1> DEFINE n == Len(list)
           v == Drop(list, k)
<1>1. n \in Nat /\ DOMAIN list = 1..n /\ n >= 1 /\ k \in 1..n OBVIOUS
<1>2. \A i \in 1..(n - 1) : Skip(k, i) \in 1..n /\ Skip(k, i) # k BY <1>1 DEF Skip
<1>3. \A i, j \in 1..(n - 1) : Skip(k, i) = Skip(k, j) => i = j BY <1>1 DEF Skip
<1>4. ASSUME NEW j \in 1..n, j # k PROVE \E i \in 1..(n - 1) : Skip(k, i) = j
  <2>1. CASE j < k
    <3>1. j \in 1..(n - 1) /\ Skip(k, j) = j BY <1>1, <2>1 DEF Skip
    <3> QED BY <3>1
  <2>2. CASE j > k
    <3>1. j - 1 \in 1..(n - 1) /\ Skip(k, j - 1) = j BY <1>1, <2>2 DEF Skip
    <3> QED BY <3>1
  <2> QED BY <1>1, <1>4, <2>1, <2>2
<1>5. DOMAIN v = 1..(n - 1) /\ \A i \in 1..(n - 1) : v[i] = list[Skip(k, i)] BY DEF Drop
<1>6. v \in Seq(S) /\ Len(v) = n - 1
  <2>1. \A i \in 1..(n - 1) : list[Skip(k, i)] \in S BY <1>1, <1>2
  <2>2. v \in [1..(n - 1) -> S] BY <2>1 DEF Drop
  <2>3. n - 1 \in Nat BY <1>1
  <2> HIDE DEF v, n
  <2> QED BY <2>2, <2>3
<1> HIDE DEF v
<1> QED BY <1>1, <1>2, <1>3, <1>4, <1>5, <1>6 DEF v

(* The granted places of a line without place k are those other than k. *)
LEMMA DropGranted ==
    ASSUME NEW list \in Seq(Waiter), NEW k \in DOMAIN list
    PROVE  Cardinality(GrantedPlaces(Drop(list, k))) = Cardinality(GrantedPlaces(list) \ {k})
<1> DEFINE v == Drop(list, k)
           G == GrantedPlaces(v)
           H == GrantedPlaces(list) \ {k}
           f == [i \in G |-> Skip(k, i)]
<1>1. /\ v \in Seq(Waiter) /\ DOMAIN v = 1..(Len(list) - 1) /\ Len(list) - 1 \in Nat
      /\ \A i \in DOMAIN v : v[i] = list[Skip(k, i)] /\ Skip(k, i) \in DOMAIN list \ {k}
      /\ \A i, j \in DOMAIN v : Skip(k, i) = Skip(k, j) => i = j
      /\ \A j \in DOMAIN list \ {k} : \E i \in DOMAIN v : Skip(k, i) = j
  BY DropKeeps
<1> HIDE DEF v
<1>2. IsFiniteSet(G) BY <1>1, PlacesFinite DEF GrantedPlaces
<1>3. \A i \in G : Skip(k, i) \in H BY <1>1 DEF GrantedPlaces
<1>4. \A j \in H : \E i \in G : Skip(k, i) = j BY <1>1 DEF GrantedPlaces
<1>5. \A i, j \in G : Skip(k, i) = Skip(k, j) => i = j BY <1>1 DEF GrantedPlaces
<1> HIDE DEF G, H
<1>6. f \in Bijection(G, H)
  <2>1. f \in [G -> H] BY <1>3
  <2>2. \A i, j \in G : f[i] = f[j] => i = j BY <1>5
  <2>3. \A j \in H : \E i \in G : f[i] = j BY <1>4
  <2> HIDE DEF f
  <2> QED BY <2>1, <2>2, <2>3 DEF Bijection, Injection, Surjection, IsInjective
<1>7. ExistsBijection(G, H) BY <1>6 DEF ExistsBijection
<1>8. Cardinality(G) = Cardinality(H) BY <1>2, <1>7, FS_Bijection
<1> QED BY <1>8 DEF G, H, v

(* The permit a read was granted. *)
Due(q, c) == IF granted(q, c) THEN 1 ELSE 0

Mine(w, c) == {i \in DOMAIN w : w[i].call = c}

(* A line without the place of a read: nobody else leaves it, and a permit *)
(* goes with the read only if it was granted one.                          *)
LEMMA Left ==
    ASSUME NEW q \in Queue, NEW s, NEW box, NEW waiting, InLine(q, s, box, waiting), NEW c,
           NEW p, p \in Queue,
           p.waiters = Without(q.waiters, Mine(q.waiters, c))
    PROVE  /\ InLine(p, s, box, waiting \ {c})
           /\ GrantedIn(q) = GrantedIn(p) + Due(q, c)
<1> DEFINE w == q.waiters
           mine == Mine(w, c)
           v == p.waiters
<1>1. w \in Seq(Waiter) /\ \A i \in DOMAIN w : w[i] \in Waiter BY DEF Queue
<1>2. v = Without(w, mine) OBVIOUS
<1>3. granted(q, c) <=> \E i \in mine : w[i].granted BY DEF granted, Mine
<1>4. GrantedIn(q) = Cardinality(GrantedPlaces(w)) /\ IsFiniteSet(GrantedPlaces(w)) /\ GrantedIn(q) \in Nat
  BY GrantsAreFinite
<1>5. GrantedIn(p) = Cardinality(GrantedPlaces(v)) /\ GrantedIn(p) \in Nat BY GrantsAreFinite
<1>6. CASE mine = {}
  <2>1. v = w BY <1>6, WithoutDrops
  <2>2. ~granted(q, c) BY <1>3, <1>6
  <2>3. GrantedIn(p) = GrantedIn(q) BY SMTT(20), <2>1, <1>4, <1>5
  <2>4. InLine(p, s, box, waiting \ {c}) BY <2>1, <1>6 DEF InLine, Mine
  <2> QED BY <2>2, <2>3, <2>4, <1>4 DEF Due
<1>7. CASE mine # {}
  <2>1. PICK k \in mine : v = Drop(w, k)
    <3> HIDE DEF w, v, mine
    <3> QED BY <1>2, <1>7, WithoutDrops
  <2>2. k \in DOMAIN w /\ w[k].call = c BY <2>1 DEF Mine
  <2>3. /\ \A i \in DOMAIN v : v[i] = w[Skip(k, i)] /\ Skip(k, i) \in DOMAIN w \ {k}
        /\ \A i, j \in DOMAIN v : Skip(k, i) = Skip(k, j) => i = j
    <3> HIDE DEF w, v, mine
    <3>1. /\ \A i \in DOMAIN Drop(w, k) : Drop(w, k)[i] = w[Skip(k, i)] /\ Skip(k, i) \in DOMAIN w \ {k}
          /\ \A i, j \in DOMAIN Drop(w, k) : Skip(k, i) = Skip(k, j) => i = j
      BY <2>2, <1>1, DropKeeps
    <3> QED BY <3>1, <2>1
  <2>4. \A i \in DOMAIN w : w[i].call = c => i = k BY <2>2 DEF InLine
  <2>5. granted(q, c) <=> w[k].granted BY <2>2, <2>4 DEF granted
  <2>6. Cardinality(GrantedPlaces(v)) = Cardinality(GrantedPlaces(w) \ {k}) BY <1>1, <2>1, <2>2, DropGranted
  <2>7. k \in GrantedPlaces(w) <=> w[k].granted BY <2>2 DEF GrantedPlaces
  <2>8. Cardinality(GrantedPlaces(w) \ {k})
          = IF k \in GrantedPlaces(w) THEN Cardinality(GrantedPlaces(w)) - 1 ELSE Cardinality(GrantedPlaces(w))
    BY <1>4, FS_RemoveElement
  <2>9. GrantedIn(p) = IF w[k].granted THEN GrantedIn(q) - 1 ELSE GrantedIn(q)
    BY <1>4, <1>5, <2>6, <2>7, <2>8
  <2>10. InLine(p, s, box, waiting \ {c})
    <3>1. \A i \in DOMAIN v : v[i].call # c BY <2>3, <2>4
    <3>2. \A i \in DOMAIN v : v[i].call \in waiting /\ v[i].call.sock = s /\ Box(v[i].call) = box
      BY <2>3 DEF InLine
    <3>3. \A i, j \in DOMAIN v : v[i].call = v[j].call => i = j
      BY <2>3 DEF InLine
    <3> QED BY <3>1, <3>2, <3>3 DEF InLine
  <2> QED BY <2>5, <2>9, <2>10, <1>4, <1>5 DEF Due
<1> QED BY <1>6, <1>7

(* The end of Semaphore.acquire. *)
LEMMA Leave ==
    ASSUME NEW q \in Queue, NEW s, NEW box, NEW waiting, InLine(q, s, box, waiting), NEW c,
           NEW back \in Nat
    PROVE  LET r == leave(q, c, back)
           IN  /\ r \in Queue /\ r.queue = q.queue
               /\ InLine(r, s, box, waiting \ {c})
               /\ Permits(r) = Permits(q) + back - Due(q, c)
               /\ Awake(r)
<1> DEFINE mine == Mine(q.waiters, c)
           w == Without(q.waiters, mine)
           n == q.value + back
           p == [q EXCEPT !.waiters = w, !.value = n]
           r == leave(q, c, back)
<1>1. q.waiters \in Seq(Waiter) /\ q.value \in Nat /\ mine \subseteq DOMAIN q.waiters BY DEF Queue, Mine
<1>2. w \in Seq(Waiter)
  <2> HIDE DEF mine
  <2>1. CASE mine = {} BY SMTT(20), <1>1, <2>1, WithoutDrops
  <2>2. CASE mine # {}
    <3>1. PICK k \in mine : w = Drop(q.waiters, k) BY <2>2, WithoutDrops
    <3> QED BY <1>1, <3>1, DropKeeps
  <2> QED BY <2>1, <2>2
<1>3. r = wake_up(p, p.value) BY DEF leave, Mine
<1>10. n \in Nat /\ n = q.value + back BY <1>1
<1> HIDE DEF w, r, n
<1>4. p \in Queue /\ p.queue = q.queue /\ p.waiters = w /\ p.value = n BY <1>2, <1>10 DEF Queue
<1>11. p.waiters = Without(q.waiters, Mine(q.waiters, c)) BY <1>4 DEF w
<1> HIDE DEF p
<1>5. /\ InLine(p, s, box, waiting \ {c})
      /\ GrantedIn(q) = GrantedIn(p) + Due(q, c)
  BY <1>4, <1>11, Left
<1>6. /\ r \in Queue /\ r.queue = p.queue
      /\ SameCalls(p.waiters, r.waiters)
      /\ r.value + GrantedIn(r) = p.value + GrantedIn(p)
      /\ r.value > 0 => GrantedIn(r) > 0 \/ r.waiters = <<>>
  BY <1>3, <1>4, <1>10, WakeUp
<1>7. InLine(r, s, box, waiting \ {c}) BY <1>5, <1>6, SameLine
<1>8. GrantedIn(q) \in Nat /\ GrantedIn(p) \in Nat BY <1>4, GrantsAreFinite
<1>9. Permits(r) = Permits(q) + back - Due(q, c)
  <2>1. Due(q, c) \in Int /\ r.value \in Int /\ GrantedIn(r) \in Nat BY <1>6, GrantsAreFinite DEF Due, Queue
  <2> QED BY SMTT(20), <2>1, <1>1, <1>4, <1>5, <1>6, <1>8, <1>10 DEF Permits
<1> QED BY <1>4, <1>6, <1>7, <1>9 DEF Awake, r

-----------------------------------------------------------------------------
(* One socket.                                                             *)

(* A packet or an error is queued, and a permit released for it. *)
LEMMA Put ==
    ASSUME NEW q \in Queue, NEW item \in Items, Counts(q)
    PROVE  LET r == release([q EXCEPT !.queue = Append(@, item)])
           IN  r \in Queue /\ SameCalls(q.waiters, r.waiters) /\ Counts(r)
<1> DEFINE p == [q EXCEPT !.queue = Append(@, item)]
           r == release(p)
<1>1. q.queue \in Seq(Items) /\ Append(q.queue, item) \in Seq(Items) /\ Len(q.queue) \in Nat
      /\ Len(Append(q.queue, item)) = Len(q.queue) + 1
  BY DEF Queue
<1>2. p \in Queue /\ p.queue = Append(q.queue, item) /\ p.waiters = q.waiters /\ p.value = q.value
  BY <1>1 DEF Queue
<1> HIDE DEF p
<1>3. Permits(p) = Permits(q) BY <1>2 DEF Permits, GrantedIn
<1>4. /\ r \in Queue /\ r.queue = p.queue
      /\ SameCalls(p.waiters, r.waiters)
      /\ Permits(r) = Permits(p) + 1
      /\ Awake(r)
  BY <1>2, Release
<1> HIDE DEF r
<1>5. Counts(r) BY <1>1, <1>2, <1>3, <1>4, CountsUnfolds
<1> QED BY <1>2, <1>4, <1>5 DEF r, p

(* A permit has been taken and the entry it stands for has not. *)
Lent(q) == Permits(q) + 1 = Len(q.queue) /\ Awake(q)

(* The reader takes the oldest entry: there is one. *)
LEMMA Pop ==
    ASSUME NEW q \in Queue, Lent(q)
    PROVE  /\ q.queue # <<>>
           /\ LET r == [q EXCEPT !.queue = Tail(@)]
              IN  r \in Queue /\ r.waiters = q.waiters /\ Counts(r)
<1>1. q.queue \in Seq(Items) /\ Len(q.queue) \in Nat /\ q.value \in Nat /\ GrantedIn(q) \in Nat
  BY GrantsAreFinite DEF Queue
<1>2. Len(q.queue) >= 1 BY <1>1 DEF Lent, Permits
<1>3. q.queue # <<>> BY <1>1, <1>2
<1>4. Tail(q.queue) \in Seq(Items) /\ Len(Tail(q.queue)) = Len(q.queue) - 1 BY <1>1, <1>3
<1> DEFINE r == [q EXCEPT !.queue = Tail(@)]
<1>5. r \in Queue /\ r.queue = Tail(q.queue) /\ r.waiters = q.waiters /\ r.value = q.value
  BY <1>4 DEF Queue
<1> HIDE DEF r
<1>6. Permits(r) = Permits(q) /\ Awake(r) BY <1>5 DEF Lent, Permits, Awake, GrantedIn
<1>7. Permits(r) = Len(r.queue) BY <1>1, <1>4, <1>5, <1>6 DEF Lent, Permits
<1>8. Counts(r) BY <1>6, <1>7, CountsUnfolds
<1> QED BY <1>3, <1>5, <1>8 DEF r

(* An error takes the place of the oldest one. *)
LEMMA Displace ==
    ASSUME NEW q \in Queue, NEW item \in Items, Counts(q), Len(q.queue) = MaxErrors
    PROVE  LET r == [q EXCEPT !.queue = Append(Tail(@), item)]
           IN  r \in Queue /\ r.waiters = q.waiters /\ Counts(r)
<1>1. q.queue \in Seq(Items) /\ q.queue # <<>> BY LimitsArePositive DEF Queue
<1>2. Tail(q.queue) \in Seq(Items) /\ Len(Tail(q.queue)) = Len(q.queue) - 1 /\ Len(q.queue) \in Nat BY <1>1
<1> DEFINE n == Append(Tail(q.queue), item)
           r == [q EXCEPT !.queue = n]
<1>3. n \in Seq(Items) /\ Len(n) = Len(q.queue) BY <1>2
<1> HIDE DEF n
<1>4. r \in Queue /\ r.queue = n /\ r.waiters = q.waiters /\ r.value = q.value
  BY <1>3 DEF Queue
<1> HIDE DEF r
<1>5. Counts(r) BY <1>3, <1>4 DEF Counts, GrantedIn
<1> QED BY <1>4, <1>5 DEF r, n

LEMMA SetRx ==
    ASSUME NEW rec, NEW s, NEW waiting, SocketInv(rec, s, waiting),
           NEW q, QueueInv(q, s, "rx", waiting), rec.closed \/ Counts(q)
    PROVE  SocketInv([rec EXCEPT !.rx = q], s, waiting)
BY DEF SocketInv, Fields

LEMMA SetErrors ==
    ASSUME NEW rec, NEW s, NEW waiting, SocketInv(rec, s, waiting),
           NEW q, QueueInv(q, s, "errors", waiting), Counts(q)
    PROVE  SocketInv([rec EXCEPT !.errors = q], s, waiting)
BY DEF SocketInv, Fields

(* The rest of a socket does not matter to its queues. *)
LEMMA SameQueues ==
    ASSUME NEW rec, NEW new, NEW s, NEW waiting, SocketInv(rec, s, waiting),
           DOMAIN new = Fields, new.rx = rec.rx, new.errors = rec.errors, new.closed = rec.closed
    PROVE  SocketInv(new, s, waiting)
BY DEF SocketInv

(* process_udp_packet, process_raw_packet *)
LEMMA Processed ==
    ASSUME NEW rec, NEW s, NEW waiting, SocketInv(rec, s, waiting), NEW p \in Items
    PROVE  SocketInv(process_packet(rec, p), s, waiting)
<1>1. CASE rec.closed \/ Len(rec.rx.queue) >= MaxQueue
  BY <1>1 DEF process_packet
<1>2. CASE ~(rec.closed \/ Len(rec.rx.queue) >= MaxQueue)
  <2> DEFINE q == release([rec.rx EXCEPT !.queue = Append(@, p)])
  <2>1. rec.rx \in Queue /\ Counts(rec.rx) /\ InLine(rec.rx, s, "rx", waiting)
    BY <1>2 DEF SocketInv, QueueInv
  <2>2. q \in Queue /\ SameCalls(rec.rx.waiters, q.waiters) /\ Counts(q) BY <2>1, Put
  <2>3. process_packet(rec, p) = [rec EXCEPT !.rx = q] BY <1>2 DEF process_packet
  <2> HIDE DEF q
  <2>4. QueueInv(q, s, "rx", waiting) BY <2>1, <2>2, SameLine DEF QueueInv
  <2> QED BY <2>2, <2>3, <2>4, SetRx
<1> QED BY <1>1, <1>2

(* _enqueue_error *)
LEMMA Enqueued ==
    ASSUME NEW rec, NEW s, NEW waiting, SocketInv(rec, s, waiting), NEW recverr, NEW entry \in Items
    PROVE  SocketInv(_enqueue_error(rec, recverr, entry), s, waiting)
<1>0. rec.errors \in Queue /\ Counts(rec.errors) /\ InLine(rec.errors, s, "errors", waiting)
      /\ DOMAIN rec = Fields
  BY DEF SocketInv, QueueInv
<1>1. CASE ~recverr BY <1>1 DEF _enqueue_error
<1>2. CASE recverr /\ Len(rec.errors.queue) = MaxErrors
  <2> DEFINE q == [rec.errors EXCEPT !.queue = Append(Tail(@), entry)]
  <2>1. q \in Queue /\ q.waiters = rec.errors.waiters /\ Counts(q) BY SMTT(20), <1>0, <1>2, Displace
  <2>2. _enqueue_error(rec, recverr, entry) = [rec EXCEPT !.errors = q]
    BY <1>0, <1>2 DEF _enqueue_error, Fields
  <2> HIDE DEF q
  <2>3. QueueInv(q, s, "errors", waiting) BY <1>0, <2>1 DEF QueueInv, InLine
  <2> QED BY <2>1, <2>2, <2>3, SetErrors
<1>3. CASE recverr /\ Len(rec.errors.queue) # MaxErrors
  <2> DEFINE q == release([rec.errors EXCEPT !.queue = Append(@, entry)])
  <2>1. q \in Queue /\ SameCalls(rec.errors.waiters, q.waiters) /\ Counts(q) BY <1>0, Put
  <2>2. _enqueue_error(rec, recverr, entry) = [rec EXCEPT !.errors = q] BY <1>3 DEF _enqueue_error
  <2> HIDE DEF q
  <2>3. QueueInv(q, s, "errors", waiting) BY <1>0, <2>1, SameLine DEF QueueInv
  <2> QED BY <2>1, <2>2, <2>3, SetErrors
<1> QED BY <1>1, <1>2, <1>3

(* A socket one of whose queues has lent a permit to a read that runs. *)
Lending(rec, s, waiting, box) ==
    /\ DOMAIN rec = Fields
    /\ QueueInv(rec.rx, s, "rx", waiting)
    /\ QueueInv(rec.errors, s, "errors", waiting)
    /\ rec.closed \/ IF box = "rx" THEN Lent(rec.rx) ELSE Counts(rec.rx)
    /\ IF box = "errors" THEN Lent(rec.errors) ELSE Counts(rec.errors)

(* What a read does with its permit settles the account. *)
LEMMA AcquiredSettles ==
    ASSUME NEW rec, NEW s, NEW waiting, NEW c, Lending(rec, s, waiting, Box(c))
    PROVE  SocketInv(Acquired(rec, c), s, waiting)
<1>0. /\ DOMAIN rec = Fields
      /\ rec.rx \in Queue /\ InLine(rec.rx, s, "rx", waiting)
      /\ rec.errors \in Queue /\ InLine(rec.errors, s, "errors", waiting)
  BY DEF Lending, QueueInv
<1>1. CASE c.op # "errqueue" /\ rec.closed
  <2> DEFINE q == release(rec.rx)
  <2>1. q \in Queue /\ SameCalls(rec.rx.waiters, q.waiters) BY <1>0, Release
  <2>2. Acquired(rec, c) = [rec EXCEPT !.rx = q] BY <1>1 DEF Acquired
  <2> HIDE DEF q
  <2>3. QueueInv(q, s, "rx", waiting) BY SMTT(20), <1>0, <2>1, SameLine DEF QueueInv
  <2>4. SocketInv(rec, s, waiting) BY <1>1 DEF Lending, SocketInv, Box
  <2> QED BY <1>1, <2>2, <2>3, <2>4, SetRx
<1>2. CASE c.op # "errqueue" /\ ~rec.closed
  <2> DEFINE q == [rec.rx EXCEPT !.queue = Tail(@)]
  <2>1. Box(c) = "rx" /\ Lent(rec.rx) /\ Counts(rec.errors) BY <1>2 DEF Lending, Box
  <2>2. q \in Queue /\ q.waiters = rec.rx.waiters /\ Counts(q) /\ rec.rx.queue # <<>> BY SMTT(20), <1>0, <2>1, Pop
  <2>3. Acquired(rec, c) = [rec EXCEPT !.rx = q] BY <1>0, <1>2, <2>1, <2>2 DEF Acquired, Fields
  <2> HIDE DEF q
  <2>4. QueueInv(q, s, "rx", waiting) BY <1>0, <2>2 DEF QueueInv, InLine
  <2> QED BY SMTT(20), <1>0, <2>1, <2>2, <2>3, <2>4 DEF SocketInv, QueueInv, Fields
<1>3. CASE c.op = "errqueue"
  <2> DEFINE q == [rec.errors EXCEPT !.queue = Tail(@)]
  <2>1. Box(c) = "errors" /\ Lent(rec.errors) /\ (rec.closed \/ Counts(rec.rx)) BY <1>3 DEF Lending, Box
  <2>2. q \in Queue /\ q.waiters = rec.errors.waiters /\ Counts(q) /\ rec.errors.queue # <<>> BY <1>0, <2>1, Pop
  <2>3. Acquired(rec, c) = [rec EXCEPT !.errors = q] BY <1>0, <1>3, <2>1, <2>2 DEF Acquired, Fields
  <2> HIDE DEF q
  <2>4. QueueInv(q, s, "errors", waiting) BY <1>0, <2>2 DEF QueueInv, InLine
  <2> QED BY SMTT(20), <1>0, <2>1, <2>2, <2>3, <2>4 DEF SocketInv, QueueInv, Fields
<1> QED BY <1>1, <1>2, <1>3

-----------------------------------------------------------------------------
(* All sockets, when nobody starts or ends a read.                         *)

LEMMA CallsName ==
    ASSUME NEW c \in Calls
    PROVE  /\ c.op # "arrive" => c.sock \in Socket
           /\ c.op = "bind" => c.port \in Nat
BY PlansAreCalls DEF Calls

Undisturbed == UNCHANGED reading /\ todo' \subseteq todo

LEMMA ReadsStay ==
    ASSUME ReadInv, Undisturbed
    PROVE  ReadInv'
BY DEF ReadInv, Undisturbed

LEMMA SocketsStay ==
    ASSUME PermitInv, UNCHANGED socks, Undisturbed
    PROVE  PermitInv'
BY ReadsStay DEF PermitInv, Undisturbed

LEMMA OneSocket ==
    ASSUME PermitInv, Undisturbed, NEW s \in Socket, NEW rec, SocketInv(rec, s, reading),
           socks' = [socks EXCEPT ![s] = rec]
    PROVE  PermitInv'
<1>1. ReadInv' BY ReadsStay DEF PermitInv
<1>2. DOMAIN socks' = Socket BY DEF PermitInv
<1>3. reading' = reading BY DEF Undisturbed
<1>4. ASSUME NEW t \in Socket PROVE SocketInv(socks'[t], t, reading)
  <2>1. CASE t = s
    <3>1. socks'[t] = rec BY <2>1 DEF PermitInv
    <3> QED BY <2>1, <3>1
  <2>2. CASE t # s
    <3>1. socks'[t] = socks[t] BY <2>2 DEF PermitInv
    <3> QED BY <3>1 DEF PermitInv
  <2> QED BY <2>1, <2>2
<1> QED BY SMTT(20), <1>1, <1>2, <1>3, <1>4 DEF PermitInv

(* A step that leaves the queues of the socket alone. *)
LEMMA OtherFields ==
    ASSUME PermitInv, Undisturbed, NEW s \in Socket, NEW rec, socks' = [socks EXCEPT ![s] = rec],
           DOMAIN rec = Fields, rec.rx = socks[s].rx, rec.errors = socks[s].errors,
           rec.closed = socks[s].closed
    PROVE  PermitInv'
<1>1. SocketInv(socks[s], s, reading) BY DEF PermitInv
<1>2. SocketInv(rec, s, reading) BY <1>1, SameQueues
<1> QED BY <1>2, OneSocket

LEMMA FieldsOf ==
    ASSUME PermitInv, NEW s \in Socket
    PROVE  DOMAIN socks[s] = Fields
BY DEF PermitInv, SocketInv

(* bind, connect, send and sendto leave the queues alone. *)
LEMMA NamesKeepPermits ==
    ASSUME PermitInv, NEW c \in todo, Undisturbed, c.sock \in Socket,
           \/ udp_bind(c) \/ raw_bind(c) \/ udp_connect(c) \/ raw_connect(c)
           \/ udp_send(c) \/ raw_send(c) \/ udp_sendto(c) \/ raw_sendto(c)
    PROVE  PermitInv'
<1> DEFINE s == c.sock
<1>1. DOMAIN socks[s] = Fields BY FieldsOf
<1>2. DOMAIN Marked(s, c.addr) = Fields /\ Marked(s, c.addr).rx = socks[s].rx
      /\ Marked(s, c.addr).errors = socks[s].errors /\ Marked(s, c.addr).closed = socks[s].closed
  BY <1>1 DEF Marked, Fields
<1>3. CASE UNCHANGED socks BY <1>3, SocketsStay
<1>4. CASE udp_bind(c)
  <2>1. CASE ~UNCHANGED socks
    <3>1. PICK port : socks' = [socks EXCEPT ![s] = [socks[s] EXCEPT !.laddr = c.addr, !.lport = port]]
      BY <1>4, <2>1 DEF udp_bind, Rebind
    <3> QED BY <1>1, <3>1, OtherFields DEF Fields
  <2> QED BY <1>3, <2>1
<1>5. CASE raw_bind(c)
  <2>1. CASE ~UNCHANGED socks
    <3>1. socks' = [socks EXCEPT ![s] = [socks[s] EXCEPT !.laddr = c.addr]]
      BY <1>5, <2>1 DEF raw_bind, Rebind
    <3> QED BY <1>1, <3>1, OtherFields DEF Fields
  <2> QED BY <1>3, <2>1
<1>6. CASE udp_connect(c)
  <2>1. CASE socks' = [socks EXCEPT ![s] = Marked(s, c.addr)] BY <1>2, <2>1, OtherFields
  <2>2. CASE ~UNCHANGED socks /\ socks' # [socks EXCEPT ![s] = Marked(s, c.addr)]
    <3>1. PICK source, port : socks' = [socks EXCEPT ![s] = [Marked(s, c.addr) EXCEPT
                                  !.laddr = source, !.lport = port,
                                  !.raddr = c.addr, !.rport = c.port]]
      BY <1>6, <2>2 DEF udp_connect, Rebind
    <3> QED BY <1>2, <3>1, OtherFields DEF Fields
  <2> QED BY <1>3, <2>1, <2>2
<1>7. CASE raw_connect(c)
  <2>1. CASE ~UNCHANGED socks
    <3>1. PICK source : socks' = [socks EXCEPT ![s] = [socks[s] EXCEPT !.laddr = source, !.raddr = c.addr,
                                                                    !.rport = c.port]]
      BY <1>7, <2>1 DEF raw_connect, Rebind
    <3> QED BY <1>1, <3>1, OtherFields DEF Fields
  <2> QED BY <1>3, <2>1
<1>8. CASE udp_send(c)
  <2>1. CASE ~UNCHANGED socks
    <3>1. socks' = [socks EXCEPT ![s] = [socks[s] EXCEPT !.unreachable = FALSE]]
      BY <1>8, <2>1 DEF udp_send
    <3> QED BY ZenonT(40), <1>1, <3>1, OtherFields DEF Fields
  <2> QED BY <1>3, <2>1
<1>9. CASE raw_send(c) \/ raw_sendto(c) BY <1>3, <1>9 DEF raw_send, raw_sendto
<1>10. CASE udp_sendto(c)
  <2>1. CASE socks' = [socks EXCEPT ![s] = Marked(s, c.addr)] BY <1>2, <2>1, OtherFields
  <2>2. CASE ~UNCHANGED socks /\ socks' # [socks EXCEPT ![s] = Marked(s, c.addr)]
    <3>1. PICK port : socks' = [socks EXCEPT ![s] = [Marked(s, c.addr) EXCEPT !.lport = port]]
      BY <1>10, <2>2 DEF udp_sendto, Rebind
    <3> QED BY <1>2, <3>1, OtherFields DEF Fields
  <2> QED BY <1>3, <2>1, <2>2
<1> QED BY <1>4, <1>5, <1>6, <1>7, <1>8, <1>9, <1>10

-----------------------------------------------------------------------------
(* Reads, and close.                                                       *)

(* A line does not miss a read that never stood in it. *)
LEMMA NotInLine ==
    ASSUME NEW q, NEW s, NEW box, NEW waiting, InLine(q, s, box, waiting), NEW c,
           c.sock # s \/ Box(c) # box
    PROVE  InLine(q, s, box, waiting \ {c})
BY DEF InLine

LEMMA OtherSocket ==
    ASSUME NEW rec, NEW t, NEW waiting, SocketInv(rec, t, waiting), NEW c, c.sock # t
    PROVE  SocketInv(rec, t, waiting \ {c})
BY NotInLine DEF SocketInv, QueueInv

LEMMA LongerLine ==
    ASSUME NEW q, NEW s, NEW box, NEW waiting, InLine(q, s, box, waiting), NEW c
    PROVE  InLine(q, s, box, waiting \cup {c})
BY DEF InLine

LEMMA MoreReaders ==
    ASSUME NEW rec, NEW t, NEW waiting, SocketInv(rec, t, waiting), NEW c
    PROVE  SocketInv(rec, t, waiting \cup {c})
BY LongerLine DEF SocketInv, QueueInv

LEMMA BoxIs ==
    ASSUME NEW c
    PROVE  Box(c) \in {"rx", "errors"} /\ Box(c) \in Fields
BY DEF Box, Fields

(* A socket whose free permit a read has just taken. *)
LEMMA TakenAtOnce ==
    ASSUME NEW rec, NEW s, NEW waiting, SocketInv(rec, s, waiting), NEW c, ~locked(rec[Box(c)])
    PROVE  Lending([rec EXCEPT ![Box(c)].value = @ - 1], s, waiting, Box(c))
<1> DEFINE q == rec[Box(c)]
           p == [q EXCEPT !.value = @ - 1]
           new == [rec EXCEPT ![Box(c)] = p]
<1>1. DOMAIN rec = Fields /\ q \in Queue /\ InLine(q, s, Box(c), waiting)
  BY BoxIs DEF SocketInv, QueueInv
<1>2. q.value \in Nat /\ q.value # 0 /\ q.waiters = <<>> BY <1>1 DEF Queue, locked
<1>3. p \in Queue /\ p.queue = q.queue /\ p.waiters = q.waiters /\ p.value = q.value - 1
  BY <1>1, <1>2 DEF Queue
<1>4. GrantedIn(p) = GrantedIn(q) /\ GrantedIn(q) \in Nat BY <1>1, <1>3, GrantsAreFinite DEF GrantedIn
<1>5. Counts(q) => Lent(p)
  <2>1. Awake(p) BY <1>2, <1>3 DEF Awake
  <2> HIDE DEF p, q
  <2>2. Counts(q) => Permits(p) + 1 = Len(p.queue) BY <1>2, <1>3, <1>4 DEF Counts, Permits
  <2> QED BY <2>1, <2>2 DEF Lent
<1>6. QueueInv(p, s, Box(c), waiting) BY <1>1, <1>3 DEF QueueInv, InLine
<1>7. [rec EXCEPT ![Box(c)].value = @ - 1] = new BY <1>1, BoxIs
<1> HIDE DEF p, q
<1>8. DOMAIN new = Fields /\ new[Box(c)] = p /\ new.closed = rec.closed
      /\ \A b \in {"rx", "errors"} : b # Box(c) => new[b] = rec[b]
  BY <1>1, BoxIs DEF Fields
<1> HIDE DEF new
<1>9. CASE Box(c) = "rx"
  <2>1. new.rx = p /\ new.errors = rec.errors /\ q = rec.rx BY <1>8, <1>9 DEF q
  <2> QED BY <2>1, <1>5, <1>6, <1>7, <1>8, <1>9 DEF Lending, SocketInv
<1>10. CASE Box(c) = "errors"
  <2>1. new.errors = p /\ new.rx = rec.rx /\ q = rec.errors BY <1>8, <1>10 DEF q
  <2> QED BY <2>1, <1>5, <1>6, <1>7, <1>8, <1>10 DEF Lending, SocketInv
<1> QED BY <1>9, <1>10, BoxIs

(* A socket with one more read in line. *)
LEMMA Joined ==
    ASSUME NEW rec, NEW c \in Calls, NEW waiting, SocketInv(rec, c.sock, waiting), c \notin waiting,
           locked(rec[Box(c)])
    PROVE  SocketInv([rec EXCEPT ![Box(c)] = enter(@, c)], c.sock, waiting \cup {c})
<1> DEFINE s == c.sock
           q == rec[Box(c)]
           p == enter(q, c)
           new == [rec EXCEPT ![Box(c)] = p]
           all == waiting \cup {c}
<1>1. DOMAIN rec = Fields /\ q \in Queue /\ InLine(q, s, Box(c), waiting)
  BY BoxIs DEF SocketInv, QueueInv
<1>2. /\ p \in Queue /\ p.queue = q.queue
      /\ Permits(p) = Permits(q)
      /\ locked(q) /\ Awake(q) => Awake(p)
      /\ InLine(p, s, Box(c), all)
  <2> HIDE DEF q
  <2> QED BY <1>1, Enter
<1>3. Counts(q) => Counts(p)
  <2> HIDE DEF p
  <2> QED BY <1>2, CountsUnfolds
<1> HIDE DEF p, q
<1>4. DOMAIN new = Fields /\ new[Box(c)] = p /\ new.closed = rec.closed
      /\ \A b \in {"rx", "errors"} : b # Box(c) => new[b] = rec[b]
  BY <1>1, BoxIs DEF Fields
<1>5. new = [rec EXCEPT ![Box(c)] = enter(@, c)] BY DEF p, q
<1>6. SocketInv(rec, s, all) BY MoreReaders
<1> HIDE DEF new, all
<1>7. QueueInv(p, s, Box(c), all) BY <1>2 DEF QueueInv
<1>8. CASE Box(c) = "rx"
  <2>1. new.rx = p /\ new.errors = rec.errors /\ q = rec.rx BY <1>4, <1>8 DEF q
  <2> QED BY SMTT(20), <2>1, <1>3, <1>4, <1>5, <1>6, <1>7, <1>8 DEF SocketInv, all
<1>9. CASE Box(c) = "errors"
  <2>1. new.errors = p /\ new.rx = rec.rx /\ q = rec.errors BY <1>4, <1>9 DEF q
  <2> QED BY SMTT(20), <2>1, <1>3, <1>4, <1>5, <1>6, <1>7, <1>9 DEF SocketInv, all
<1> QED BY <1>8, <1>9, BoxIs

(* A socket without a read that has left its line, with back permits. *)
LEMMA WithoutReader ==
    ASSUME NEW rec, NEW c, NEW waiting, SocketInv(rec, c.sock, waiting), NEW back \in Nat,
           NEW new, new = [rec EXCEPT ![Box(c)] = leave(@, c, back)]
    PROVE  /\ back = Due(rec[Box(c)], c) => SocketInv(new, c.sock, waiting \ {c})
           /\ back = 0 /\ granted(rec[Box(c)], c) => Lending(new, c.sock, waiting \ {c}, Box(c))
<1> DEFINE s == c.sock
           q == rec[Box(c)]
           p == leave(q, c, back)
           rest == waiting \ {c}
<1>1. DOMAIN rec = Fields /\ q \in Queue /\ InLine(q, s, Box(c), waiting)
      /\ (rec.closed \/ Counts(rec.rx)) /\ Counts(rec.errors)
  BY BoxIs DEF SocketInv, QueueInv
<1>2. /\ p \in Queue /\ p.queue = q.queue
      /\ InLine(p, s, Box(c), rest)
      /\ Permits(p) = Permits(q) + back - Due(q, c)
      /\ Awake(p)
  <2> HIDE DEF q
  <2> QED BY <1>1, Leave
<1>3. Permits(q) \in Nat BY <1>1, GrantsAreFinite DEF Permits, Queue
<1> HIDE DEF p
<1>4. back = Due(q, c) /\ Counts(q) => Counts(p)
  <2> HIDE DEF q
  <2> QED BY <1>2, <1>3, CountsUnfolds
<1>5. back = 0 /\ granted(q, c) /\ Counts(q) => Lent(p)
  <2> HIDE DEF q
  <2>1. granted(q, c) => Due(q, c) = 1 BY DEF Due
  <2>2. Counts(q) => Permits(q) = Len(q.queue) BY CountsUnfolds
  <2> QED BY <1>2, <1>3, <2>1, <2>2 DEF Lent
<1>6. new = [rec EXCEPT ![Box(c)] = p] BY DEF p
<1> HIDE DEF q
<1>7. DOMAIN new = Fields /\ new[Box(c)] = p /\ new.closed = rec.closed
      /\ \A b \in {"rx", "errors"} : b # Box(c) => new[b] = rec[b]
  BY <1>1, <1>6, BoxIs DEF Fields
<1> HIDE DEF rest
<1>8. QueueInv(p, s, Box(c), rest) BY <1>2 DEF QueueInv
<1>9. \A b \in {"rx", "errors"} : b # Box(c) => QueueInv(rec[b], s, b, rest)
  BY NotInLine DEF SocketInv, QueueInv, rest
<1>10. CASE Box(c) = "rx"
  <2>1. new.rx = p /\ new.errors = rec.errors /\ q = rec.rx BY <1>7, <1>10 DEF q
  <2>2. QueueInv(new.rx, s, "rx", rest) /\ QueueInv(new.errors, s, "errors", rest)
    BY SMTT(20), <2>1, <1>8, <1>9, <1>10
  <2>3. back = Due(q, c) => SocketInv(new, s, rest) BY SMTT(20), <2>1, <2>2, <1>1, <1>4, <1>7 DEF SocketInv
  <2>4. back = 0 /\ granted(q, c) => Lending(new, s, rest, Box(c))
    BY SMTT(20), <2>1, <2>2, <1>1, <1>5, <1>7, <1>10 DEF Lending
  <2> QED BY <2>3, <2>4 DEF q, rest
<1>11. CASE Box(c) = "errors"
  <2>1. new.errors = p /\ new.rx = rec.rx /\ q = rec.errors BY <1>7, <1>11 DEF q
  <2>2. QueueInv(new.rx, s, "rx", rest) /\ QueueInv(new.errors, s, "errors", rest)
    BY <2>1, <1>8, <1>9, <1>11
  <2>3. back = Due(q, c) => SocketInv(new, s, rest) BY SMTT(20), <2>1, <2>2, <1>1, <1>4, <1>7 DEF SocketInv
  <2>4. back = 0 /\ granted(q, c) => Lending(new, s, rest, Box(c))
    BY <2>1, <2>2, <1>1, <1>5, <1>7, <1>11 DEF Lending
  <2> QED BY <2>3, <2>4 DEF q, rest
<1> QED BY <1>10, <1>11, BoxIs

(* One socket changes, and the reads in line with it. *)
LEMMA OneReader ==
    ASSUME PermitInv, ReadInv', NEW c, c.sock \in Socket, NEW rec,
           socks' = [socks EXCEPT ![c.sock] = rec],
           reading' \in {reading \ {c}, reading \cup {c}},
           SocketInv(rec, c.sock, reading')
    PROVE  PermitInv'
<1>1. DOMAIN socks' = Socket BY DEF PermitInv
<1>2. ASSUME NEW t \in Socket PROVE SocketInv(socks'[t], t, reading')
  <2>1. CASE t = c.sock
    <3>1. socks'[t] = rec BY <2>1 DEF PermitInv
    <3> QED BY <2>1, <3>1
  <2>2. CASE t # c.sock
    <3>1. socks'[t] = socks[t] /\ SocketInv(socks[t], t, reading) BY <2>2 DEF PermitInv
    <3>2. SocketInv(socks[t], t, reading \ {c}) BY <2>2, <3>1, OtherSocket
    <3>3. SocketInv(socks[t], t, reading \cup {c}) BY <3>1, MoreReaders
    <3> QED BY <3>1, <3>2, <3>3
  <2> QED BY <2>1, <2>2
<1> QED BY <1>1, <1>2 DEF PermitInv

LEMMA ResumeKeepsPermits ==
    ASSUME PermitInv, NEW c \in reading, Resume(c) \/ TimeOut(c)
    PROVE  PermitInv'
<1> DEFINE s == c.sock
           rec == socks[s]
           q == rec[Box(c)]
<1>1. s \in Socket /\ SocketInv(rec, s, reading) BY DEF PermitInv, ReadInv
<1>2. reading' = reading \ {c} /\ todo' = todo BY DEF Resume, TimeOut
<1>3. ReadInv' BY <1>2 DEF PermitInv, ReadInv
<1>4. CASE Resume(c)
  <2> DEFINE new == [rec EXCEPT ![Box(c)] = leave(@, c, 0)]
  <2>1. granted(q, c) BY <1>4 DEF Resume
  <2>2. Lending(new, s, reading \ {c}, Box(c)) BY <1>1, <2>1, WithoutReader
  <2>3. socks' = [socks EXCEPT ![s] = Acquired(new, c)] BY <1>4 DEF Resume
  <2> HIDE DEF new
  <2>4. SocketInv(Acquired(new, c), s, reading \ {c}) BY <2>2, AcquiredSettles
  <2> QED BY <1>1, <1>2, <1>3, <2>3, <2>4, OneReader
<1>5. CASE TimeOut(c)
  <2> DEFINE back == Due(q, c)
             new == [rec EXCEPT ![Box(c)] = leave(@, c, back)]
  <2>1. back \in Nat BY DEF Due
  <2>2. socks' = [socks EXCEPT ![s] = new] BY SMTT(20), <1>5 DEF TimeOut, Due
  <2>3. SocketInv(new, s, reading \ {c})
    <3> HIDE DEF back
    <3> QED BY <1>1, <2>1, WithoutReader DEF back
  <2> HIDE DEF new
  <2> QED BY <1>1, <1>2, <1>3, <2>2, <2>3, OneReader
<1> QED BY <1>4, <1>5

LEMMA AcquireKeepsPermits ==
    ASSUME PermitInv, NEW c \in todo, c.sock \in Socket, todo' = todo \ {c}, _sem_acquire(c)
    PROVE  PermitInv'
<1> DEFINE s == c.sock
           rec == socks[s]
           q == rec[Box(c)]
<1>1. SocketInv(rec, s, reading) /\ c \in Calls /\ c \notin reading BY DEF PermitInv, ReadInv
<1>2. CASE ~locked(q)
  <2> DEFINE new == [rec EXCEPT ![Box(c)].value = @ - 1]
  <2>1. Lending(new, s, reading, Box(c)) BY <1>1, <1>2, TakenAtOnce
  <2>2. socks' = [socks EXCEPT ![s] = Acquired(new, c)] /\ reading' = reading
    BY <1>2 DEF _sem_acquire
  <2> HIDE DEF new
  <2>3. SocketInv(Acquired(new, c), s, reading) BY <2>1, AcquiredSettles
  <2>4. Undisturbed BY <2>2 DEF Undisturbed
  <2> QED BY <2>2, <2>3, <2>4, OneSocket
<1>3. CASE locked(q) /\ c.wait
  <2> DEFINE new == [rec EXCEPT ![Box(c)] = enter(@, c)]
  <2>1. SocketInv(new, s, reading \cup {c}) BY <1>1, <1>3, Joined
  <2>2. socks' = [socks EXCEPT ![s] = new] /\ reading' = reading \cup {c}
    BY <1>3 DEF _sem_acquire
  <2>3. ReadInv' BY <1>1, <2>2 DEF PermitInv, ReadInv
  <2> HIDE DEF new
  <2> QED BY <2>1, <2>2, <2>3, OneReader
<1>4. CASE locked(q) /\ ~c.wait
  <2>1. UNCHANGED socks /\ UNCHANGED reading BY <1>4 DEF _sem_acquire
  <2>2. Undisturbed BY <2>1 DEF Undisturbed
  <2> QED BY <2>1, <2>2, SocketsStay
<1> QED BY <1>2, <1>3, <1>4

LEMMA CloseKeepsPermits ==
    ASSUME PermitInv, NEW s \in Socket, Undisturbed, Closing(s)
    PROVE  PermitInv'
<1> DEFINE rec == socks[s]
           q == release(rec.rx)
           new == [rec EXCEPT !.closed = TRUE, !.rx = q]
<1>1. SocketInv(rec, s, reading) /\ DOMAIN socks = Socket BY DEF PermitInv
<1>2. rec.rx \in Queue /\ InLine(rec.rx, s, "rx", reading) BY <1>1 DEF SocketInv, QueueInv
<1>3. q \in Queue /\ SameCalls(rec.rx.waiters, q.waiters) BY <1>2, Release
<1>4. QueueInv(q, s, "rx", reading) BY <1>2, <1>3, SameLine DEF QueueInv
<1>5. DOMAIN rec = Fields BY <1>1 DEF SocketInv
<1>6. DOMAIN new = Fields /\ new.closed /\ new.rx = q /\ new.errors = rec.errors
  <2> HIDE DEF q
  <2> QED BY <1>5 DEF Fields
<1>7. socks' = [socks EXCEPT ![s] = new]
  <2>1. socks' = [socks EXCEPT ![s].closed = TRUE, ![s].rx = release(@)] BY DEF Closing
  <2> QED BY <2>1, <1>1, <1>5 DEF Fields
<1> HIDE DEF new, q
<1>8. SocketInv(new, s, reading) BY <1>1, <1>4, <1>6 DEF SocketInv
<1> QED BY <1>7, <1>8, OneSocket

LEMMA CallKeepsPermits ==
    ASSUME PermitInv, NEW c \in todo, Call(c)
    PROVE  PermitInv'
<1>1. todo' = todo \ {c} BY DEF Call, Take
<1>2. c \in Calls BY DEF PermitInv, ReadInv
<1>3. ASSUME c.op # "arrive" PROVE c.sock \in Socket BY <1>2, <1>3, CallsName
<1>4. ASSUME UNCHANGED reading PROVE Undisturbed BY <1>1, <1>4 DEF Undisturbed
<1>5. CASE \/ udp_bind(c) \/ raw_bind(c) \/ udp_connect(c) \/ raw_connect(c)
           \/ udp_send(c) \/ raw_send(c) \/ udp_sendto(c) \/ raw_sendto(c)
  <2>1. c.op \in {"bind", "connect", "send", "sendto"} /\ UNCHANGED reading
    BY <1>5 DEF udp_bind, raw_bind, udp_connect, raw_connect, udp_send, raw_send, udp_sendto, raw_sendto
  <2>2. c.sock \in Socket BY <2>1, <1>3
  <2> QED BY <2>1, <2>2, <1>4, <1>5, NamesKeepPermits, SMTT(30)
<1>6. ASSUME c.sock \in Socket, _raise_if_closed(c) PROVE PermitInv'
  BY <1>4, <1>6, SocketsStay DEF _raise_if_closed
<1>7. CASE udp_recv(c)
  <2>1. c.sock \in Socket BY <1>3, <1>7 DEF udp_recv, Read
  <2>2. ASSUME socks' = [socks EXCEPT ![c.sock].unreachable = FALSE], UNCHANGED reading PROVE PermitInv'
    <3>1. DOMAIN socks[c.sock] = Fields BY <2>1, FieldsOf
    <3> QED BY <1>4, <2>1, <2>2, <3>1, OtherFields DEF Fields
  <2> QED BY <1>1, <1>6, <1>7, <2>1, <2>2, AcquireKeepsPermits DEF udp_recv
<1>8. CASE udp_recvfrom(c) \/ udp_recvmsg(c) \/ raw_recv(c) \/ raw_recvfrom(c)
  <2>1. c.sock \in Socket /\ UnlessClosed(c)
    BY <1>3, <1>8 DEF udp_recvfrom, udp_recvmsg, raw_recv, raw_recvfrom, Read
  <2> QED BY <1>1, <1>6, <2>1, AcquireKeepsPermits DEF UnlessClosed
<1>9. CASE udp_recvmsg_errqueue(c) \/ tcp_recvmsg_errqueue(c)
  <2>1. c.sock \in Socket /\ _sem_acquire(c)
    BY <1>3, <1>9 DEF udp_recvmsg_errqueue, tcp_recvmsg_errqueue, Read
  <2> QED BY <1>1, <2>1, AcquireKeepsPermits
<1>10. CASE udp_close(c) \/ raw_close(c)
  <2>1. c.sock \in Socket /\ Closing(c.sock) BY <1>3, <1>10 DEF udp_close, raw_close
  <2>2. UNCHANGED reading BY <2>1 DEF Closing
  <2> QED BY <1>4, <2>1, <2>2, CloseKeepsPermits
<1> QED BY SMTT(20), <1>5, <1>7, <1>8, <1>9, <1>10 DEF Call

-----------------------------------------------------------------------------
(* Arrivals.                                                               *)

(* The loop over identifiers returns one of the sockets it may. *)
LEMMA WalkFinds ==
    ASSUME NEW tbl, NEW ids, DOMAIN ids \subseteq Nat, NEW ok, walk(tbl, ids, ok).sock # None
    PROVE  walk(tbl, ids, ok).sock \in ok
<1> DEFINE hits == {i \in DOMAIN ids : ids[i] \in DOMAIN tbl /\ get(tbl[ids[i]]) \in ok}
           last == Least(hits)
<1>1. hits # {} BY DEF walk
<1>2. last \in hits
  <2> HIDE DEF hits
  <2>1. hits \subseteq Nat BY DEF hits
  <2>2. \E x \in hits : \A y \in hits : x <= y BY <1>1, <2>1, LeastPlace
  <2> QED BY <2>2 DEF Least
<1>3. walk(tbl, ids, ok).sock = get(tbl[ids[last]]) BY <1>1 DEF walk
<1> HIDE DEF last
<1> QED BY <1>2, <1>3

LEMMA IdentifiersAreListed ==
    /\ \A p, proto : DOMAIN raw_socket_ids(p, proto) \subseteq Nat
    /\ \A family, laddr, lport, raddr, rport :
           DOMAIN udp_socket_ids(family, laddr, lport, raddr, rport) \subseteq Nat
<1>1. ASSUME NEW p, NEW proto PROVE DOMAIN raw_socket_ids(p, proto) \subseteq Nat
  BY DEF raw_socket_ids
<1>2. ASSUME NEW family, NEW laddr, NEW lport, NEW raddr, NEW rport
      PROVE  DOMAIN udp_socket_ids(family, laddr, lport, raddr, rport) \subseteq Nat
  BY DEF udp_socket_ids
<1> QED BY <1>1, <1>2

LEMMA RawFinds ==
    ASSUME NEW p, NEW proto, walk(table, raw_socket_ids(p, proto), Socket).sock # None
    PROVE  walk(table, raw_socket_ids(p, proto), Socket).sock \in Socket
BY WalkFinds, IdentifiersAreListed, Zenon

LEMMA UdpFinds ==
    ASSUME NEW p, UdpOrigin(p).sock # None
    PROVE  UdpOrigin(p).sock \in Socket
BY WalkFinds, IdentifiersAreListed, Zenon DEF UdpOrigin

LEMMA TcpFinds ==
    ASSUME NEW p, TcpOrigin(p).sock # None
    PROVE  TcpOrigin(p).sock \in Socket
<1> DEFINE ids == <<[family |-> p.family, type |-> "stream", laddr |-> p.inner.laddr, lport |-> p.inner.lport,
                     raddr |-> p.inner.raddr, rport |-> p.inner.rport]>>
<1>1. DOMAIN ids \subseteq Nat OBVIOUS
<1>2. TcpOrigin(p) = walk(table, ids, Socket) BY DEF TcpOrigin
<1> HIDE DEF ids
<1> QED BY <1>1, <1>2, WalkFinds

(* Two states of a socket that differ in nothing the invariants look at. *)
Alike(new, rec) ==
    /\ DOMAIN new = Fields
    /\ \A f \in {"laddr", "lport", "rx", "errors", "closed"} : new[f] = rec[f]

(* What an arrival does to the sockets: a packet goes to one, or an error. *)
GivenPacket(p) == \E s \in Socket : socks' = [socks EXCEPT ![s] = process_packet(socks[s], p)]

GivenError ==
    \E s \in Socket : \E new, recverr : \E entry \in Items :
        Alike(new, socks[s]) /\ socks' = [socks EXCEPT ![s] = _enqueue_error(new, recverr, entry)]

LEMMA EntriesAreItems ==
    ASSUME NEW p \in Calls
    PROVE  p \in Items /\ build_icmp_error_entry(p) \in Items /\ TooBigEntry(p) \in Items
BY DEF Items

LEMMA ErrorGiven ==
    ASSUME NEW s \in Socket, NEW new, NEW recverr, NEW entry \in Items, Alike(new, socks[s]),
           socks' = [socks EXCEPT ![s] = _enqueue_error(new, recverr, entry)]
    PROVE  GivenError
BY DEF GivenError

LEMMA TcpGiven ==
    ASSUME PermitInv, NEW p, NEW category, NEW entry \in Items, DispatchTcp(p, category, entry)
    PROVE  UNCHANGED socks \/ GivenError
<1>1. CASE ~TcpHears(p) BY <1>1 DEF DispatchTcp
<1>2. CASE TcpHears(p)
  <2> DEFINE s == TcpOrigin(p).sock
             new == [socks[s] EXCEPT !.signals = @ \cup {category}]
  <2>1. s \in Socket BY <1>2, TcpFinds DEF TcpHears
  <2>2. DOMAIN socks[s] = Fields BY <2>1, FieldsOf
  <2>3. Alike(new, socks[s])
    <3> HIDE DEF s
    <3> QED BY <2>2 DEF Alike, Fields
  <2>4. socks' = [socks EXCEPT ![s] = _enqueue_error(new, options[s].recverr, entry)]
    BY <1>2 DEF DispatchTcp, TcpNotified
  <2> HIDE DEF new, s
  <2> QED BY <2>1, <2>3, <2>4, ErrorGiven
<1> QED BY <1>1, <1>2

LEMMA UdpGiven ==
    ASSUME PermitInv, NEW p \in Calls, DispatchUdp(p) \/ DispatchUdpPmtu(p)
    PROVE  UNCHANGED socks \/ GivenError
<1> DEFINE s == UdpOrigin(p).sock
           rec == socks[s]
<1>1. CASE Unclaimed(UdpOrigin(p)) BY <1>1 DEF Unclaimed
<1>2. CASE ~Unclaimed(UdpOrigin(p))
  <2>1. s # None BY <1>2 DEF DispatchUdp, DispatchUdpPmtu
  <2>2. s \in Socket BY <2>1, UdpFinds
  <2> HIDE DEF s
  <2>3. DOMAIN rec = Fields BY <2>2, FieldsOf
  <2>4. \A f \in {"laddr", "lport", "rx", "errors", "closed"} : f \in Fields BY DEF Fields
  <2>5. CASE DispatchUdp(p) /\ p.kind = "unreachable"
    <3> DEFINE new == [rec EXCEPT !.unreachable = TRUE]
    <3>1. Alike(new, rec) BY <2>3 DEF Alike, Fields
    <3>2. socks' = [socks EXCEPT ![s] = _enqueue_error(new, options[s].recverr, build_icmp_error_entry(p))]
      BY <1>2, <2>5 DEF DispatchUdp, udp_notify_unreachable, s
    <3> HIDE DEF new
    <3> QED BY <2>2, <3>1, <3>2, ErrorGiven, EntriesAreItems
  <2>6. CASE DispatchUdp(p) /\ p.kind # "unreachable"
    <3>1. Alike(rec, rec) BY <2>3 DEF Alike
    <3>2. socks' = [socks EXCEPT ![s] = _enqueue_error(rec, options[s].recverr, build_icmp_error_entry(p))]
      BY <1>2, <2>6 DEF DispatchUdp, notify_error, s
    <3> QED BY <2>2, <3>1, <3>2, ErrorGiven, EntriesAreItems
  <2>7. CASE DispatchUdpPmtu(p)
    <3> DEFINE new == [rec EXCEPT !.adapter = _ensure_plpmtud_adapter(rec, p.family)]
    <3>1. Alike(new, rec) BY <2>3 DEF Alike, Fields
    <3>2. socks' = [socks EXCEPT ![s] = _enqueue_error(new, options[s].recverr, TooBigEntry(p))]
      BY <1>2, <2>7 DEF DispatchUdpPmtu, udp_notify_pmtu, s
    <3> HIDE DEF new
    <3> QED BY <2>2, <3>1, <3>2, ErrorGiven, EntriesAreItems
  <2> QED BY SMTT(20), <2>5, <2>6, <2>7
<1> QED BY <1>1, <1>2

LEMMA PacketGiven ==
    ASSUME NEW p, ip_rx_raw(p) \/ phrx_udp(p) \/ icmp6_echo_reply(p)
    PROVE  UNCHANGED socks \/ GivenPacket(p)
<1>1. CASE ip_rx_raw(p)
  <2>1. RawMatch(p).sock \in Socket BY <1>1, RawFinds, SMTT(30) DEF ip_rx_raw, RawMatch
  <2> QED BY <1>1, <2>1 DEF ip_rx_raw, Deliver, GivenPacket
<1>2. CASE phrx_udp(p)
  <2> DEFINE ids == udp_socket_ids(p.family, p.dst, p.dport, p.src, p.sport)
             ok == {s \in Socket : _ip4_multicast_source_admits(s, p)}
             start == IF p.family = 6 /\ ~p.checksum THEN retry_zero_cksum_ip6(ids).table ELSE table
             hit == walk(start, ids, ok)
  <2>1. UNCHANGED socks \/ (hit.sock # None /\ Deliver(hit.sock, p)) BY <1>2 DEF phrx_udp
  <2>2. DOMAIN ids \subseteq Nat BY IdentifiersAreListed
  <2>3. ok \subseteq Socket OBVIOUS
  <2> HIDE DEF ids, ok, start
  <2>4. hit.sock # None => hit.sock \in Socket BY <2>2, <2>3, WalkFinds
  <2> HIDE DEF hit
  <2> QED BY SMTT(20), <2>1, <2>4 DEF Deliver, GivenPacket
<1>3. CASE icmp6_echo_reply(p)
  <2> DEFINE hit == walk(table, raw_socket_ids(p, p.proto), Socket)
  <2>1. UNCHANGED socks \/ (hit.sock # None /\ Deliver(hit.sock, p)) BY <1>3 DEF icmp6_echo_reply
  <2>2. hit.sock # None => hit.sock \in Socket BY RawFinds
  <2> HIDE DEF hit
  <2> QED BY <2>1, <2>2 DEF Deliver, GivenPacket
<1> QED BY <1>1, <1>2, <1>3

LEMMA Given ==
    ASSUME PermitInv, NEW p \in todo, Arrive(p)
    PROVE  UNCHANGED socks \/ GivenPacket(p) \/ GivenError
<1>1. p \in Calls BY DEF PermitInv, ReadInv
<1>2. build_icmp_error_entry(p) \in Items /\ TooBigEntry(p) \in Items BY <1>1, EntriesAreItems
<1>3. CASE ip_rx_raw(p) \/ phrx_udp(p) \/ icmp6_echo_reply(p) BY <1>3, PacketGiven
<1>4. CASE icmp4_echo_request(p) \/ icmp6_echo_request(p) \/ icmp4_echo_reply(p)
  BY <1>4 DEF icmp4_echo_request, icmp6_echo_request, icmp4_echo_reply
<1>5. ASSUME \/ Unparsed(p) \/ DispatchUdp(p) \/ DispatchUdpPmtu(p)
             \/ \E category : \E entry \in Items : DispatchTcp(p, category, entry)
      PROVE  UNCHANGED socks \/ GivenError
  <2>1. CASE Unparsed(p) BY <2>1 DEF Unparsed
  <2>2. CASE DispatchUdp(p) \/ DispatchUdpPmtu(p) BY <1>1, <2>2, UdpGiven
  <2>3. CASE \E category : \E entry \in Items : DispatchTcp(p, category, entry) BY <2>3, TcpGiven
  <2> QED BY <1>5, <2>1, <2>2, <2>3
<1>6. CASE icmp4_destination_unreachable(p)
  BY <1>2, <1>5, <1>6 DEF icmp4_destination_unreachable, icmp4_dispatch_udp, icmp4_dispatch_tcp
<1>7. CASE icmp4_time_exceeded(p) \/ icmp4_parameter_problem(p)
  BY <1>2, <1>5, <1>7 DEF icmp4_time_exceeded, icmp4_parameter_problem
<1>8. CASE icmp6_destination_unreachable(p) \/ icmp6_time_exceeded(p) \/ icmp6_parameter_problem(p)
  BY <1>2, <1>5, <1>8 DEF icmp6_destination_unreachable, icmp6_time_exceeded, icmp6_parameter_problem
<1>9. CASE icmp6_packet_too_big(p)
  BY <1>2, <1>5, <1>9 DEF icmp6_packet_too_big
<1> QED BY <1>3, <1>4, <1>6, <1>7, <1>8, <1>9 DEF Arrive

LEMMA ArriveKeepsPermits ==
    ASSUME PermitInv, NEW p \in todo, Arrive(p)
    PROVE  PermitInv'
<1>1. Undisturbed BY DEF Arrive, Take, Undisturbed
<1>2. p \in Items BY EntriesAreItems DEF PermitInv, ReadInv
<1>3. CASE UNCHANGED socks BY <1>1, <1>3, SocketsStay
<1>4. CASE GivenPacket(p)
  <2>1. PICK s \in Socket : socks' = [socks EXCEPT ![s] = process_packet(socks[s], p)]
    BY <1>4 DEF GivenPacket
  <2>2. SocketInv(process_packet(socks[s], p), s, reading) BY <1>2, Processed DEF PermitInv
  <2> QED BY <1>1, <2>1, <2>2, OneSocket
<1>5. CASE GivenError
  <2>1. PICK s \in Socket : \E new, recverr : \E entry \in Items :
            Alike(new, socks[s]) /\ socks' = [socks EXCEPT ![s] = _enqueue_error(new, recverr, entry)]
    BY <1>5 DEF GivenError
  <2>2. PICK new, recverr : \E entry \in Items :
            Alike(new, socks[s]) /\ socks' = [socks EXCEPT ![s] = _enqueue_error(new, recverr, entry)]
    BY <2>1
  <2>3. PICK entry \in Items :
            Alike(new, socks[s]) /\ socks' = [socks EXCEPT ![s] = _enqueue_error(new, recverr, entry)]
    BY <2>2
  <2>4. SocketInv(new, s, reading) BY <2>3, SameQueues DEF PermitInv, Alike
  <2>5. SocketInv(_enqueue_error(new, recverr, entry), s, reading) BY <2>4, Enqueued
  <2> QED BY <1>1, <2>3, <2>5, OneSocket
<1> QED BY <1>3, <1>4, <1>5, Given

-----------------------------------------------------------------------------
(* The permits hold.                                                       *)

LEMMA PermitsAtFirst ==
    ASSUME Init
    PROVE  PermitInv
<1>1. PICK plan \in Plans : /\ socks = [s \in Socket |-> Fresh(plan.options[s], plan.at[s])]
                            /\ reading = {} /\ todo = plan.todo
  BY DEF Init
<1>2. ReadInv BY <1>1 DEF ReadInv, Calls
<1>3. EmptyQueue \in Queue /\ EmptyQueue.waiters = <<>> /\ EmptyQueue.queue = <<>> /\ EmptyQueue.value = 0
  BY DEF EmptyQueue, Queue
<1>4. GrantedIn(EmptyQueue) = 0
  <2>1. {i \in DOMAIN EmptyQueue.waiters : EmptyQueue.waiters[i].granted} = {} BY <1>3
  <2> QED BY <2>1, FS_EmptySet DEF GrantedIn
<1>5. Counts(EmptyQueue) BY <1>3, <1>4 DEF Counts
<1>6. \A s, box : QueueInv(EmptyQueue, s, box, reading) BY <1>3 DEF QueueInv, InLine
<1>7. ASSUME NEW s \in Socket PROVE SocketInv(socks[s], s, reading)
  <2>1. socks[s] = Fresh(plan.options[s], plan.at[s]) BY <1>1
  <2>2. DOMAIN socks[s] = Fields /\ socks[s].rx = EmptyQueue /\ socks[s].errors = EmptyQueue
    <3> HIDE DEF EmptyQueue
    <3> QED BY <2>1 DEF Fresh, Fields
  <2> QED BY <1>5, <1>6, <2>2 DEF SocketInv
<1> QED BY <1>1, <1>2, <1>7 DEF PermitInv

LEMMA StepKeepsPermits ==
    ASSUME PermitInv, [Next]_vars
    PROVE  PermitInv'
<1>1. CASE UNCHANGED vars
  <2>1. UNCHANGED socks /\ Undisturbed BY <1>1 DEF vars, Undisturbed
  <2> QED BY <2>1, SocketsStay
<1>2. ASSUME NEW family \in {4, 6}, Refill(family) PROVE PermitInv'
  <2>1. UNCHANGED socks /\ Undisturbed BY <1>2 DEF Refill, Undisturbed
  <2> QED BY <2>1, SocketsStay
<1> QED BY <1>1, <1>2, CallKeepsPermits, ArriveKeepsPermits, ResumeKeepsPermits DEF Next

LEMMA PermitInvUnfolds == PermitInv => PermitsMatchQueue
BY DEF PermitInv, SocketInv, PermitsMatchQueue

(* On an open socket the permits of the receive semaphore, free or granted *)
(* to a reader that has not run yet, are exactly the queued datagrams; the *)
(* error queue keeps this across overflow and after close as well.  No     *)
(* read pops an empty queue and none sleeps next to a datagram, however    *)
(* many readers there are and in whatever order calls, timeouts, arrivals  *)
(* and close come.                                                         *)
THEOREM PermitsHold == Spec => []PermitsMatchQueue
<1>1. Init => PermitInv BY PermitsAtFirst
<1>2. PermitInv /\ [Next]_vars => PermitInv' BY StepKeepsPermits
<1> QED BY <1>1, <1>2, PermitInvUnfolds, PTL DEF Spec
=============================================================================
