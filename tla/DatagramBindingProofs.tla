----------------------- MODULE DatagramBindingProofs ------------------------
(***************************************************************************)
(* The local addresses and ports of the datagram sockets, for every set of *)
(* sockets and every plan of calls and arrivals:                           *)
(*                                                                         *)
(*   BindingsHold     Spec => []BindingsDistinct                           *)
(*                                                                         *)
(* It rests on the table: an open UDP socket with a port is registered,    *)
(* and a registered UDP socket has a port.                                 *)
(***************************************************************************)
EXTENDS DatagramPermitProofs

TableInv(tbl) ==
    \A id \in DOMAIN tbl : DOMAIN tbl[id] = {"cohort", "cursor"} /\ tbl[id].cohort \in Seq(Socket)

(* An open UDP socket is in the table exactly when it has a port. *)
PortInv ==
    \A s \in Socket : options[s].type = "dgram" =>
        /\ socks[s].lport \in Nat
        /\ s \in Registered => socks[s].lport > 0
        /\ ~socks[s].closed /\ socks[s].lport > 0 => s \in Registered

BindInv == TableInv(table) /\ PortInv /\ BindingsDistinct

-----------------------------------------------------------------------------
(* The table.                                                              *)

Members(tbl) == UNION {{tbl[id].cohort[i] : i \in DOMAIN tbl[id].cohort} : id \in DOMAIN tbl}

LEMMA RegisteredAreMembers == Registered = Members(table)
BY DEF Registered, Members

LEMMA MembersUnfolds ==
    ASSUME NEW tbl, NEW x
    PROVE  x \in Members(tbl) <=> \E id \in DOMAIN tbl : \E i \in DOMAIN tbl[id].cohort : x = tbl[id].cohort[i]
BY DEF Members

(* SocketTable.register *)
LEMMA RegisterAdds ==
    ASSUME NEW tbl, TableInv(tbl), NEW s \in Socket, NEW id
    PROVE  TableInv(register(tbl, s, id)) /\ Members(register(tbl, s, id)) = Members(tbl) \cup {s}
<1> DEFINE new == register(tbl, s, id)
<1>1. CASE id \notin DOMAIN tbl
  <2> DEFINE e == [cohort |-> <<s>>, cursor |-> 0]
  <2>1. /\ DOMAIN new = DOMAIN tbl \cup {id}
        /\ new[id] = e
        /\ \A i \in DOMAIN tbl : new[i] = tbl[i]
    BY <1>1 DEF register
  <2>2. DOMAIN e = {"cohort", "cursor"} /\ e.cohort \in Seq(Socket) /\ DOMAIN e.cohort = {1} /\ e.cohort[1] = s
    OBVIOUS
  <2> HIDE DEF e, new
  <2>3. TableInv(new) BY <2>1, <2>2 DEF TableInv
  <2>4. \A x : x \in Members(new) <=> x \in Members(tbl) \/ x = s
    BY SMTT(20), <1>1, <2>1, <2>2, MembersUnfolds
  <2> QED BY <2>3, <2>4 DEF new
<1>2. CASE id \in DOMAIN tbl /\ \E i \in DOMAIN tbl[id].cohort : tbl[id].cohort[i] = s
  <2>1. new = tbl BY <1>2 DEF register
  <2>2. s \in Members(tbl) BY <1>2, MembersUnfolds
  <2> QED BY <2>1, <2>2
<1>3. CASE id \in DOMAIN tbl /\ ~\E i \in DOMAIN tbl[id].cohort : tbl[id].cohort[i] = s
  <2> DEFINE old == tbl[id].cohort
             co == Append(old, s)
  <2>1. old \in Seq(Socket) /\ DOMAIN tbl[id] = {"cohort", "cursor"} BY <1>3 DEF TableInv
  <2>2. /\ co \in Seq(Socket) /\ DOMAIN co = DOMAIN old \cup {Len(old) + 1}
        /\ co[Len(old) + 1] = s /\ \A i \in DOMAIN old : co[i] = old[i]
    <3> HIDE DEF old
    <3> QED BY <2>1
  <2>3. new = [tbl EXCEPT ![id].cohort = co] BY <1>3 DEF register
  <2> HIDE DEF co, new
  <2>4. /\ DOMAIN new = DOMAIN tbl /\ new[id].cohort = co /\ DOMAIN new[id] = {"cohort", "cursor"}
        /\ \A i \in DOMAIN tbl \ {id} : new[i] = tbl[i]
    BY <1>3, <2>1, <2>3
  <2>5. TableInv(new) BY <2>2, <2>4 DEF TableInv
  <2>6. ASSUME NEW x PROVE x \in Members(new) <=> x \in Members(tbl) \/ x = s
    <3>1. (\E i \in DOMAIN co : x = co[i]) <=> (\E i \in DOMAIN old : x = old[i]) \/ x = s BY <2>2
    <3> HIDE DEF old
    <3>2. x \in Members(new) <=> \E i \in DOMAIN new : \E j \in DOMAIN new[i].cohort : x = new[i].cohort[j]
      BY MembersUnfolds
    <3>3. x \in Members(tbl) <=> \E i \in DOMAIN tbl : \E j \in DOMAIN tbl[i].cohort : x = tbl[i].cohort[j]
      BY MembersUnfolds
    <3> QED BY <1>3, <2>4, <3>1, <3>2, <3>3 DEF old
  <2> QED BY <2>5, <2>6 DEF new
<1> QED BY <1>1, <1>2, <1>3

(* SocketTable.unregister takes the socket out, and no other. *)
LEMMA UnregisterDrops ==
    ASSUME NEW tbl, TableInv(tbl), NEW s, NEW id
    PROVE  /\ TableInv(unregister(tbl, s, id))
           /\ Members(tbl) \ {s} \subseteq Members(unregister(tbl, s, id))
           /\ Members(unregister(tbl, s, id)) \subseteq Members(tbl)
<1> DEFINE new == unregister(tbl, s, id)
<1>1. CASE id \notin DOMAIN tbl BY <1>1 DEF unregister
<1>2. CASE id \in DOMAIN tbl
  <2> DEFINE old == tbl[id].cohort
             mine == {i \in DOMAIN old : old[i] = s}
             rest == Without(old, mine)
  <2>1. old \in Seq(Socket) /\ DOMAIN tbl[id] = {"cohort", "cursor"} BY <1>2 DEF TableInv
  <2>2. new = IF rest = <<>> THEN [i \in DOMAIN tbl \ {id} |-> tbl[i]] ELSE [tbl EXCEPT ![id].cohort = rest]
    BY SMTT(20), <1>2 DEF unregister
  <2>3. /\ rest \in Seq(Socket)
        /\ \A i \in DOMAIN rest : \E j \in DOMAIN old : rest[i] = old[j]
        /\ \A j \in DOMAIN old : old[j] # s => \E i \in DOMAIN rest : rest[i] = old[j]
    <3>1. CASE mine = {}
      <4>1. rest = old BY <3>1, WithoutDrops
      <4> QED BY <2>1, <4>1
    <3>2. CASE mine # {}
      <4>1. PICK k \in mine : rest = Drop(old, k) BY <3>2, WithoutDrops
      <4>2. k \in DOMAIN old /\ old[k] = s BY <4>1
      <4> HIDE DEF mine, rest, old
      <4>3. /\ Drop(old, k) \in Seq(Socket)
            /\ \A i \in DOMAIN Drop(old, k) : Drop(old, k)[i] = old[Skip(k, i)] /\ Skip(k, i) \in DOMAIN old \ {k}
            /\ \A j \in DOMAIN old \ {k} : \E i \in DOMAIN Drop(old, k) : Skip(k, i) = j
        BY <2>1, <4>2, DropKeeps
      <4> QED BY <4>1, <4>2, <4>3
    <3> QED BY <3>1, <3>2
  <2> HIDE DEF mine, rest
  <2>4. CASE rest = <<>>
    <3>1. DOMAIN new = DOMAIN tbl \ {id} /\ \A i \in DOMAIN tbl \ {id} : new[i] = tbl[i]
      BY <2>2, <2>4
    <3> HIDE DEF new
    <3>2. TableInv(new) BY <3>1 DEF TableInv
    <3>3. \A j \in DOMAIN old : old[j] = s BY <2>3, <2>4
    <3>4. ASSUME NEW x \in Members(new) PROVE x \in Members(tbl) BY <3>1, MembersUnfolds
    <3>5. ASSUME NEW x \in Members(tbl), x # s PROVE x \in Members(new)
      <4>1. PICK i \in DOMAIN tbl : \E j \in DOMAIN tbl[i].cohort : x = tbl[i].cohort[j] BY MembersUnfolds
      <4>2. i # id BY SMTT(20), <3>3, <3>5, <4>1
      <4> QED BY <3>1, <4>1, <4>2, MembersUnfolds
    <3> QED BY <3>2, <3>4, <3>5 DEF new
  <2>5. CASE rest # <<>>
    <3>1. /\ DOMAIN new = DOMAIN tbl /\ new[id].cohort = rest /\ DOMAIN new[id] = {"cohort", "cursor"}
          /\ \A i \in DOMAIN tbl \ {id} : new[i] = tbl[i]
      BY SMTT(20), <1>2, <2>1, <2>2, <2>5
    <3> HIDE DEF new
    <3>2. TableInv(new) BY <2>3, <3>1, SMTT(30) DEF TableInv
    <3>4. ASSUME NEW x \in Members(new) PROVE x \in Members(tbl)
      <4>1. PICK i \in DOMAIN new : \E j \in DOMAIN new[i].cohort : x = new[i].cohort[j] BY MembersUnfolds
      <4>2. CASE i = id
        <5>1. \E j \in DOMAIN rest : x = rest[j] BY <3>1, <4>1, <4>2
        <5>2. \E j \in DOMAIN old : x = old[j] BY <2>3, <5>1
        <5> QED BY <1>2, <5>2, MembersUnfolds
      <4>3. CASE i # id BY <3>1, <4>1, <4>3, MembersUnfolds
      <4> QED BY <4>2, <4>3
    <3>5. ASSUME NEW x \in Members(tbl), x # s PROVE x \in Members(new)
      <4>1. PICK i \in DOMAIN tbl : \E j \in DOMAIN tbl[i].cohort : x = tbl[i].cohort[j] BY MembersUnfolds
      <4>2. CASE i = id
        <5>1. \E j \in DOMAIN old : x = old[j] BY <4>1, <4>2
        <5>2. \E j \in DOMAIN rest : x = rest[j] BY <2>3, <3>5, <5>1
        <5> QED BY <1>2, <3>1, <5>2, MembersUnfolds
      <4>3. CASE i # id BY <3>1, <4>1, <4>3, MembersUnfolds
      <4> QED BY <4>2, <4>3
    <3> QED BY <3>2, <3>4, <3>5 DEF new
  <2> QED BY <2>4, <2>5
<1> QED BY <1>1, <1>2

(* Looking sockets up only passes the turn on. *)
LEMMA WalkKeeps ==
    ASSUME NEW tbl, TableInv(tbl), NEW ids, NEW ok
    PROVE  LET new == walk(tbl, ids, ok).table
           IN  TableInv(new) /\ Members(new) = Members(tbl)
<1> DEFINE new == walk(tbl, ids, ok).table
<1>1. DOMAIN new = DOMAIN tbl /\ \A id \in DOMAIN tbl : new[id] \in {tbl[id], turn(tbl[id])}
  BY DEF walk
<1>2. ASSUME NEW id \in DOMAIN tbl
      PROVE  DOMAIN turn(tbl[id]) = {"cohort", "cursor"} /\ turn(tbl[id]).cohort = tbl[id].cohort
  BY DEF TableInv, turn
<1> HIDE DEF new
<1>3. \A id \in DOMAIN tbl : DOMAIN new[id] = {"cohort", "cursor"} /\ new[id].cohort = tbl[id].cohort
  BY <1>1, <1>2 DEF TableInv
<1>4. TableInv(new) BY <1>1, <1>3 DEF TableInv
<1>5. \A x : x \in Members(new) <=> x \in Members(tbl) BY <1>1, <1>3, MembersUnfolds
<1>6. Members(new) = Members(tbl) BY <1>5
<1> QED BY <1>4, <1>6 DEF new

LEMMA MembersAreSockets ==
    ASSUME NEW tbl, TableInv(tbl)
    PROVE  Members(tbl) \subseteq Socket
BY MembersUnfolds DEF TableInv

(* unregister under the old identifier and register under the new one *)
LEMMA Reregistered ==
    ASSUME TableInv(table), NEW s \in Socket, NEW rec, Rebind(s, rec)
    PROVE  TableInv(table') /\ Members(table') = Members(table) \cup {s}
<1> DEFINE a == socket_id(s, socks[s])
           b == socket_id(s, rec)
           mid == unregister(table, s, a)
<1>1. table' = register(mid, s, b) BY DEF Rebind
<1> HIDE DEF a, b
<1>2. /\ TableInv(mid)
      /\ Members(table) \ {s} \subseteq Members(mid)
      /\ Members(mid) \subseteq Members(table)
  BY UnregisterDrops
<1> HIDE DEF mid
<1>3. TableInv(table') /\ Members(table') = Members(mid) \cup {s} BY <1>1, <1>2, RegisterAdds
<1> QED BY <1>2, <1>3

-----------------------------------------------------------------------------
(* Bindings.                                                               *)

Reuses(s, t) ==
    \/ options[s].reuseaddr \/ options[t].reuseaddr
    \/ options[s].reuseport /\ options[t].reuseport

Dual(s) == options[s].family = 6 /\ ~options[s].v6only

(* s on the local address a and t on b do not overlap. *)
Apart(s, a, t, b) ==
    IF options[s].family = options[t].family
    THEN Unspecified \notin {a, b} /\ a # b
    ELSE /\ ~(Dual(s) /\ a = Unspecified /\ options[t].family = 4)
         /\ ~(Dual(t) /\ b = Unspecified /\ options[s].family = 4)

(* The open UDP sockets of a table. *)
Live(t) == t \in Members(table) /\ options[t].type = "dgram" /\ ~socks[t].closed

LEMMA DistinctUnfolds ==
    BindingsDistinct <=>
        \A s, t : Live(s) /\ Live(t) /\ s # t /\ socks[s].lport = socks[t].lport =>
            Reuses(s, t) \/ Apart(s, socks[s].laddr, t, socks[t].laddr)
BY RegisteredAreMembers DEF BindingsDistinct, Live, Reuses, Apart, Dual

LEMMA DistinctUnfoldsNext ==
    BindingsDistinct' <=>
        \A s, t : Live(s)' /\ Live(t)' /\ s # t /\ socks'[s].lport = socks'[t].lport =>
            Reuses(s, t)' \/ Apart(s, socks[s].laddr, t, socks[t].laddr)'
BY SMTT(20) DEF BindingsDistinct, Live, Reuses, Apart, Dual, Registered, Members

LEMMA Narrower ==
    ASSUME NEW s, NEW t, NEW a, NEW b, Apart(s, Unspecified, t, b)
    PROVE  Apart(s, a, t, b)
BY DEF Apart

SameNames(new, rec) == new.laddr = rec.laddr /\ new.lport = rec.lport

(* Sockets that keep their names, in a table that may lose those that are  *)
(* closed or have no port.                                                 *)
LEMMA NoNewBinding ==
    ASSUME BindInv, UNCHANGED options, TableInv(table'), Members(table') \subseteq Members(table),
           \A t \in Socket : SameNames(socks'[t], socks[t]) /\ (socks[t].closed => socks'[t].closed),
           \A t \in Members(table) \ Members(table') :
               options[t].type = "dgram" => socks'[t].closed \/ ~(socks[t].lport > 0)
    PROVE  BindInv'
<1>1. Members(table) \subseteq Socket BY MembersAreSockets DEF BindInv
<1>2. \A t : Live(t)' => Live(t) /\ t \in Socket BY SMTT(20), <1>1 DEF Live
<1>3. ASSUME NEW s, NEW t, Live(s)', Live(t)', s # t, socks'[s].lport = socks'[t].lport
      PROVE  Reuses(s, t)' \/ Apart(s, socks[s].laddr, t, socks[t].laddr)'
  <2>1. Live(s) /\ Live(t) /\ socks[s].lport = socks[t].lport BY <1>2, <1>3 DEF SameNames
  <2>2. Reuses(s, t) \/ Apart(s, socks[s].laddr, t, socks[t].laddr) BY <1>3, <2>1, DistinctUnfolds DEF BindInv
  <2>3. socks'[s].laddr = socks[s].laddr /\ socks'[t].laddr = socks[t].laddr BY <1>2, <1>3 DEF SameNames
  <2> QED BY <2>2, <2>3 DEF Reuses, Apart, Dual
<1>4. BindingsDistinct' BY <1>3, DistinctUnfoldsNext
<1>5. PortInv'
  <2> SUFFICES ASSUME NEW t \in Socket, options[t].type = "dgram"
               PROVE  /\ socks'[t].lport \in Nat
                      /\ t \in Members(table') => socks'[t].lport > 0
                      /\ ~socks'[t].closed /\ socks'[t].lport > 0 => t \in Members(table')
    BY DEF PortInv, Registered, Members
  <2>1. /\ socks[t].lport \in Nat
        /\ t \in Members(table) => socks[t].lport > 0
        /\ ~socks[t].closed /\ socks[t].lport > 0 => t \in Members(table)
    BY SMTT(20), RegisteredAreMembers DEF BindInv, PortInv
  <2>2. SameNames(socks'[t], socks[t]) /\ (socks[t].closed => socks'[t].closed) OBVIOUS
  <2> QED BY SMTT(20), <2>1, <2>2 DEF SameNames
<1> QED BY <1>4, <1>5 DEF BindInv

(* A UDP socket takes a name that does not clash. *)
LEMMA NewBinding ==
    ASSUME PermitInv, BindInv, UNCHANGED options, NEW s \in Socket, NEW rec, Rebind(s, rec),
           options[s].type = "dgram", rec.lport \in Nat, rec.lport > 0, rec.closed = socks[s].closed,
           ~socks[s].closed => \A t : Live(t) /\ t # s /\ socks[t].lport = rec.lport =>
               Reuses(s, t) \/ Apart(s, rec.laddr, t, socks[t].laddr)
    PROVE  BindInv'
<1>1. TableInv(table') /\ Members(table') = Members(table) \cup {s} BY Reregistered DEF BindInv
<1>2. socks' = [socks EXCEPT ![s] = rec] /\ DOMAIN socks = Socket BY DEF Rebind, PermitInv
<1>3. socks'[s] = rec /\ \A t \in Socket \ {s} : socks'[t] = socks[t] BY <1>2
<1>4. Members(table) \subseteq Socket BY MembersAreSockets DEF BindInv
<1>5. \A t : Live(t)' /\ t # s => Live(t) /\ socks'[t] = socks[t] BY <1>1, <1>3, <1>4 DEF Live
<1>6. Live(s)' => ~socks[s].closed BY <1>3 DEF Live
<1>7. ASSUME NEW t, Live(s)', Live(t)', t # s, socks'[s].lport = socks'[t].lport
      PROVE  Reuses(s, t)' \/ Apart(s, socks[s].laddr, t, socks[t].laddr)'
  <2>1. Reuses(s, t) \/ Apart(s, rec.laddr, t, socks[t].laddr) BY SMTT(20), <1>3, <1>5, <1>6, <1>7
  <2>2. socks'[s].laddr = rec.laddr /\ socks'[t].laddr = socks[t].laddr BY SMTT(20), <1>3, <1>5, <1>7
  <2> QED BY SMTT(20), <2>1, <2>2 DEF Reuses, Apart, Dual
<1>8. ASSUME NEW t, NEW u, Live(t)', Live(u)', t # u, socks'[t].lport = socks'[u].lport
      PROVE  Reuses(t, u)' \/ Apart(t, socks[t].laddr, u, socks[u].laddr)'
  <2>1. CASE t = s BY SMTT(20), <1>7, <1>8, <2>1
  <2>2. CASE u = s
    <3>1. Reuses(s, t)' \/ Apart(s, socks[s].laddr, t, socks[t].laddr)' BY SMTT(20), <1>7, <1>8, <2>2
    <3> QED BY <2>2, <3>1 DEF Reuses, Apart, Dual
  <2>3. CASE t # s /\ u # s
    <3>1. Live(t) /\ Live(u) /\ socks'[t] = socks[t] /\ socks'[u] = socks[u] BY <1>5, <1>8, <2>3
    <3>2. Reuses(t, u) \/ Apart(t, socks[t].laddr, u, socks[u].laddr) BY <1>8, <3>1, DistinctUnfolds DEF BindInv
    <3> QED BY <3>1, <3>2 DEF Reuses, Apart, Dual
  <2> QED BY SMTT(20), <2>1, <2>2, <2>3
<1>9. BindingsDistinct' BY <1>8, DistinctUnfoldsNext
<1>10. PortInv'
  <2> SUFFICES ASSUME NEW t \in Socket, options[t].type = "dgram"
               PROVE  /\ socks'[t].lport \in Nat
                      /\ t \in Members(table') => socks'[t].lport > 0
                      /\ ~socks'[t].closed /\ socks'[t].lport > 0 => t \in Members(table')
    BY DEF PortInv, Registered, Members
  <2>1. /\ socks[t].lport \in Nat
        /\ t \in Members(table) => socks[t].lport > 0
        /\ ~socks[t].closed /\ socks[t].lport > 0 => t \in Members(table)
    BY RegisteredAreMembers DEF BindInv, PortInv
  <2> QED BY SMTT(20), <1>1, <1>3, <2>1
<1> QED BY <1>1, <1>9, <1>10 DEF BindInv

(* A RAW socket changes its name. *)
LEMMA RawBinding ==
    ASSUME PermitInv, BindInv, UNCHANGED options, NEW s \in Socket, NEW rec, Rebind(s, rec),
           options[s].type = "raw"
    PROVE  BindInv'
<1>1. TableInv(table') /\ Members(table') = Members(table) \cup {s} BY Reregistered DEF BindInv
<1>2. socks' = [socks EXCEPT ![s] = rec] /\ DOMAIN socks = Socket BY DEF Rebind, PermitInv
<1>3. \A t \in Socket \ {s} : socks'[t] = socks[t] BY <1>2
<1>4. Members(table) \subseteq Socket BY MembersAreSockets DEF BindInv
<1>5. \A t : Live(t)' => Live(t) /\ socks'[t] = socks[t] BY <1>1, <1>3, <1>4 DEF Live
<1>6. ASSUME NEW t, NEW u, Live(t)', Live(u)', t # u, socks'[t].lport = socks'[u].lport
      PROVE  Reuses(t, u)' \/ Apart(t, socks[t].laddr, u, socks[u].laddr)'
  <2>1. Live(t) /\ Live(u) /\ socks'[t] = socks[t] /\ socks'[u] = socks[u] BY <1>5, <1>6
  <2>2. Reuses(t, u) \/ Apart(t, socks[t].laddr, u, socks[u].laddr) BY <1>6, <2>1, DistinctUnfolds DEF BindInv
  <2> QED BY <2>1, <2>2 DEF Reuses, Apart, Dual
<1>7. BindingsDistinct' BY <1>6, DistinctUnfoldsNext
<1>8. PortInv'
  <2> SUFFICES ASSUME NEW t \in Socket, options[t].type = "dgram"
               PROVE  /\ socks'[t].lport \in Nat
                      /\ t \in Members(table') => socks'[t].lport > 0
                      /\ ~socks'[t].closed /\ socks'[t].lport > 0 => t \in Members(table')
    BY DEF PortInv, Registered, Members
  <2>1. t # s OBVIOUS
  <2>2. /\ socks[t].lport \in Nat
        /\ t \in Members(table) => socks[t].lport > 0
        /\ ~socks[t].closed /\ socks[t].lport > 0 => t \in Members(table)
    BY RegisteredAreMembers DEF BindInv, PortInv
  <2> QED BY <1>1, <1>3, <2>1, <2>2
<1> QED BY <1>1, <1>7, <1>8 DEF BindInv

(* One socket changes and keeps its name; the table stays or is looked at. *)
LEMMA SameBindings ==
    ASSUME PermitInv, BindInv, UNCHANGED options, TableInv(table'), Members(table') = Members(table),
           NEW s \in Socket, NEW rec, socks' = [socks EXCEPT ![s] = rec],
           SameNames(rec, socks[s]), rec.closed = socks[s].closed
    PROVE  BindInv'
<1>1. DOMAIN socks = Socket BY DEF PermitInv
<1>2. ASSUME NEW t \in Socket
      PROVE  SameNames(socks'[t], socks[t]) /\ (socks[t].closed => socks'[t].closed)
  <2>1. CASE t = s
    <3>1. socks'[t] = rec BY SMTT(20), <1>1, <2>1
    <3> QED BY <2>1, <3>1
  <2>2. CASE t # s
    <3>1. socks'[t] = socks[t] BY <1>1, <2>2
    <3> QED BY <3>1 DEF SameNames
  <2> QED BY <2>1, <2>2
<1> QED BY <1>2, NoNewBinding

LEMMA AllSame ==
    ASSUME PermitInv, BindInv, UNCHANGED <<options, socks>>, TableInv(table'), Members(table') = Members(table)
    PROVE  BindInv'
<1>1. \A t \in Socket : SameNames(socks'[t], socks[t]) /\ (socks[t].closed => socks'[t].closed)
  BY DEF SameNames
<1> QED BY SMTT(20), <1>1, NoNewBinding

LEMMA SameTable ==
    ASSUME BindInv, UNCHANGED table
    PROVE  TableInv(table') /\ Members(table') = Members(table)
BY DEF BindInv

(* No registered socket holds a port the stack picks. *)
LEMMA FreshPort ==
    ASSUME NEW port \in pick_local_port
    PROVE  port \in Nat /\ port > 0 /\ \A t \in Members(table) : socks[t].lport # port
<1>1. port \in Ephemeral /\ port \notin {socks[s].lport : s \in Members(table)}
  BY RegisteredAreMembers DEF pick_local_port
<1>2. port \in Nat /\ port > 0 BY <1>1, LimitsArePositive
<1> QED BY <1>1, <1>2

LEMMA PortOf ==
    ASSUME BindInv, NEW s \in Socket, options[s].type = "dgram"
    PROVE  /\ socks[s].lport \in Nat
           /\ s \in Members(table) => socks[s].lport > 0
           /\ ~socks[s].closed /\ socks[s].lport > 0 => s \in Members(table)
BY RegisteredAreMembers DEF BindInv, PortInv

(* is_address_in_use sees every clash. *)
LEMMA NotInUse ==
    ASSUME NEW s, options[s].type = "dgram", NEW a, NEW port, ~is_address_in_use(s, a, port),
           NEW t, Live(t), socks[t].lport = port
    PROVE  Reuses(s, t) \/ Apart(s, a, t, socks[t].laddr)
<1>1. t \in Registered /\ options[t].type = options[s].type BY RegisteredAreMembers DEF Live
<1> QED BY <1>1 DEF is_address_in_use, Reuses, Apart, Dual

LEMMA UdpBindKeeps ==
    ASSUME PermitInv, BindInv, UNCHANGED options, NEW c \in Calls, c.sock \in Socket, udp_bind(c)
    PROVE  BindInv'
<1> DEFINE s == c.sock
           ports == IF c.port > 0 THEN {c.port} ELSE pick_local_port
<1>1. CASE UNCHANGED <<socks, table>> BY <1>1, AllSame, SameTable
<1>2. CASE ~UNCHANGED <<socks, table>>
  <2>1. PICK port \in ports : Rebind(s, [socks[s] EXCEPT !.laddr = c.addr, !.lport = port])
    BY ZenonT(40), <1>2 DEF udp_bind
  <2>2. options[s].type = "dgram" /\ c.op = "bind" /\ ~(socks[s].lport > 0)
        /\ (c.port > 0 => options[s].reuseaddr \/ ~is_address_in_use(s, c.addr, c.port))
    BY <1>2 DEF udp_bind
  <2> DEFINE rec == [socks[s] EXCEPT !.laddr = c.addr, !.lport = port]
  <2>3. DOMAIN socks[s] = Fields BY FieldsOf
  <2>4. rec.laddr = c.addr /\ rec.lport = port /\ rec.closed = socks[s].closed
    <3> HIDE DEF s
    <3> QED BY <2>3 DEF Fields
  <2>5. c.port \in Nat BY <2>2, CallsName
  <2> HIDE DEF rec
  <2>6. port \in Nat /\ port > 0
    <3>1. CASE c.port > 0 BY <2>1, <2>5, <3>1
    <3>2. CASE ~(c.port > 0) BY <2>1, <3>2, FreshPort
    <3> QED BY <3>1, <3>2
  <2>7. ASSUME NEW t, Live(t), t # s, socks[t].lport = rec.lport
        PROVE  Reuses(s, t) \/ Apart(s, rec.laddr, t, socks[t].laddr)
    <3>1. CASE c.port > 0
      <4>1. port = c.port BY <2>1, <3>1
      <4>2. CASE options[s].reuseaddr BY <4>2 DEF Reuses
      <4>3. CASE ~is_address_in_use(s, c.addr, c.port) BY <2>2, <2>4, <2>7, <4>1, <4>3, NotInUse
      <4> QED BY <2>2, <3>1, <4>2, <4>3
    <3>2. CASE ~(c.port > 0)
      <4>1. port \in pick_local_port BY <2>1, <3>2
      <4> QED BY <2>4, <2>7, <4>1, FreshPort DEF Live
    <3> QED BY <3>1, <3>2
  <2> QED BY <2>1, <2>2, <2>4, <2>6, <2>7, NewBinding DEF rec
<1> QED BY <1>1, <1>2

LEMMA MarkedIs ==
    ASSUME PermitInv, NEW s \in Socket, NEW remote, NEW m, m = Marked(s, remote)
    PROVE  DOMAIN m = Fields /\ SameNames(m, socks[s]) /\ m.closed = socks[s].closed
<1>1. DOMAIN socks[s] = Fields BY FieldsOf, SMTT(30)
<1> QED BY <1>1 DEF Marked, Fields, SameNames

(* connect names the socket once: a specific address and a port it has stay. *)
LEMMA UdpConnectKeeps ==
    ASSUME PermitInv, BindInv, UNCHANGED options, NEW c, c.sock \in Socket, udp_connect(c)
    PROVE  BindInv'
<1> DEFINE s == c.sock
           m == Marked(s, c.addr)
           ports == IF socks[s].lport > 0 THEN {socks[s].lport} ELSE pick_local_port
           source == _get_ip_addresses(s, socks[s].lport, c.addr, c.port)
<1>1. DOMAIN m = Fields /\ SameNames(m, socks[s]) /\ m.closed = socks[s].closed BY MarkedIs, SMTT(30)
<1>2. options[s].type = "dgram" BY DEF udp_connect
<1>3. CASE UNCHANGED <<socks, table>> BY <1>3, AllSame, SameTable
<1>4. CASE socks' = [socks EXCEPT ![s] = m] /\ UNCHANGED table
  <2> HIDE DEF m, s
  <2> QED BY <1>1, <1>4, SameBindings, SameTable DEF s
<1>5. ASSUME NEW port \in ports,
             Rebind(s, [m EXCEPT !.laddr = source, !.lport = port, !.raddr = c.addr, !.rport = c.port])
      PROVE  BindInv'
  <2> DEFINE rec == [m EXCEPT !.laddr = source, !.lport = port, !.raddr = c.addr, !.rport = c.port]
  <2>1. rec.laddr = source /\ rec.lport = port /\ rec.closed = socks[s].closed
    <3> HIDE DEF m, s, source
    <3> QED BY <1>1 DEF Fields
  <2>2. /\ socks[s].lport \in Nat
        /\ ~socks[s].closed /\ socks[s].lport > 0 => s \in Members(table)
    BY <1>2, PortOf
  <2>3. socks[s].laddr # Unspecified => source = socks[s].laddr BY DEF _get_ip_addresses
  <2> HIDE DEF rec, m, source
  <2>4. port \in Nat /\ port > 0
    <3>1. CASE socks[s].lport > 0 BY <1>5, <2>2, <3>1
    <3>2. CASE ~(socks[s].lport > 0) BY <1>5, <3>2, FreshPort
    <3> QED BY <3>1, <3>2
  <2>5. ASSUME ~socks[s].closed, NEW t, Live(t), t # s, socks[t].lport = rec.lport
        PROVE  Reuses(s, t) \/ Apart(s, rec.laddr, t, socks[t].laddr)
    <3>1. CASE socks[s].lport > 0
      <4>1. port = socks[s].lport BY <1>5, <3>1
      <4>2. Live(s) BY SMTT(20), <1>2, <2>2, <2>5, <3>1 DEF Live
      <4>3. Reuses(s, t) \/ Apart(s, socks[s].laddr, t, socks[t].laddr)
        BY SMTT(20), <2>1, <2>5, <4>1, <4>2, DistinctUnfolds DEF BindInv
      <4>4. CASE socks[s].laddr = Unspecified BY SMTT(20), <4>3, <4>4, Narrower
      <4>5. CASE socks[s].laddr # Unspecified BY <2>1, <2>3, <4>3, <4>5
      <4> QED BY <4>4, <4>5
    <3>2. CASE ~(socks[s].lport > 0)
      <4>1. port \in pick_local_port BY <1>5, <3>2
      <4> QED BY <2>1, <2>5, <4>1, FreshPort DEF Live
    <3> QED BY <3>1, <3>2
  <2> QED BY <1>2, <1>5, <2>1, <2>4, <2>5, NewBinding DEF rec
<1> QED BY <1>3, <1>4, <1>5 DEF udp_connect

LEMMA UdpSendToKeeps ==
    ASSUME PermitInv, BindInv, UNCHANGED options, NEW c, c.sock \in Socket, udp_sendto(c)
    PROVE  BindInv'
<1> DEFINE s == c.sock
           m == Marked(s, c.addr)
           ports == IF socks[s].lport > 0 THEN {socks[s].lport} ELSE pick_local_port
<1>1. DOMAIN m = Fields /\ SameNames(m, socks[s]) /\ m.closed = socks[s].closed BY MarkedIs
<1>2. options[s].type = "dgram" BY DEF udp_sendto
<1>3. ASSUME ports = {}, table' = unregister(table, s, socket_id(s, socks[s])), UNCHANGED socks
      PROVE  BindInv'
  <2>1. ~(socks[s].lport > 0) BY <1>3
  <2>2. TableInv(table') /\ Members(table) \ {s} \subseteq Members(table') /\ Members(table') \subseteq Members(table)
    BY <1>3, UnregisterDrops DEF BindInv
  <2>3. \A t \in Socket : SameNames(socks'[t], socks[t]) /\ (socks[t].closed => socks'[t].closed)
    BY <1>3 DEF SameNames
  <2>4. \A t \in Members(table) \ Members(table') :
            options[t].type = "dgram" => socks'[t].closed \/ ~(socks[t].lport > 0)
    BY <2>1, <2>2
  <2> QED BY SMTT(20), <2>2, <2>3, <2>4, NoNewBinding
<1>4. ASSUME socks' = [socks EXCEPT ![s] = m], UNCHANGED table PROVE BindInv'
  <2> HIDE DEF m, s
  <2> QED BY <1>1, <1>4, SameBindings, SameTable DEF s
<1>5. ASSUME NEW port \in pick_local_port, Rebind(s, [m EXCEPT !.lport = port]) PROVE BindInv'
  <2> DEFINE rec == [m EXCEPT !.lport = port]
  <2>1. rec.lport = port /\ rec.closed = socks[s].closed
    <3> HIDE DEF m, s
    <3> QED BY <1>1 DEF Fields
  <2>2. port \in Nat /\ port > 0 /\ \A t \in Members(table) : socks[t].lport # port BY <1>5, FreshPort
  <2> HIDE DEF rec
  <2> QED BY <1>2, <1>5, <2>1, <2>2, NewBinding DEF rec, Live
<1>6. CASE ports = {} BY <1>3, <1>6 DEF udp_sendto
<1>7. CASE ports # {} /\ socks[s].lport > 0 BY <1>4, <1>7 DEF udp_sendto
<1>8. CASE ports # {} /\ ~(socks[s].lport > 0)
  <2>1. \E port \in pick_local_port : Rebind(s, [m EXCEPT !.lport = port]) BY <1>8 DEF udp_sendto
  <2> QED BY <2>1, <1>5
<1> QED BY <1>6, <1>7, <1>8

(* Reading changes the queues of a socket. *)
LEMMA AcquiredNames ==
    ASSUME NEW rec, DOMAIN rec = Fields, NEW c, NEW new, new = Acquired(rec, c)
    PROVE  SameNames(new, rec) /\ new.closed = rec.closed
<1>1. CASE c.op # "errqueue" /\ rec.closed
  <2>1. new = [rec EXCEPT !.rx = release(@)] BY <1>1 DEF Acquired
  <2> QED BY <2>1 DEF SameNames, Fields
<1>2. CASE ~(c.op # "errqueue" /\ rec.closed)
  <2>1. new = [rec EXCEPT ![Box(c)].queue = IF @ = <<>> THEN @ ELSE Tail(@)] BY <1>2 DEF Acquired
  <2>2. Box(c) \in {"rx", "errors"} BY BoxIs
  <2> QED BY <2>1, <2>2 DEF SameNames, Fields
<1> QED BY <1>1, <1>2

LEMMA BoxNames ==
    ASSUME NEW rec, DOMAIN rec = Fields, NEW c, NEW q, NEW new, new = [rec EXCEPT ![Box(c)] = q]
    PROVE  DOMAIN new = Fields /\ SameNames(new, rec) /\ new.closed = rec.closed
<1>1. Box(c) \in {"rx", "errors"} BY BoxIs
<1> QED BY <1>1 DEF SameNames, Fields

LEMMA ReadKeepsBindings ==
    ASSUME PermitInv, BindInv, UNCHANGED <<options, table>>, NEW c, c.sock \in Socket,
           Resume(c) \/ TimeOut(c) \/ _sem_acquire(c)
    PROVE  BindInv'
<1> DEFINE s == c.sock
           rec == socks[s]
<1>1. DOMAIN rec = Fields BY FieldsOf
<1>2. TableInv(table') /\ Members(table') = Members(table) BY SameTable
<1>3. ASSUME NEW q, socks' = [socks EXCEPT ![s] = [rec EXCEPT ![Box(c)] = q]] PROVE BindInv'
  <2> DEFINE new == [rec EXCEPT ![Box(c)] = q]
  <2>1. SameNames(new, rec) /\ new.closed = rec.closed BY SMTT(20), <1>1, BoxNames
  <2> HIDE DEF new
  <2> QED BY <1>2, <1>3, <2>1, SameBindings DEF new
<1>4. ASSUME NEW q, socks' = [socks EXCEPT ![s] = Acquired([rec EXCEPT ![Box(c)] = q], c)] PROVE BindInv'
  <2> DEFINE mid == [rec EXCEPT ![Box(c)] = q]
             new == Acquired(mid, c)
  <2>1. DOMAIN mid = Fields /\ SameNames(mid, rec) /\ mid.closed = rec.closed BY <1>1, BoxNames
  <2> HIDE DEF mid
  <2>2. SameNames(new, mid) /\ new.closed = mid.closed BY <2>1, AcquiredNames
  <2> HIDE DEF new
  <2>3. SameNames(new, rec) /\ new.closed = rec.closed BY <2>1, <2>2 DEF SameNames
  <2> QED BY <1>2, <1>4, <2>3, SameBindings DEF new, mid
<1>5. CASE Resume(c)
  <2>1. socks' = [socks EXCEPT ![s] = Acquired([rec EXCEPT ![Box(c)] = leave(rec[Box(c)], c, 0)], c)]
    BY <1>5 DEF Resume
  <2> QED BY <2>1, <1>4
<1>6. CASE TimeOut(c)
  <2>1. \E q : socks' = [socks EXCEPT ![s] = [rec EXCEPT ![Box(c)] = q]] BY <1>6 DEF TimeOut
  <2> QED BY <2>1, <1>3
<1>7. CASE _sem_acquire(c)
  <2>1. CASE UNCHANGED socks BY <1>2, <2>1, AllSame
  <2>2. CASE ~locked(rec[Box(c)])
    <3>1. socks' = [socks EXCEPT ![s] = Acquired([rec EXCEPT ![Box(c)].value = @ - 1], c)]
      BY <1>7, <2>2 DEF _sem_acquire
    <3>2. socks' = [socks EXCEPT ![s] = Acquired([rec EXCEPT ![Box(c)] =
                                                    [rec[Box(c)] EXCEPT !.value = @ - 1]], c)]
      BY <3>1
    <3> QED BY <3>2, <1>4
  <2>3. CASE locked(rec[Box(c)]) /\ ~UNCHANGED socks
    <3>1. socks' = [socks EXCEPT ![s] = [rec EXCEPT ![Box(c)] = enter(rec[Box(c)], c)]]
      BY <1>7, <2>3 DEF _sem_acquire
    <3> QED BY <3>1, <1>3
  <2> QED BY <2>1, <2>2, <2>3
<1> QED BY <1>5, <1>6, <1>7

LEMMA CloseKeepsBindings ==
    ASSUME PermitInv, BindInv, UNCHANGED options, NEW s \in Socket, Closing(s)
    PROVE  BindInv'
<1>1. TableInv(table') /\ Members(table) \ {s} \subseteq Members(table') /\ Members(table') \subseteq Members(table)
  BY UnregisterDrops DEF BindInv, Closing
<1>2. DOMAIN socks = Socket /\ DOMAIN socks[s] = Fields BY FieldsOf DEF PermitInv
<1>3. socks' = [socks EXCEPT ![s].closed = TRUE, ![s].rx = release(@)] BY DEF Closing
<1>4. socks'[s].closed /\ SameNames(socks'[s], socks[s]) BY <1>2, <1>3 DEF SameNames, Fields
<1>5. \A t \in Socket \ {s} : socks'[t] = socks[t] BY <1>2, <1>3
<1>6. \A t \in Socket : SameNames(socks'[t], socks[t]) /\ (socks[t].closed => socks'[t].closed)
  BY <1>4, <1>5 DEF SameNames
<1> QED BY <1>1, <1>4, <1>6, NoNewBinding

LEMMA CallKeepsBindings ==
    ASSUME PermitInv, BindInv, NEW c \in todo, Call(c)
    PROVE  BindInv'
<1>1. UNCHANGED options BY DEF Call, NetworkUntouched
<1>2. c \in Calls BY DEF PermitInv, ReadInv
<1>3. ASSUME c.op # "arrive" PROVE c.sock \in Socket BY <1>2, <1>3, CallsName
<1>4. ASSUME UNCHANGED <<socks, table>> PROVE BindInv' BY <1>1, <1>4, AllSame, SameTable, SMTT(30)
<1>5. CASE udp_bind(c) BY <1>1, <1>2, <1>3, <1>5, UdpBindKeeps, ZenonT(60) DEF udp_bind
<1>6. CASE udp_connect(c) BY <1>1, <1>3, <1>6, UdpConnectKeeps DEF udp_connect
<1>7. CASE udp_sendto(c) BY <1>1, <1>3, <1>7, UdpSendToKeeps DEF udp_sendto
<1>8. CASE raw_bind(c) BY <1>1, <1>3, <1>4, <1>8, RawBinding DEF raw_bind
<1>9. CASE raw_connect(c) BY <1>1, <1>3, <1>4, <1>9, RawBinding DEF raw_connect
<1>10. ASSUME c.sock \in Socket, socks' = [socks EXCEPT ![c.sock].unreachable = FALSE], UNCHANGED table
       PROVE  BindInv'
  <2> DEFINE rec == [socks[c.sock] EXCEPT !.unreachable = FALSE]
  <2>1. DOMAIN socks[c.sock] = Fields BY <1>10, FieldsOf
  <2>2. SameNames(rec, socks[c.sock]) /\ rec.closed = socks[c.sock].closed BY <2>1 DEF SameNames, Fields
  <2>3. socks' = [socks EXCEPT ![c.sock] = rec] BY <1>10
  <2> HIDE DEF rec
  <2> QED BY <1>1, <1>10, <2>2, <2>3, SameBindings, SameTable
<1>11. CASE udp_send(c) BY SMTT(20), <1>3, <1>4, <1>10, <1>11 DEF udp_send
<1>12. CASE raw_send(c) \/ raw_sendto(c) BY SMTT(20), <1>4, <1>12 DEF raw_send, raw_sendto
<1>13. ASSUME c.sock \in Socket, _sem_acquire(c) PROVE BindInv'
  BY <1>1, <1>13, ReadKeepsBindings DEF _sem_acquire
<1>14. CASE udp_recv(c)
  BY <1>3, <1>4, <1>10, <1>13, <1>14 DEF udp_recv, Read, _raise_if_closed
<1>15. CASE udp_recvfrom(c) \/ udp_recvmsg(c) \/ raw_recv(c) \/ raw_recvfrom(c)
  BY <1>3, <1>4, <1>13, <1>15
     DEF udp_recvfrom, udp_recvmsg, raw_recv, raw_recvfrom, Read, UnlessClosed, _raise_if_closed
<1>16. CASE udp_recvmsg_errqueue(c) \/ tcp_recvmsg_errqueue(c)
  BY SMTT(20), <1>3, <1>13, <1>16 DEF udp_recvmsg_errqueue, tcp_recvmsg_errqueue, Read
<1>17. CASE udp_close(c) \/ raw_close(c) BY SMTT(20), <1>1, <1>3, <1>17, CloseKeepsBindings DEF udp_close, raw_close
<1> QED BY <1>5, <1>6, <1>7, <1>8, <1>9, <1>11, <1>12, <1>14, <1>15, <1>16, <1>17 DEF Call

(* A table that has been looked at, if at all. *)
Looked(new, old) == TableInv(new) /\ Members(new) = Members(old)

LEMMA LookUp ==
    ASSUME BindInv, NEW ids, NEW ok
    PROVE  Looked(walk(table, ids, ok).table, table)
BY WalkKeeps DEF BindInv, Looked

LEMMA ArriveLooks ==
    ASSUME BindInv, NEW p, Arrive(p)
    PROVE  Looked(table', table)
<1>1. ASSUME UNCHANGED table PROVE Looked(table', table) BY <1>1 DEF BindInv, Looked
<1>2. CASE ip_rx_raw(p) BY <1>2, LookUp DEF ip_rx_raw, RawMatch
<1>3. CASE phrx_udp(p)
  <2> DEFINE ids == udp_socket_ids(p.family, p.dst, p.dport, p.src, p.sport)
             opted == retry_zero_cksum_ip6(ids)
             start == IF p.family = 6 /\ ~p.checksum THEN opted.table ELSE table
             ok == {s \in Socket : _ip4_multicast_source_admits(s, p)}
  <2>1. table' \in {opted.table, walk(start, ids, ok).table} BY <1>3 DEF phrx_udp
  <2> HIDE DEF ids, ok
  <2>2. Looked(opted.table, table) BY LookUp DEF retry_zero_cksum_ip6
  <2>3. Looked(start, table) BY <2>2 DEF BindInv, Looked
  <2> HIDE DEF start, opted
  <2>4. Looked(walk(start, ids, ok).table, table) BY <2>3, WalkKeeps DEF Looked
  <2> QED BY SMTT(20), <2>1, <2>2, <2>4
<1>4. CASE icmp4_echo_request(p) \/ icmp6_echo_request(p) \/ icmp4_echo_reply(p)
  BY <1>1, <1>4 DEF icmp4_echo_request, icmp6_echo_request, icmp4_echo_reply
<1>5. CASE icmp6_echo_reply(p) BY <1>5, LookUp DEF icmp6_echo_reply
<1>6. Looked(UdpOrigin(p).table, table) /\ Looked(TcpOrigin(p).table, table)
  BY SMTT(20), LookUp DEF UdpOrigin, TcpOrigin
<1>7. ASSUME \/ Unparsed(p) \/ DispatchUdp(p) \/ DispatchUdpPmtu(p)
             \/ \E category, entry : DispatchTcp(p, category, entry)
      PROVE  Looked(table', table)
  BY <1>1, <1>6, <1>7 DEF Unparsed, DispatchUdp, DispatchUdpPmtu, DispatchTcp
<1>8. CASE icmp4_destination_unreachable(p)
  BY <1>7, <1>8 DEF icmp4_destination_unreachable, icmp4_dispatch_udp, icmp4_dispatch_tcp
<1>9. CASE icmp4_time_exceeded(p) \/ icmp4_parameter_problem(p)
  BY <1>7, <1>9 DEF icmp4_time_exceeded, icmp4_parameter_problem
<1>10. CASE icmp6_destination_unreachable(p) \/ icmp6_time_exceeded(p) \/ icmp6_parameter_problem(p)
  BY <1>7, <1>10 DEF icmp6_destination_unreachable, icmp6_time_exceeded, icmp6_parameter_problem
<1>11. CASE icmp6_packet_too_big(p)
  BY <1>7, <1>11 DEF icmp6_packet_too_big
<1> QED BY SMTT(20), <1>2, <1>3, <1>4, <1>5, <1>8, <1>9, <1>10, <1>11 DEF Arrive

LEMMA ProcessedNames ==
    ASSUME NEW rec, DOMAIN rec = Fields, NEW p, NEW new, new = process_packet(rec, p)
    PROVE  SameNames(new, rec) /\ new.closed = rec.closed
BY DEF process_packet, SameNames, Fields

LEMMA EnqueuedNames ==
    ASSUME NEW rec, DOMAIN rec = Fields, NEW recverr, NEW entry, NEW new, new = _enqueue_error(rec, recverr, entry)
    PROVE  SameNames(new, rec) /\ new.closed = rec.closed
BY DEF _enqueue_error, SameNames, Fields

LEMMA ArriveKeepsBindings ==
    ASSUME PermitInv, BindInv, NEW p \in todo, Arrive(p)
    PROVE  BindInv'
<1>1. UNCHANGED options BY DEF Arrive
<1>2. TableInv(table') /\ Members(table') = Members(table) BY ArriveLooks DEF Looked
<1>3. CASE UNCHANGED socks BY <1>1, <1>2, <1>3, AllSame
<1>4. CASE GivenPacket(p)
  <2>1. PICK s \in Socket : socks' = [socks EXCEPT ![s] = process_packet(socks[s], p)]
    BY <1>4 DEF GivenPacket
  <2> DEFINE new == process_packet(socks[s], p)
  <2>2. SameNames(new, socks[s]) /\ new.closed = socks[s].closed BY FieldsOf, ProcessedNames
  <2> HIDE DEF new
  <2> QED BY <1>1, <1>2, <2>1, <2>2, SameBindings DEF new
<1>5. CASE GivenError
  <2>1. PICK s \in Socket : \E new, recverr : \E entry \in Items :
            Alike(new, socks[s]) /\ socks' = [socks EXCEPT ![s] = _enqueue_error(new, recverr, entry)]
    BY <1>5 DEF GivenError
  <2>2. PICK mid, recverr : \E entry \in Items :
            Alike(mid, socks[s]) /\ socks' = [socks EXCEPT ![s] = _enqueue_error(mid, recverr, entry)]
    BY <2>1
  <2>3. PICK entry \in Items :
            Alike(mid, socks[s]) /\ socks' = [socks EXCEPT ![s] = _enqueue_error(mid, recverr, entry)]
    BY <2>2
  <2> DEFINE new == _enqueue_error(mid, recverr, entry)
  <2>4. DOMAIN mid = Fields /\ SameNames(mid, socks[s]) /\ mid.closed = socks[s].closed
    BY <2>3 DEF Alike, SameNames
  <2>5. SameNames(new, mid) /\ new.closed = mid.closed BY <2>4, EnqueuedNames
  <2> HIDE DEF new
  <2>6. SameNames(new, socks[s]) /\ new.closed = socks[s].closed BY <2>4, <2>5 DEF SameNames
  <2> QED BY <1>1, <1>2, <2>3, <2>6, SameBindings DEF new
<1> QED BY <1>3, <1>4, <1>5, Given

LEMMA BindingsAtFirst ==
    ASSUME Init
    PROVE  BindInv
<1>1. PICK plan \in Plans : /\ options = plan.options
                            /\ socks = [s \in Socket |-> Fresh(plan.options[s], plan.at[s])]
  BY DEF Init
<1> DEFINE streams == {t \in Socket : options[t].type = "stream"}
           of(id) == CHOOSE s \in Socket : socket_id(s, socks[s]) = id
<1>2. table = [id \in {socket_id(s, socks[s]) : s \in streams} |-> [cohort |-> <<of(id)>>, cursor |-> 0]]
  BY DEF Init
<1>3. ASSUME NEW id \in DOMAIN table
      PROVE  of(id) \in Socket /\ options[of(id)].type = "stream"
  <2>1. PICK s \in streams : id = socket_id(s, socks[s]) BY <1>2
  <2>2. of(id) \in Socket /\ socket_id(of(id), socks[of(id)]) = id BY <2>1
  <2> HIDE DEF of
  <2>3. id.type = "stream" BY <2>1 DEF socket_id
  <2>4. socket_id(of(id), socks[of(id)]).type = options[of(id)].type BY DEF socket_id
  <2> QED BY <2>2, <2>3, <2>4
<1>4. ASSUME NEW id \in DOMAIN table
      PROVE  /\ DOMAIN table[id] = {"cohort", "cursor"} /\ table[id].cohort \in Seq(Socket)
             /\ \A i \in DOMAIN table[id].cohort : table[id].cohort[i] = of(id)
  <2>1. table[id] = [cohort |-> <<of(id)>>, cursor |-> 0] BY <1>2
  <2>2. of(id) \in Socket BY <1>3
  <2> HIDE DEF of
  <2> QED BY <2>1, <2>2
<1>5. TableInv(table) BY <1>4 DEF TableInv
<1> HIDE DEF of, streams
<1>6. \A t \in Members(table) : options[t].type = "stream" BY SMTT(20), <1>3, <1>4, MembersUnfolds
<1>7. BindingsDistinct BY <1>6, DistinctUnfolds DEF Live
<1>8. PortInv
  <2>1. ASSUME NEW s \in Socket, options[s].type = "dgram" PROVE socks[s].lport = 0
    <3>1. plan.at[s].lport = 0 BY SMTT(20), <1>1, <2>1, PlansAreCalls
    <3>2. socks[s].lport = plan.at[s].lport BY <1>1, <2>1 DEF Fresh
    <3> QED BY <3>1, <3>2
  <2> QED BY SMTT(20), <1>6, <2>1, RegisteredAreMembers DEF PortInv
<1> QED BY SMTT(20), <1>5, <1>7, <1>8 DEF BindInv

LEMMA StepKeepsBindings ==
    ASSUME PermitInv, BindInv, [Next]_vars
    PROVE  BindInv'
<1>1. ASSUME UNCHANGED <<options, socks, table>> PROVE BindInv' BY <1>1, AllSame, SameTable
<1>2. CASE UNCHANGED vars BY SMTT(20), <1>1, <1>2 DEF vars
<1>3. ASSUME NEW family \in {4, 6}, Refill(family) PROVE BindInv' BY <1>1, <1>3 DEF Refill
<1>4. ASSUME NEW c \in reading, Resume(c) \/ TimeOut(c) PROVE BindInv'
  <2>1. c.sock \in Socket BY DEF PermitInv, ReadInv
  <2>2. UNCHANGED <<options, table>> BY <1>4 DEF Resume, TimeOut
  <2> QED BY SMTT(20), <1>4, <2>1, <2>2, ReadKeepsBindings
<1> QED BY <1>2, <1>3, <1>4, CallKeepsBindings, ArriveKeepsBindings DEF Next

(* No two open UDP sockets hold overlapping local addresses on one port    *)
(* unless SO_REUSEADDR or SO_REUSEPORT allows it, whatever bind, connect,  *)
(* sendto and close did before, for any set of sockets of both families.   *)
THEOREM BindingsHold == Spec => []BindingsDistinct
<1>1. Init => PermitInv /\ BindInv BY PermitsAtFirst, BindingsAtFirst
<1>2. PermitInv /\ BindInv /\ [Next]_vars => (PermitInv /\ BindInv)' BY StepKeepsPermits, StepKeepsBindings
<1>3. BindInv => BindingsDistinct BY DEF BindInv
<1> QED BY <1>1, <1>2, <1>3, PTL DEF Spec

=============================================================================
