---------------------------- MODULE Dhcp4Client ----------------------------
(* The DHCPv4 client (protocols/dhcp4/dhcp4__client.py), the address-conflict
   detector it drives (protocols/ip4/acd/ip4_acd.py) and its lease cache
   (protocols/dhcp4/dhcp4__lease_cache.py).

   The client is one asyncio task.  pc says where it stands: "run" while it
   holds the event loop, the name of an await while it is suspended there,
   "off" when it has ended.  An action runs from one await to the next, so a
   stop, a crash or another task comes in only where the code suspends.

   Time is counted in Span phases of a lease.  acquired_at is kept as the age
   of the lease; the server's own view is grant[a], the age of its binding of
   address a.  A message exchange and an ARP probe are short against a phase. *)
EXTENDS HostTables

CONSTANTS Grants,           \* what an ACK may carry: the set of leases
          Span,             \* phases in a lease
          T1Default,        \* lease_time * DHCP4__T1_FACTOR
          T2Default,        \* lease_time * DHCP4__T2_FACTOR
          NakMaxRestarts,   \* DHCP4__NAK_MAX_RESTARTS
          Plans             \* bounds of a behaviour: process starts, exchanges that
                            \* reach a server, replies in flight, what the server
                            \* may grant, whether a neighbour may take the
                            \* addresses, whether link-local runs and whether
                            \* its dhcp_fallback_timeout_ms is set

Addr == {g.addr : g \in Grants}

(* The T1 and T2 options of an ACK: one that reaches past the lease is
   dropped, and both are dropped when T1 does not precede T2. *)
ExtractOverrides(o) ==
    LET t1 == IF o[1] # None /\ o[1] >= Span THEN None ELSE o[1]
        t2 == IF o[2] # None /\ o[2] >= Span THEN None ELSE o[2]
    IN  IF t1 # None /\ t2 # None /\ t1 >= t2 THEN <<None, None>> ELSE <<t1, t2>>

(* Dhcp4Lease: what a grant says, whether the gateway's hardware address is
   known, and the two overrides. *)
Lease == [addr : Addr, gateway : {g.gateway : g \in Grants},
          classless : {g.classless : g \in Grants}, mac : BOOLEAN,
          timers : {ExtractOverrides(o) : o \in {<<None, None>>} \cup
                                               UNION {p.timers : p \in Plans}}]

(* None is the absence of an address, of a lease and of a time; a plan's
   server grants what it may grant. *)
ASSUME ClientConstants ==
    /\ Span \in Nat \ {0}
    /\ None \notin Nat /\ None # "any" /\ None \notin Addr /\ "any" \notin Addr
    /\ None \notin Lease
    /\ \A p \in Plans : p.leases \subseteq Grants /\ p.xids \in Nat

VARIABLES
    state,       \* _state
    pc,          \* where the task is suspended
    lease,       \* _lease
    cand,        \* the lease an exchange in progress is about to yield
    age,         \* phases since lease.acquired_at_monotonic
    restarts,    \* iterations used up in _do_init_to_bound
    event_bound, \* _event__bound
    xid,         \* the transaction id of the latest exchange
    cache,       \* the lease-cache file: None or [lease, wall]
    ip4_ifaddr,  \* the interface's addresses
    fib,         \* the IPv4 routing table
    acd,         \* Ip4Acd: [sock, claimed, open]
    heard,       \* conflicting ARP frames queued on the defence socket
    peers,       \* addresses a neighbour uses
    asked,       \* the server's inbox: what each transaction asked for
    net,         \* replies in flight; one may arrive late, and more than once
    grant,       \* age of the server's binding of each address, or None
    confirmed,   \* no unconfirmed lease has been taken from the cache
    boots,       \* process starts so far
    plan         \* the bounds of this behaviour

client == <<state, pc, lease, cand, age, restarts, event_bound, xid, acd>>
host   == <<ip4_ifaddr, fib>>
wire   == <<asked, net, grant>>
dvars  == <<client, host, wire, cache, heard, peers, confirmed, boots, plan>>

States == {"INIT", "INIT_REBOOT", "BOUND", "RENEWING", "REBINDING"}
Awaits == {"offer", "collect", "request", "probe", "backoff", "announce",
           "dnav4", "reboot", "wait", "exchange", "decline", "swap"}

-----------------------------------------------------------------------------
(* Ip4Acd.  open counts the ARP sockets the detector has open, sock tells
   whether one of them is held for defence.  *)
NoAcd == [sock |-> FALSE, claimed |-> None, open |-> 0]

AcdOpen(d) == [d EXCEPT !.open = @ + 1]

(* The end of start_defense or claim: the socket is kept.  One held before
   is overwritten without being closed. *)
AcdHold(d, a) == [d EXCEPT !.sock = TRUE, !.claimed = a]

AcdRelease(d) == [sock |-> FALSE, claimed |-> None,
                  open |-> IF d.sock THEN d.open - 1 ELSE d.open]

(* A probe sees a conflict only where a neighbour uses the address; its
   answer may be lost. *)
ProbeOutcomes(a) == IF a \in peers THEN BOOLEAN ELSE {TRUE}

-----------------------------------------------------------------------------
(* The lease's routes.  Option 121, when present, replaces the router
   option; its default entry becomes the default route and an on-link entry
   (no router) is not installed. *)
InstallLeaseRoutes(f, l) ==
    LET Put(g, r) == IF r[2] = None THEN g
                     ELSE IF r[1] = Default THEN ReplaceDefault(g, r[2])
                     ELSE AddRoute(g, Route(r[1], r[2]))
        with[i \in 0..Len(l.classless)] ==
            IF i = 0 THEN f ELSE Put(with[i - 1], l.classless[i])
    IN  IF l.classless # None THEN with[Len(l.classless)]
        ELSE IF l.gateway # None THEN ReplaceDefault(f, l.gateway)
        ELSE f

RemoveLeaseRoutes(f, l) ==
    LET Drop(g, r) == IF r[2] = None \/ r[1] = Default THEN g
                      ELSE RemoveRoute(g, r[1], r[2])
        without[i \in 0..Len(l.classless)] ==
            IF i = 0 THEN f ELSE Drop(without[i - 1], l.classless[i])
    IN  IF l.classless = None THEN f ELSE without[Len(l.classless)]

T1(l) == IF l.timers[1] # None THEN l.timers[1] ELSE T1Default
T2(l) == IF l.timers[2] # None THEN l.timers[2] ELSE T2Default

(* The lease an ACK yields.  The gateway's hardware address is unknown. *)
LeaseOf(m) == [addr |-> m.lease.addr, gateway |-> m.lease.gateway,
               classless |-> m.lease.classless, mac |-> FALSE,
               timers |-> ExtractOverrides(m.timers)]

-----------------------------------------------------------------------------
(* The lease cache.  The record is stamped with the time of the write, and a
   reader takes the stamp for the time the lease was acquired. *)
WriteCachedLease(l) ==
    \E known \in IF l.gateway = None THEN {FALSE} ELSE {l.mac, TRUE} :
        cache' = [lease |-> [l EXCEPT !.mac = known], wall |-> 0]

Readable == cache # None /\ cache.wall < Span

-----------------------------------------------------------------------------
(* The construction of the client in a new process: INIT_REBOOT when the
   cache yields a lease that is not over, INIT otherwise. *)
DInit ==
    /\ plan \in Plans
    /\ state = "INIT" /\ lease = None /\ age = 0
    /\ pc = "run" /\ cand = None /\ restarts = 0 /\ event_bound = FALSE
    /\ ip4_ifaddr = << >> /\ fib = << >>
    /\ acd = NoAcd /\ heard = 0
    /\ xid = 0
    /\ cache = None
    /\ peers = {}
    /\ asked = [x \in 1..plan.xids |-> None]
    /\ net = {}
    /\ grant = [a \in Addr |-> None]
    /\ confirmed = TRUE
    /\ boots = 1

(* The process ends, by a crash or a shutdown, and is started again. *)
Reboot ==
    /\ boots < plan.boots
    /\ pc # "run"
    /\ boots' = boots + 1
    /\ state' = IF Readable THEN "INIT_REBOOT" ELSE "INIT"
    /\ lease' = IF Readable THEN cache.lease ELSE None
    /\ age' = IF Readable THEN cache.wall ELSE 0
    /\ pc' = "run" /\ cand' = None /\ restarts' = 0 /\ event_bound' = FALSE
    /\ ip4_ifaddr' = << >> /\ fib' = << >>
    /\ acd' = NoAcd /\ heard' = 0
    /\ UNCHANGED <<xid, cache, peers, wire, confirmed, plan>>

-----------------------------------------------------------------------------
(* Requests.  Every exchange draws a fresh transaction id; DISCOVER and its
   REQUEST share one.  Exchanges past the plan's bound reach no server. *)
NewExchange(what) ==
    /\ xid' = IF xid > plan.xids THEN xid ELSE xid + 1
    /\ asked' = IF xid < plan.xids THEN [asked EXCEPT ![xid + 1] = what] ELSE asked
    /\ UNCHANGED <<net, grant>>

(* Mutant: the transaction id is not compared. *)
ExpectedAnyXid(m, types) == m.type \in types

(* _recv_within_window: the reply types awaited, and this transaction. *)
Expected(m, types) == m.type \in types /\ m.xid = xid

(* The task ends with the state as it is: the stop event was set after a
   failed acquisition, or the exception handler set it. *)
TaskEnds == pc' = "off"

-----------------------------------------------------------------------------
(* INIT: one pass of _do_init_to_bound. *)
Discover ==
    /\ pc = "run" /\ state = "INIT"
    /\ NewExchange("any")
    /\ pc' = "offer"
    /\ UNCHANGED <<state, lease, cand, age, restarts, event_bound, acd, host,
                   cache, heard, peers, confirmed, boots, plan>>

OfferIn(m) ==
    /\ pc = "offer" /\ Expected(m, {"OFFER"})
    /\ IF m.complete THEN pc' = "collect" /\ cand' = LeaseOf(m)
                     ELSE TaskEnds /\ UNCHANGED cand
    /\ UNCHANGED <<state, lease, age, restarts, event_bound, xid, acd, host, wire,
                   cache, heard, peers, confirmed, boots, plan>>

(* The offer-collection window closes; the first offer is the one taken. *)
RequestOut ==
    /\ pc = "collect"
    /\ asked' = [x \in 1..plan.xids |-> IF x = xid THEN cand.addr ELSE asked[x]]
    /\ pc' = "request"
    /\ UNCHANGED <<state, lease, cand, age, restarts, event_bound, xid, acd, host,
                   net, grant, cache, heard, peers, confirmed, boots, plan>>

AckIn(m) ==
    /\ pc = "request" /\ Expected(m, {"ACK"})
    /\ IF m.complete THEN pc' = "probe" /\ cand' = LeaseOf(m) /\ acd' = AcdOpen(acd)
                     ELSE TaskEnds /\ UNCHANGED <<cand, acd>>
    /\ UNCHANGED <<state, lease, age, restarts, event_bound, xid, host, wire,
                   cache, heard, peers, confirmed, boots, plan>>

(* DISCOVER again with a new transaction, or give up. *)
StartOver ==
    /\ cand' = None
    /\ IF restarts < NakMaxRestarts
       THEN restarts' = restarts + 1 /\ pc' = "run"
       ELSE restarts' = restarts /\ TaskEnds

NakIn(m) ==
    /\ pc = "request" /\ Expected(m, {"NAK"})
    /\ StartOver
    /\ UNCHANGED <<state, lease, age, event_bound, xid, acd, host, wire,
                   cache, heard, peers, confirmed, boots, plan>>

(* The retransmission budget is spent without an answer. *)
NoAnswer ==
    /\ pc \in {"offer", "request"}
    /\ TaskEnds
    /\ cand' = None
    /\ UNCHANGED <<state, lease, age, restarts, event_bound, xid, acd, host, wire,
                   cache, heard, peers, confirmed, boots, plan>>

(* _on_bound up to its await: routes of the lease held before go, address
   and routes are installed, the defence socket is opened and announces. *)
OnBound(l, d) ==
    /\ lease' = l
    /\ ip4_ifaddr' = AddAddress(ip4_ifaddr, l.addr)
    /\ fib' = InstallLeaseRoutes(IF lease = None THEN fib
                                 ELSE RemoveLeaseRoutes(fib, lease), l)
    /\ acd' = AcdOpen(d)
    /\ pc' = "announce"
    /\ heard' = 0

(* The probe's own socket is closed either way. *)
Probed ==
    /\ pc = "probe"
    /\ LET d == [acd EXCEPT !.open = @ - 1]
       IN  \E free \in ProbeOutcomes(cand.addr) :
              IF free
              THEN /\ OnBound(cand, d)
                   /\ age' = 0 /\ cand' = None
                   /\ UNCHANGED grant
              ELSE /\ pc' = "backoff" /\ acd' = d       \* DHCPDECLINE
                   /\ grant' = [grant EXCEPT ![cand.addr] = None]
                   /\ UNCHANGED <<lease, age, cand, host, heard>>
    /\ UNCHANGED <<state, restarts, event_bound, xid, asked, net,
                   cache, peers, confirmed, boots, plan>>

BackoffEnds ==
    /\ pc = "backoff"
    /\ StartOver
    /\ UNCHANGED <<state, lease, age, event_bound, xid, acd, host, wire,
                   cache, heard, peers, confirmed, boots, plan>>

(* The end of _on_bound. *)
Announced ==
    /\ pc = "announce"
    /\ acd' = AcdHold(acd, lease.addr)
    /\ WriteCachedLease(lease)
    /\ state' = "BOUND" /\ event_bound' = TRUE
    /\ restarts' = 0
    /\ pc' = "run"
    /\ UNCHANGED <<lease, cand, age, xid, host, wire, heard, peers, confirmed, boots, plan>>

-----------------------------------------------------------------------------
(* Mutant: the address outlives the lease. *)
ResetKeepsAddress ==
    /\ UNCHANGED ip4_ifaddr
    /\ fib' = IF lease = None THEN fib
              ELSE RemoveLeaseRoutes(RemoveDefault(fib), lease)
    /\ cache' = None
    /\ acd' = AcdRelease(acd)
    /\ heard' = 0
    /\ lease' = None /\ age' = 0
    /\ state' = "INIT" /\ event_bound' = FALSE
    /\ pc' = "run"

(* _reset_to_init(remove_lease_host=True). *)
ResetToInit ==
    /\ ip4_ifaddr' = IF lease = None THEN ip4_ifaddr
                     ELSE RemoveAddress(ip4_ifaddr, lease.addr)
    /\ fib' = IF lease = None THEN fib
              ELSE RemoveLeaseRoutes(RemoveDefault(fib), lease)
    /\ cache' = None
    /\ acd' = AcdRelease(acd)
    /\ heard' = 0
    /\ lease' = None /\ age' = 0
    /\ state' = "INIT" /\ event_bound' = FALSE
    /\ pc' = "run"

(* INIT_REBOOT.  With the gateway's hardware address in the cache the client
   first asks the gateway by ARP (DNAv4), otherwise it asks the server. *)
RebootStarts ==
    /\ pc = "run" /\ state = "INIT_REBOOT"
    /\ IF lease.gateway # None /\ lease.mac
       THEN pc' = "dnav4" /\ acd' = AcdOpen(acd) /\ UNCHANGED <<xid, wire>>
       ELSE pc' = "reboot" /\ NewExchange(lease.addr) /\ UNCHANGED acd
    /\ UNCHANGED <<state, lease, cand, age, restarts, event_bound, host,
                   cache, heard, peers, confirmed, boots, plan>>

GatewayAnswers ==
    /\ pc = "dnav4"
    /\ OnBound(lease, [acd EXCEPT !.open = @ - 1])
    /\ confirmed' = FALSE
    /\ UNCHANGED <<state, cand, age, restarts, event_bound, xid, wire, cache,
                   peers, boots, plan>>

GatewaySilent ==
    /\ pc = "dnav4"
    /\ acd' = [acd EXCEPT !.open = @ - 1]
    /\ pc' = "reboot" /\ NewExchange(lease.addr)
    /\ UNCHANGED <<state, lease, cand, age, restarts, event_bound, host,
                   cache, heard, peers, confirmed, boots, plan>>

(* The server's answer to the INIT-REBOOT request. *)
RebootAck(m) ==
    /\ pc = "reboot" /\ Expected(m, {"ACK"}) /\ m.complete
    /\ OnBound(LeaseOf(m), acd)
    /\ age' = 0
    /\ UNCHANGED <<state, cand, restarts, event_bound, xid, wire, cache, peers,
                   confirmed, boots, plan>>

RebootRefused(m) ==
    /\ pc = "reboot" /\ Expected(m, {"ACK", "NAK"}) /\ (m.type = "NAK" \/ ~m.complete)
    /\ ResetToInit
    /\ UNCHANGED <<cand, restarts, xid, wire, peers, confirmed, boots, plan>>

(* A silent server: the cached lease is used for what is left of it. *)
RebootSilent ==
    /\ pc = "reboot"
    /\ OnBound(lease, acd)
    /\ confirmed' = FALSE
    /\ UNCHANGED <<state, cand, age, restarts, event_bound, xid, wire, cache,
                   peers, boots, plan>>

-----------------------------------------------------------------------------
(* BOUND: first the conflict poll, then T1. *)
BoundPass ==
    /\ pc = "run" /\ state = "BOUND"
    /\ IF heard > 0
       THEN pc' = "decline" /\ heard' = heard - 1 /\ UNCHANGED state
       ELSE /\ heard' = heard
            /\ IF age >= T1(lease) THEN state' = "RENEWING" /\ UNCHANGED pc
                                   ELSE pc' = "wait" /\ UNCHANGED state
    /\ UNCHANGED <<lease, cand, age, restarts, event_bound, xid, acd, host, wire,
                   cache, peers, confirmed, boots, plan>>

WaitEnds ==
    /\ pc = "wait" /\ age >= T1(lease)
    /\ pc' = "run"
    /\ UNCHANGED <<state, lease, cand, age, restarts, event_bound, xid, acd, host,
                   wire, cache, heard, peers, confirmed, boots, plan>>

(* The DHCPDECLINE is on its way; the lease is abandoned. *)
Declined ==
    /\ pc = "decline"
    /\ grant' = [grant EXCEPT ![lease.addr] = None]
    /\ ResetToInit
    /\ UNCHANGED <<cand, restarts, xid, asked, net, peers, confirmed, boots, plan>>

-----------------------------------------------------------------------------
(* RENEWING and REBINDING: the deadline of the state, else an exchange. *)
RenewPass ==
    /\ pc = "run" /\ state = "RENEWING"
    /\ IF age >= T2(lease) THEN state' = "REBINDING" /\ UNCHANGED <<pc, xid, wire>>
       ELSE pc' = "exchange" /\ NewExchange(lease.addr) /\ UNCHANGED state
    /\ UNCHANGED <<lease, cand, age, restarts, event_bound, acd, host,
                   cache, heard, peers, confirmed, boots, plan>>

(* Mutant: the expiry of the lease is not looked at. *)
RebindForever ==
    /\ pc = "run" /\ state = "REBINDING"
    /\ pc' = "exchange" /\ NewExchange(lease.addr)
    /\ UNCHANGED <<state, lease, cand, age, restarts, event_bound, acd, host,
                   cache, heard, peers, confirmed, boots, plan>>

RebindPass ==
    /\ pc = "run" /\ state = "REBINDING" /\ age < Span
    /\ pc' = "exchange" /\ NewExchange(lease.addr)
    /\ UNCHANGED <<state, lease, cand, age, restarts, event_bound, acd, host,
                   cache, heard, peers, confirmed, boots, plan>>

LeaseExpires ==
    /\ pc = "run" /\ state = "REBINDING" /\ age >= Span
    /\ ResetToInit
    /\ UNCHANGED <<cand, restarts, xid, wire, peers, confirmed, boots, plan>>

(* _consume_renew_or_rebind_outcome. *)
ExchangeNak(m) ==
    /\ pc = "exchange" /\ Expected(m, {"NAK"})
    /\ ResetToInit
    /\ UNCHANGED <<cand, restarts, xid, wire, peers, confirmed, boots, plan>>

(* Silence, or an ACK without mask or lease time: the next pass looks at the
   deadlines again. *)
ExchangeVoid ==
    /\ pc = "exchange"
    /\ pc' = "run"
    /\ UNCHANGED <<state, lease, cand, age, restarts, event_bound, xid, acd, host,
                   wire, cache, heard, peers, confirmed, boots, plan>>

(* The same address: the lease is extended, routes and address stay. *)
Renewed(m) ==
    /\ pc = "exchange" /\ Expected(m, {"ACK"}) /\ m.complete
    /\ m.lease.addr = lease.addr
    /\ lease' = LeaseOf(m) /\ age' = 0
    /\ state' = "BOUND" /\ pc' = "run"
    /\ WriteCachedLease(LeaseOf(m))
    /\ UNCHANGED <<cand, restarts, event_bound, xid, acd, host, wire, heard, peers,
                   confirmed, boots, plan>>

(* Mutant: the old address's defence socket is not released. *)
SwapKeepsSocket(m) ==
    /\ pc = "exchange" /\ Expected(m, {"ACK"}) /\ m.complete
    /\ m.lease.addr # lease.addr
    /\ ip4_ifaddr' = ReplaceAddress(ip4_ifaddr, lease.addr, m.lease.addr)
    /\ acd' = AcdOpen(acd)
    /\ heard' = 0
    /\ cand' = LeaseOf(m)
    /\ pc' = "swap"
    /\ UNCHANGED <<state, lease, age, restarts, event_bound, xid, fib, wire, cache,
                   peers, confirmed, boots, plan>>

(* Another address: it replaces the old one and the defence moves over. *)
SwapStarts(m) ==
    /\ pc = "exchange" /\ Expected(m, {"ACK"}) /\ m.complete
    /\ m.lease.addr # lease.addr
    /\ ip4_ifaddr' = ReplaceAddress(ip4_ifaddr, lease.addr, m.lease.addr)
    /\ acd' = AcdOpen(AcdRelease(acd))
    /\ heard' = 0
    /\ cand' = LeaseOf(m)
    /\ pc' = "swap"
    /\ UNCHANGED <<state, lease, age, restarts, event_bound, xid, fib, wire, cache,
                   peers, confirmed, boots, plan>>

SwapEnds ==
    /\ pc = "swap"
    /\ acd' = AcdHold(acd, cand.addr)
    /\ lease' = cand /\ cand' = None /\ age' = 0
    /\ state' = "BOUND" /\ pc' = "run"
    /\ UNCHANGED <<restarts, event_bound, xid, host, wire, cache, heard, peers,
                   confirmed, boots, plan>>

-----------------------------------------------------------------------------
(* stop() while the task is suspended: the task is cancelled where it stands
   (try/finally closes the probe's socket, nothing closes the one that
   start_defense has not handed over yet) and _stop cleans up, but only in
   state BOUND. *)
Stop ==
    /\ pc \in Awaits
    /\ pc' = "off" /\ cand' = None
    /\ LET d == IF pc \in {"probe", "dnav4"} THEN [acd EXCEPT !.open = @ - 1] ELSE acd
       IN  IF state = "BOUND"
           THEN /\ ip4_ifaddr' = RemoveAddress(ip4_ifaddr, lease.addr)
                /\ fib' = RemoveDefault(fib)
                /\ acd' = AcdRelease(d) /\ heard' = 0
                /\ grant' = [grant EXCEPT ![lease.addr] = None]    \* DHCPRELEASE
           ELSE acd' = d /\ UNCHANGED <<host, heard, grant>>
    /\ UNCHANGED <<state, lease, age, restarts, event_bound, xid, asked, net, cache,
                   peers, confirmed, boots, plan>>

(* An exception out of an await, such as the ICMP error a recv of the
   connected UDP socket raises: the handler of _subsystem_loop ends the task
   and leaves everything else as it is. *)
Fails ==
    /\ pc \in {"offer", "collect", "request", "probe", "announce", "reboot",
              "exchange", "swap"}
    /\ TaskEnds
    /\ cand' = None
    /\ acd' = IF pc = "probe" THEN [acd EXCEPT !.open = @ - 1] ELSE acd
    /\ UNCHANGED <<state, lease, age, restarts, event_bound, xid, host, wire, cache,
                   heard, peers, confirmed, boots, plan>>

-----------------------------------------------------------------------------
(* The environment: servers answer whatever reached them, at any time and
   any number of times; neighbours take addresses and speak ARP. *)
Replies == [type : {"OFFER"}, xid : 1..plan.xids, lease : plan.leases,
            timers : {<<None, None>>}, complete : {TRUE}]
           \cup [type : {"ACK"}, xid : 1..plan.xids, lease : plan.leases,
                 timers : plan.timers, complete : {TRUE}]
           \cup [type : {"OFFER", "ACK"}, xid : 1..plan.xids, complete : {FALSE}]
           \cup [type : {"NAK"}, xid : 1..plan.xids, complete : {TRUE}]

ServerReplies(m) ==
    /\ Cardinality(net) < plan.flight
    /\ m \notin net
    /\ \/ m.type = "OFFER" /\ asked[m.xid] = "any"
       \/ m.type \in {"ACK", "NAK"} /\ asked[m.xid] \in Addr
    /\ net' = net \cup {m}
    /\ grant' = IF m.type = "ACK" /\ m.complete
                THEN [grant EXCEPT ![m.lease.addr] = 0] ELSE grant
    /\ UNCHANGED <<client, host, asked, cache, heard, peers, confirmed, boots, plan>>

(* A reply is lost, or the client's socket discards it: wrong type, another
   transaction, malformed. *)
ReplyDropped ==
    /\ \E m \in net : net' = net \ {m}
    /\ UNCHANGED <<client, host, asked, grant, cache, heard, peers, confirmed, boots, plan>>

(* An acquisition and a renewal are short against a phase of the lease. *)
Prompt ==
    /\ pc \notin {"probe", "announce", "swap", "decline"}
    /\ ~ \E m \in net : Expected(m, {"ACK"}) /\ pc \in {"request", "reboot", "exchange"}

Older(n) == IF n = None \/ n = Span THEN n ELSE n + 1

TimePasses ==
    /\ Prompt
    /\ age' = IF lease = None THEN age ELSE Older(age)
    /\ grant' = [a \in Addr |-> Older(grant[a])]
    /\ cache' = IF cache = None THEN None ELSE [cache EXCEPT !.wall = Older(@)]
    /\ <<age, grant, cache>>' # <<age, grant, cache>>
    /\ UNCHANGED <<state, pc, lease, cand, restarts, event_bound, xid, acd, host,
                   asked, net, heard, peers, confirmed, boots, plan>>

PeerArrives(a) ==
    /\ plan.conflicts /\ pc # "run"
    /\ a \notin peers
    /\ peers' = peers \cup {a}
    /\ UNCHANGED <<client, host, wire, cache, heard, confirmed, boots, plan>>

(* A frame of the neighbour reaches the socket that watches the address. *)
Watched == IF pc = "announce" THEN lease.addr
           ELSE IF pc = "swap" THEN cand.addr
           ELSE acd.claimed

PeerSpeaks ==
    /\ pc # "run" /\ Watched \in peers /\ heard = 0
    /\ heard' = 1
    /\ UNCHANGED <<client, host, wire, cache, peers, confirmed, boots, plan>>

-----------------------------------------------------------------------------
DStep ==
    \/ Discover \/ RequestOut \/ NoAnswer \/ Probed \/ BackoffEnds \/ Announced
    \/ RebootStarts \/ GatewayAnswers \/ GatewaySilent \/ RebootSilent
    \/ BoundPass \/ WaitEnds \/ Declined \/ RenewPass \/ RebindPass \/ LeaseExpires
    \/ ExchangeVoid \/ SwapEnds \/ Fails
    \/ \E m \in net : \/ OfferIn(m) \/ AckIn(m) \/ NakIn(m) \/ RebootAck(m)
                      \/ RebootRefused(m) \/ ExchangeNak(m) \/ Renewed(m)
                      \/ SwapStarts(m)

(* Nothing is left to happen to a client that has ended for good. *)
Live == pc # "off" \/ boots < plan.boots

Environment ==
    /\ Live
    /\ \/ \E m \in Replies : ServerReplies(m)
       \/ ReplyDropped
       \/ TimePasses
       \/ \E a \in Addr : PeerArrives(a)
       \/ PeerSpeaks
=============================================================================
