--------------------------- MODULE Ip4Addressing ---------------------------
(* One interface's IPv4 addressing: the DHCPv4 client and the link-local
   autoconfiguration (protocols/ip4/link_local/link_local__client.py) on the
   one event loop, sharing the interface's address list, as stack/lifecycle.py
   wires them.  Each owns an Ip4Acd. *)
EXTENDS Dhcp4Client

CONSTANTS LLCandidate,      \* candidate_from_mac by attempt: a sequence
          MaxConflicts      \* IP4_LINK_LOCAL__MAX_CONFLICTS

(* Every attempt has a candidate, out of 169.254/16, which no server leases. *)
ASSUME LinkLocalConstants ==
    /\ MaxConflicts \in Nat \ {0, 1}
    /\ \A i \in 1..MaxConflicts : LLCandidate[i] \notin Addr \cup {None}

VARIABLES
    ll_state,    \* _state
    ll_pc,       \* where the task is suspended, "off" when not configured
    candidate,   \* _candidate
    conflicts,   \* _conflict_count
    defended,    \* an entry of _defend_history within ARP__DEFEND_INTERVAL
    unbound_for, \* None, "short" or "long": time since _dhcp_unbound_since
    ll_acd,      \* its Ip4Acd
    ll_heard     \* conflicting frames queued on its socket

llvars == <<ll_state, ll_pc, candidate, conflicts, defended, unbound_for,
            ll_acd, ll_heard>>
vars == <<dvars, llvars>>

LLInit ==
    /\ ll_state = IF plan.fallback THEN "HALTED" ELSE "INIT"
    /\ ll_pc = IF plan.linklocal THEN "run" ELSE "off"
    /\ candidate = None /\ conflicts = 0 /\ defended = FALSE /\ unbound_for = None
    /\ ll_acd = NoAcd /\ ll_heard = 0

Init == DInit /\ LLInit

(* A task runs until it suspends.  The two tasks start in the order of
   stack.start(): link-local first. *)
LLHolds == ll_pc = "run"
LoopFree == ~LLHolds /\ pc # "run"

-----------------------------------------------------------------------------
(* _reconcile_with_dhcp, the first thing of every pass. *)
DhcpBound == state = "BOUND"

Reconciled ==
    IF ~plan.fallback THEN ll_state
    ELSE IF DhcpBound THEN "HALTED"
    ELSE IF ll_state = "HALTED" /\ unbound_for = "long" THEN "INIT"
    ELSE ll_state

(* _release_bound_address, when reconciliation finds DHCP bound. *)
Yield ==
    /\ ll_state = "BOUND" /\ Reconciled = "HALTED"
    /\ ll_acd' = AcdRelease(ll_acd) /\ ll_heard' = 0
    /\ ip4_ifaddr' = RemoveAddress(ip4_ifaddr, candidate)
    /\ candidate' = None /\ defended' = FALSE /\ conflicts' = 0

UnboundFor ==
    unbound_for' = IF ~plan.fallback \/ DhcpBound \/ Reconciled # ll_state THEN None
                   ELSE IF unbound_for = None THEN "short" ELSE unbound_for

(* A pass in INIT draws the candidate and runs on into CLAIMING, which
   suspends in Ip4Acd.claim. *)
LLClaim ==
    /\ LLHolds
    /\ Reconciled \in {"INIT", "CLAIMING"}
    /\ UnboundFor
    /\ ll_state' = "CLAIMING"
    /\ candidate' = IF Reconciled = "INIT" THEN LLCandidate[conflicts + 1] ELSE candidate
    /\ ll_acd' = AcdOpen(ll_acd)
    /\ ll_heard' = 0
    /\ ll_pc' = "claim"
    /\ UNCHANGED <<dvars, conflicts, defended>>

(* A pass in HALTED, or one that reconciliation halts: the task does not
   suspend. *)
LLHalted ==
    /\ LLHolds
    /\ Reconciled = "HALTED"
    /\ UnboundFor
    /\ ll_state' = "HALTED"
    /\ \/ Yield
       \/ ll_state # "BOUND"
          /\ UNCHANGED <<ll_acd, ll_heard, ip4_ifaddr, candidate, defended, conflicts>>
    /\ UNCHANGED <<client, fib, wire, cache, heard, peers, confirmed, boots, plan, ll_pc>>

(* claim: probe, then announce.  Only a claim that succeeds keeps its
   socket.  The address goes onto the interface whatever DHCP did
   meanwhile. *)
LLClaimed ==
    /\ ll_pc = "claim" /\ pc # "run"
    /\ TRUE \in ProbeOutcomes(candidate)
    /\ ll_acd' = AcdHold(ll_acd, candidate)
    /\ ip4_ifaddr' = AddAddress(ip4_ifaddr, candidate)
    /\ conflicts' = 0 /\ defended' = FALSE
    /\ ll_state' = "BOUND" /\ ll_pc' = "run"
    /\ UNCHANGED <<client, fib, wire, cache, heard, peers, confirmed, boots, plan,
                   candidate, unbound_for, ll_heard>>

(* _on_claim_conflict: the next candidate, after a long sleep when there
   were too many. *)
LLConflict ==
    /\ ll_pc = "claim" /\ pc # "run"
    /\ FALSE \in ProbeOutcomes(candidate)
    /\ ll_acd' = [ll_acd EXCEPT !.open = @ - 1]
    /\ candidate' = None
    /\ conflicts' = conflicts + 1
    /\ IF conflicts' >= MaxConflicts THEN ll_pc' = "limit" /\ UNCHANGED ll_state
                                     ELSE ll_pc' = "run" /\ ll_state' = "INIT"
    /\ UNCHANGED <<dvars, defended, unbound_for, ll_heard>>

LLLimitEnds ==
    /\ ll_pc = "limit" /\ pc # "run"
    /\ conflicts' = 0
    /\ ll_state' = "INIT" /\ ll_pc' = "run"
    /\ UNCHANGED <<dvars, candidate, defended, unbound_for, ll_acd, ll_heard>>

(* A pass in BOUND polls a non-blocking socket: without a conflict the task
   goes round again at once. *)
LLBound ==
    /\ LLHolds /\ Reconciled = "BOUND"
    /\ UnboundFor
    /\ UNCHANGED <<client, fib, wire, cache, heard, peers, confirmed, boots, plan, ll_pc>>
    /\ \/ /\ ll_heard = 0
          /\ UNCHANGED <<ip4_ifaddr, ll_state, candidate, conflicts, defended, ll_acd,
                         ll_heard>>
       \/ /\ ll_heard > 0 /\ ~defended          \* defend once: a gratuitous reply
          /\ defended' = TRUE /\ ll_heard' = ll_heard - 1
          /\ UNCHANGED <<ip4_ifaddr, ll_state, candidate, conflicts, ll_acd>>
       \/ /\ ll_heard > 0 /\ defended           \* again within the window: abandon
          /\ ip4_ifaddr' = RemoveAddress(ip4_ifaddr, candidate)
          /\ ll_acd' = AcdRelease(ll_acd) /\ ll_heard' = 0
          /\ candidate' = None /\ defended' = FALSE
          /\ conflicts' = conflicts + 1
          /\ ll_state' = "INIT"

(* stop() of the subsystem: cancelled where it stands, no clean-up hook. *)
LLStop ==
    /\ ll_pc \in {"claim", "limit"} /\ pc # "run"
    /\ ll_pc' = "off"
    /\ UNCHANGED <<dvars, ll_state, candidate, conflicts, defended, unbound_for,
                   ll_acd, ll_heard>>

(* Frames reach the socket while the loop is free; the two timers run
   always. *)
LLPeerSpeaks ==
    /\ LoopFree /\ ll_pc = "claim" /\ candidate \in peers /\ ll_heard < 2
    /\ ll_heard' = ll_heard + 1
    /\ UNCHANGED <<dvars, ll_state, ll_pc, candidate, conflicts, defended,
                   unbound_for, ll_acd>>

LLTime ==
    /\ ll_pc # "off"
    /\ \/ unbound_for = "short" /\ unbound_for' = "long" /\ UNCHANGED defended
       \/ defended /\ defended' = FALSE /\ UNCHANGED unbound_for
    /\ UNCHANGED <<dvars, ll_state, ll_pc, candidate, conflicts, ll_acd, ll_heard>>

-----------------------------------------------------------------------------
LLStep == LLClaim \/ LLHalted \/ LLClaimed \/ LLConflict \/ LLLimitEnds \/ LLBound

(* The client's own steps need the loop; a stop reaches both tasks. *)
ClientStep == ~LLHolds /\ DStep /\ UNCHANGED llvars
LLPeer == LoopFree /\ ll_pc # "off" /\ candidate # None
          /\ peers' = peers \cup {candidate} /\ candidate \notin peers
          /\ UNCHANGED <<client, host, wire, cache, heard, confirmed, boots, plan, llvars>>
World == \/ LoopFree /\ Environment /\ UNCHANGED llvars
         \/ TimePasses /\ UNCHANGED llvars
         \/ LLPeer \/ LLPeerSpeaks \/ LLTime
Shutdown == LoopFree /\ Stop /\ UNCHANGED llvars
Restart ==
    /\ LoopFree /\ Reboot
    /\ ll_state' = IF plan.fallback THEN "HALTED" ELSE "INIT"
    /\ ll_pc' = IF ll_pc = "off" THEN "off" ELSE "run"
    /\ candidate' = None /\ conflicts' = 0 /\ defended' = FALSE /\ unbound_for' = None
    /\ ll_acd' = NoAcd /\ ll_heard' = 0

Next == ClientStep \/ LLStep \/ LLStop \/ World \/ Shutdown \/ Restart

(* Fairness.  Every await of the client is bounded by a timer, the event loop
   runs a task that is ready, and the clock advances. *)
Spec == Init /\ [][Next]_vars
             /\ WF_vars(ClientStep) /\ WF_vars(LLStep)
             /\ WF_vars(TimePasses /\ UNCHANGED llvars) /\ WF_vars(LLTime)

-----------------------------------------------------------------------------
Alive == pc # "off"
Leased == state \in {"BOUND", "RENEWING", "REBINDING"} \/ pc = "announce"

(* The interface carries exactly the addresses its two owners stand for:
   while the client runs, the leased address once and no other leased one (the
   new one from the moment a renewal moves it), and the link-local address
   exactly while link-local is BOUND. *)
AddressFollowsLease ==
    LET leased == IF pc = "swap" THEN <<cand.addr>>
                  ELSE IF Leased THEN <<lease.addr>> ELSE << >>
        local == IF ll_state = "BOUND" THEN <<candidate>> ELSE << >>
    IN  Alive => ip4_ifaddr \in {leased \o local, local \o leased}

(* No ARP socket is lost while the owners run: each detector has open the
   socket it holds and the one of the probe or announcement in progress, and
   a bound owner defends the very address it uses. *)
SocketsAccounted ==
    /\ Alive => /\ acd.open = (IF acd.sock THEN 1 ELSE 0)
                             + (IF pc \in {"probe", "dnav4", "announce", "swap"} THEN 1 ELSE 0)
                /\ state = "BOUND" => acd.sock /\ acd.claimed = lease.addr
    /\ ll_pc # "off" => /\ ll_acd.open = IF ll_pc = "claim" \/ ll_state = "BOUND" THEN 1 ELSE 0
                        /\ ll_state = "BOUND" => ll_acd.claimed = candidate

(* The address the client uses is one the server still grants it: as long as
   the client's own count of the lease has not run out, neither has the
   server's, unless the lease was taken over from the cache unconfirmed. *)
GrantOutlivesLease ==
    Alive /\ confirmed /\ Leased /\ age < Span => grant[lease.addr] \in 0..Span - 1

(* A lease that runs out is renewed or its address leaves the interface, as
   long as the client's task is there to see to it. *)
ExpiryIsActedOn ==
    [](Leased /\ age = Span /\ ll_pc = "off" => <>(~Leased \/ age < Span \/ ~Alive))

=============================================================================
