---------------------------- MODULE TcpConnection ----------------------------
(***************************************************************************)
(* Two hosts running the session code of TcpSession over a network that    *)
(* loses, duplicates, delays and reorders segments, with an application on *)
(* each host that connects or accepts, writes, reads and closes.  Each     *)
(* action is one callback of the host's event loop: the arrival of one     *)
(* segment, one run of the session's timer service, one socket call, or    *)
(* the resumption of a call that was waiting on an event.                  *)
(***************************************************************************)
EXTENDS TcpSession

CONSTANTS
    Endpoint,      \* the two hosts
    Cwnd,          \* the congestion windows an acknowledgement may lead to
    Plans          \* what a behaviour may contain, see Plan

\* The hosts that connect (the others listen), the initial sequence numbers
\* each host may draw, how many bytes each application writes at most, the
\* applications that may close, abort, shut down writing or stop reading, how
\* often the network loses, duplicates or answers with an ICMP error, and how
\* often timers run out while segments are still on their way.
Plan ==
    [client : SUBSET Endpoint, iss : [Endpoint -> SUBSET Seq32], writes : [Endpoint -> 0..Half - 1],
     close : SUBSET Endpoint, abort : SUBSET Endpoint, shut_wr : SUBSET Endpoint,
     not_read : SUBSET Endpoint, loss : 0..3, dup : 0..3, icmp : 0..3, early : 0..3]

ASSUME ConnectionKnobs ==
    /\ Cardinality(Endpoint) = 2
    /\ \A p \in Plans : p \in Plan /\ p.client # {}
    /\ \A c \in Cwnd : c >= Mss /\ c <= InitialWindow  \* so that a restart after idling keeps it

VARIABLES
    sess,     \* each host's session
    net,      \* the segments in flight, each with its destination
    app,      \* each application: its phase, the bytes it wrote, the bytes it read
    plan,     \* the plan of this behaviour
    faults    \* losses, duplications, ICMP errors and early timeouts so far

vars == <<sess, net, app, plan, faults>>

Peer(e) == CHOOSE f \in Endpoint : f # e

\* "calling" waits in connect() or accept(), "open" has a connected socket,
\* "failed" had connect() raise, "closed" has closed its socket.
Phase == {"idle", "calling", "open", "failed", "closed"}

Init ==
    /\ plan \in Plans
    /\ \E iss \in [Endpoint -> UNION {plan.iss[e] : e \in Endpoint}] :
          /\ \A e \in Endpoint : iss[e] \in plan.iss[e]
          /\ sess = [e \in Endpoint |->
                        IF e \in plan.client THEN NewSession(iss[e])
                        ELSE Syscall(NewSession(iss[e]), "LISTEN")]
    /\ net = {}
    /\ app = [e \in Endpoint |-> [phase |-> IF e \in plan.client THEN "idle" ELSE "calling",
                                  wrote |-> 0, got |-> <<>>, ended |-> "no", reading |-> TRUE]]
    /\ faults = [lost |-> 0, duplicated |-> 0, icmp |-> 0, early |-> 0]

\* The handler of host e has left its session as s: what it sent enters the network.
Handled(e, s, inflight) ==
    /\ sess' = [sess EXCEPT ![e] = [s EXCEPT !.out = <<>>]]
    /\ net' = inflight \cup {[to |-> Peer(e), seg |-> s.out[i]] : i \in DOMAIN s.out}

----------------------------------------------------------------------------
(* Segments *)

\* What _phrx_tcp sends for a segment that no socket takes.  It adds up the
\* acknowledgement number without wrapping it; a sum that leaves the sequence
\* space fails the header's assertion, and nothing is sent.
RstFor(p) ==
    LET end == p.seq + Len(p.data) + SynFin(p.flags)
    IN  CASE "RST" \in p.flags -> {}
          [] "RST" \notin p.flags /\ "ACK" \in p.flags ->
                {[flags |-> {"RST"}, seq |-> p.ack, ack |-> 0, data |-> <<>>, win |-> 0]}
          [] p.flags \cap {"RST", "ACK"} = {} ->
                {[flags |-> {"RST", "ACK"}, seq |-> 0, ack |-> n, data |-> <<>>, win |-> 0] :
                    n \in {end} \cap Seq32}

\* A session takes segments once it is registered with a remote address, a
\* listener only a bare SYN; a closed session is unregistered.
Takes(e, p) ==
    \/ sess[e].state \notin {"CLOSED", "LISTEN"}
    \/ sess[e].state = "LISTEN" /\ p.flags = {"SYN"}

\* A listener forks one child here; a later SYN for it stays undelivered.
SecondFork(e, p) == e \notin plan.client /\ sess[e].state = "CLOSED" /\ p.flags = {"SYN"}

Deliver(e, m, keep, env) ==
    LET p == m.seg
        rest == IF keep THEN net ELSE net \ {m}
    IN  /\ m.to = e /\ ~SecondFork(e, p)
        /\ IF Takes(e, p) THEN Handled(e, TcpFsmPacket(sess[e], p, env), rest)
           ELSE /\ net' = rest \cup {[to |-> Peer(e), seg |-> q] : q \in RstFor(p)}
                /\ UNCHANGED sess
        /\ UNCHANGED app

Receipt ==
    \E e \in Endpoint, m \in net, c \in Cwnd : \E i \in plan.iss[e] :
        Deliver(e, m, FALSE, [cwnd |-> c, iss |-> i]) /\ UNCHANGED faults

DuplicateReceipt ==
    /\ faults.duplicated < plan.dup
    /\ \E e \in Endpoint, m \in net, c \in Cwnd : \E i \in plan.iss[e] :
          Deliver(e, m, TRUE, [cwnd |-> c, iss |-> i])
    /\ faults' = [faults EXCEPT !.duplicated = @ + 1]

Lose ==
    /\ faults.lost < plan.loss
    /\ \E m \in net : net' = net \ {m}
    /\ faults' = [faults EXCEPT !.lost = @ + 1]
    /\ UNCHANGED <<sess, app>>

\* The network's answer to a SYN that cannot reach its destination.
IcmpError ==
    /\ faults.icmp < plan.icmp
    /\ \E e \in Endpoint, kind \in {"hard", "soft"}, m \in net :
          /\ m.to = Peer(e) /\ m.seg.flags = {"SYN"} /\ sess[e].state # "CLOSED"
          /\ Handled(e, TcpFsmIcmp(sess[e], kind), net)
    /\ faults' = [faults EXCEPT !.icmp = @ + 1]
    /\ UNCHANGED app

----------------------------------------------------------------------------
(* Timers *)

\* Time passes until the service handle fires: the timers in lapsed have come
\* due since the last event, and some timer the state serves is due.
Tick(e, lapsed) ==
    LET s == [sess[e] EXCEPT !.timers =
                 [n \in TimerName |-> IF n \in lapsed THEN "expired" ELSE @[n]]]
    IN  /\ HasServiceHandle(sess[e])
        /\ \E n \in Serviced(s.state) : s.timers[n] = "expired" \/ (n = "tx_pump" /\ Armed(s, n))
        /\ Handled(e, TcpFsmTimer(s), net)
        /\ UNCHANGED app

\* No pump has anything to do: it idles, a millisecond at a time, while
\* something is unacknowledged.
PumpsIdle == \A e \in Endpoint : Armed(sess[e], "tx_pump") => TcpFsmTimer(sess[e]) = sess[e]

Quiet == net = {} /\ PumpsIdle

Pump == (\E e \in Endpoint : Armed(sess[e], "tx_pump") /\ Tick(e, {})) /\ UNCHANGED faults

\* The timers host e waits for: those its state serves and the rate limit.
Pending(e) ==
    {n \in (Serviced(sess[e].state) \cup {"challenge_ack"}) \ {"tx_pump"} : Armed(sess[e], n)}

\* The order of the timers' lengths: a delayed ACK is 100 ms and a tail probe
\* about as long (25 ms and two round trips), the rate limit and the first
\* window probe 1 s, a retransmission 1 s doubled with every repetition,
\* TIME_WAIT 30 s, FIN_WAIT_2 60 s.
Length(e, n) ==
    CASE n \in {"delayed_ack", "tlp"} -> 0
      [] n \in {"challenge_ack", "persist"} -> 1
      [] n = "retransmit" -> 1 + sess[e].retransmit_count
      [] n \in {"time_wait", "fin_wait_2"} -> MaxRetransmit + 2

FirstDue(e, n) ==
    n \in Pending(e) /\ \A f \in Endpoint : \A o \in Pending(f) : Length(e, n) <= Length(f, o)

\* Segments arrive and pumps run well before any other timer is due, and of
\* the other timers the shortest comes first.
TimeoutOf(e, n) ==
    /\ Quiet /\ n # "challenge_ack" /\ FirstDue(e, n)
    /\ \E others \in SUBSET {o \in TimerName \ {n} : FirstDue(e, o)} : Tick(e, {n} \cup others)
    /\ UNCHANGED faults

\* The rate limit on challenge ACKs ends on its own: no callback waits for it.
RateLimitEnds(e) ==
    /\ Quiet /\ FirstDue(e, "challenge_ack")
    /\ sess' = [sess EXCEPT ![e].timers["challenge_ack"] = "expired"]
    /\ UNCHANGED <<net, app, faults>>

Timeout == \E e \in Endpoint : RateLimitEnds(e) \/ \E n \in TimerName : TimeoutOf(e, n)

\* Any timers at any time: segments slower than the timers, or a timer armed
\* long before the others.
EarlyTimeout ==
    /\ faults.early < plan.early
    /\ \E e \in Endpoint : \E lapsed \in SUBSET Pending(e) : lapsed # {} /\ Tick(e, lapsed)
    /\ faults' = [faults EXCEPT !.early = @ + 1]

----------------------------------------------------------------------------
(* Applications *)

Connect(e) ==
    /\ e \in plan.client /\ app[e].phase = "idle"
    /\ Handled(e, Syscall(sess[e], "CONNECT"), net)
    /\ app' = [app EXCEPT ![e].phase = "calling"]
    /\ UNCHANGED faults

\* The coroutine waiting in connect() resumes some time after the semaphore is
\* released and looks at the session it then finds.
ConnectReturns(e) ==
    LET s == sess[e]
    IN  /\ e \in plan.client /\ app[e].phase = "calling" /\ s.event_connect > 0
        /\ Handled(e, [s EXCEPT !.event_connect = @ - 1], net)
        /\ app' = [app EXCEPT ![e].phase = IF ConnectFails(s) THEN "failed" ELSE "open"]
        /\ UNCHANGED faults

\* accept() skips a child that has died in the queue and waits for another.
AcceptReturns(e) ==
    /\ app[e].phase = "calling" /\ sess[e].accept = "queued"
    /\ Handled(e, [sess[e] EXCEPT !.accept = "accepted"], net)
    /\ app' = [app EXCEPT ![e].phase = IF sess[e].state = "CLOSED" THEN @ ELSE "open"]
    /\ UNCHANGED faults

Write(e) ==
    /\ app[e].phase = "open" /\ app[e].wrote < plan.writes[e] /\ CanSend(sess[e])
    /\ Handled(e, SendData(sess[e], <<app[e].wrote + 1>>), net)
    /\ app' = [app EXCEPT ![e].wrote = @ + 1]
    /\ UNCHANGED faults

MayRead(e) ==
    app[e].phase = "open" /\ app[e].reading /\ app[e].ended = "no" /\ sess[e].event_rx

Read(e) ==
    LET s == sess[e]
        outcome == ReceiveOutcome(s)
    IN  /\ MayRead(e)
        /\ Handled(e, Receive(s), net)
        /\ app' = [app EXCEPT ![e].got = @ \o s.rx_buffer,
                              ![e].ended = IF outcome = "data" THEN @ ELSE outcome]
        /\ UNCHANGED faults

StopReading(e) ==
    /\ e \in plan.not_read /\ app[e].reading
    /\ app' = [app EXCEPT ![e].reading = FALSE]
    /\ UNCHANGED <<sess, net, faults>>

Close(e) ==
    /\ e \in plan.close /\ app[e].phase = "open"
    /\ Handled(e, [Syscall(sess[e], "CLOSE") EXCEPT !.socket_closed = TRUE], net)
    /\ app' = [app EXCEPT ![e].phase = "closed"]
    /\ UNCHANGED faults

ShutWr(e) ==
    /\ e \in plan.shut_wr /\ app[e].phase = "open" /\ ~sess[e].shut_wr
    /\ Handled(e, Shutdown(sess[e], FALSE, TRUE), net)
    /\ UNCHANGED <<app, faults>>

AbortSocket(e) ==
    /\ e \in plan.abort /\ sess[e].state # "CLOSED"
    /\ app[e].phase = "open" \/ (e \in plan.client /\ app[e].phase = "calling")
    /\ Handled(e, [Abort(sess[e]) EXCEPT !.socket_closed = TRUE], net)
    /\ app' = [app EXCEPT ![e].phase = "closed"]
    /\ UNCHANGED faults

Application ==
    \E e \in Endpoint :
        \/ Connect(e) \/ ConnectReturns(e) \/ AcceptReturns(e) \/ Write(e) \/ Read(e)
        \/ StopReading(e) \/ Close(e) \/ ShutWr(e) \/ AbortSocket(e)

Next ==
    /\ Receipt \/ DuplicateReceipt \/ Lose \/ IcmpError \/ Pump \/ Timeout \/ EarlyTimeout \/ Application
    /\ UNCHANGED plan

Spec == Init /\ [][Next]_vars

\* The event loop runs every callback that is due, the network delivers what
\* it does not lose, a timer that stays armed fires, and the applications come
\* back to their pending calls.  Nothing makes an application write, close or
\* give up.  (Each line is weak fairness with the guard spelt out.)
Fairness ==
    /\ ([]<>(net = {}) \/ []<><<Receipt>>_vars)
    /\ ([]<>PumpsIdle \/ []<><<Pump>>_vars)
    /\ \A e \in Endpoint :
          /\ \A n \in TimerName \ {"tx_pump", "challenge_ack"} :
                ([]<>(n \notin Pending(e)) \/ []<><<TimeoutOf(e, n)>>_vars)
          /\ ([]<>("challenge_ack" \notin Pending(e)) \/ []<><<RateLimitEnds(e)>>_vars)
          /\ ([]<>(app[e].phase # "calling" \/ sess[e].event_connect = 0)
              \/ []<><<ConnectReturns(e)>>_vars)
          /\ ([]<>(app[e].phase # "calling" \/ sess[e].accept # "queued")
              \/ []<><<AcceptReturns(e)>>_vars)
          /\ ([]<>~MayRead(e) \/ []<><<Read(e)>>_vars)

FairSpec == Spec /\ Fairness

----------------------------------------------------------------------------
(* Properties *)

\* Type invariant of the composed system.
TypeOK ==
    /\ \A e \in Endpoint :
          /\ sess[e].state \in {"CLOSED", "LISTEN", "SYN_SENT", "SYN_RCVD", "ESTABLISHED", "CLOSE_WAIT",
                               "FIN_WAIT_1", "FIN_WAIT_2", "CLOSING", "LAST_ACK", "TIME_WAIT"}
          /\ {sess[e].snd.una, sess[e].snd.nxt, sess[e].snd.max, sess[e].snd.fin,
              sess[e].tx.seq_mod, sess[e].rcv.nxt, sess[e].rcv.una} \subseteq Seq32
          /\ sess[e].timers \in [TimerName -> {"off", "armed", "expired"}]
          /\ Cardinality(sess[e].ooo) <= OooMaxLen
          /\ sess[e].retransmit_count \in 0..MaxRetransmit
          /\ app[e].phase \in Phase
    /\ \A m \in net : m.to \in Endpoint /\ {m.seg.seq, m.seg.ack} \subseteq Seq32

\* What the reader of e has been given, or will be given next.
Delivered(e) == app[e].got \o sess[e].rx_buffer

\* The byte stream is reliable: whatever the network does, the bytes handed to
\* one application are the first bytes the other one wrote, in order and once.
StreamIsPrefix ==
    \A e \in Endpoint :
        /\ Len(Delivered(e)) <= app[Peer(e)].wrote
        /\ \A i \in DOMAIN Delivered(e) : Delivered(e)[i] = i

\* What the applications have done and seen, read as a state of ByteStream.
Stream == INSTANCE ByteStream WITH
    Side <- Endpoint,
    wrote <- [e \in Endpoint |-> app[e].wrote],
    got <- [e \in Endpoint |-> app[e].got],
    ended <- [e \in Endpoint |-> app[e].ended]

\* The connection implements a pair of byte streams: whatever is lost, aborted
\* or closed in whatever order, receive() gives the next bytes the peer's send()
\* took, and returns b"" only at the true end, after which the peer sends no more.
ImplementsByteStream == Stream!Spec

\* A byte leaves the tx buffer only after the peer's session has it: an
\* acknowledgement, whatever duplicate or late segment carries it, is never
\* taken for more than was received.
AckedIsDelivered ==
    \A e \in Endpoint :
        app[e].wrote - Len(sess[e].tx.buffer) <= Len(Delivered(Peer(e)))

\* While data flows, the tx buffer begins exactly at SND.UNA and holds every
\* byte that is out unacknowledged, and SND.NXT lies between SND.UNA and
\* SND.MAX: whatever has to be retransmitted is still there, at the offset
\* transmit_data computes.
UnackedIsBuffered ==
    \A e \in Endpoint :
        LET s == sess[e] IN
        s.state \in {"ESTABLISHED", "CLOSE_WAIT"} =>
            /\ s.tx.seq_mod = s.snd.una
            /\ FlightSize(s) <= Len(s.tx.buffer)
            /\ in_range32(s.snd.nxt, s.snd.una, s.snd.max)

\* A session that has something left to do holds a service handle: bytes or a
\* FIN unacknowledged, bytes unsent, a close to carry out, an ACK owed, a
\* TIME_WAIT to leave.
NoLostWakeup ==
    \A e \in Endpoint :
        LET s == sess[e] IN
        (\/ s.state \notin {"CLOSED", "LISTEN"} /\ HasPumpWork(s)
         \/ s.state = "ESTABLISHED" /\ s.rcv.nxt # s.rcv.una
         \/ s.state = "TIME_WAIT"
         \/ s.state = "FIN_WAIT_2" /\ s.socket_closed)
        => HasServiceHandle(s)

\* A closed session stays closed, whatever timer, segment or call still
\* reaches it, and holds no timer.
ClosedIsFinal ==
    [][\A e \in Endpoint :
         sess[e].state = "CLOSED" /\ app[e].phase # "idle" =>
             sess'[e].state = "CLOSED" /\ \A n \in TimerName : sess'[e].timers[n] = "off"]_vars

\* The two ends of one direction agree: the next byte the receiver expects is
\* one the sender has sent and still remembers, or its next one.
SequenceSpacesAgree ==
    \A e \in Endpoint :
        {sess[e].state, sess[Peer(e)].state} \cap {"CLOSED", "LISTEN", "SYN_SENT", "SYN_RCVD"} = {} =>
            in_range32(sess[Peer(e)].rcv.nxt, sess[e].snd.una, sess[e].snd.max)

\* The end of the tail probe that is out lies in flight: a marker left behind
\* by an acknowledgement would keep every later tail from being probed.
ProbeMarkerIsLive ==
    \A e \in Endpoint :
        sess[e].state = "ESTABLISHED" /\ sess[e].tlp.end_seq # NoSeq =>
            /\ lt32(sess[e].snd.una, sess[e].tlp.end_seq)
            /\ le32(sess[e].tlp.end_seq, sess[e].snd.max)

\* A session gives up on its peer (ConnError.TIMEOUT) only when more segments
\* were lost, or overtaken by a timer, than it had retransmissions to spend, as
\* long as nobody has closed: SYN_RCVD ignores a FIN, and the peer that sends
\* it then spends its retransmissions without a loss.
GiveUpIsEarned ==
    \A e \in Endpoint :
        sess[e].error = "TIMEOUT" /\ (\A f \in Endpoint : app[f].phase # "closed") =>
            faults.lost + faults.early >= MaxRetransmit

\* Whatever is written is read in the end, unless the reader closes its
\* socket, when the network loses no more than the retransmissions make up for.
WrittenIsRead ==
    \A e \in Endpoint : \A k \in UNION {1..p.writes[e] : p \in Plans} :
        app[e].wrote >= k ~> Len(app[Peer(e)].got) >= k \/ app[Peer(e)].phase = "closed"

\* connect() returns, with the connection open or because the peer was not
\* there yet to take the SYN: also when both ends connect at once.
ConnectCompletes ==
    \A e \in Endpoint :
        e \in plan.client /\ app[e].phase = "calling" ~>
            app[e].phase = "open" \/ (app[e].phase = "failed" /\ sess[e].error = "REFUSED")

\* Once both applications have closed their sockets both sessions go away.
CloseCompletes ==
    \A e \in Endpoint :
        app[e].phase = "closed" /\ app[Peer(e)].phase = "closed" ~> sess[e].state = "CLOSED"

=============================================================================
