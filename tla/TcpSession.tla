----------------------------- MODULE TcpSession -----------------------------
(***************************************************************************)
(* One TCP session (pmd_pytcp/protocols/tcp/session and .../fsm) as a      *)
(* record and one operator per method: an operator takes the session       *)
(* before the call and returns the session after it.  The stack runs on    *)
(* one event loop, so every handler is a single step; the modules that     *)
(* extend this one decide when each handler runs.                          *)
(*                                                                         *)
(* Sequence numbers are those of TcpSeq, windows and payloads are counted  *)
(* in bytes of a small instance, and a timer is "off", "armed" or          *)
(* "expired" instead of a deadline.  The session negotiates no options     *)
(* (SACK, timestamps, window scaling, ECN, Fast Open, keep-alive, Nagle    *)
(* off), and the congestion window an acknowledgement leads to is a value  *)
(* its environment chooses.                                                *)
(***************************************************************************)
EXTENDS TcpSeq, Sequences, SequencesExt, FiniteSets

CONSTANTS
    Mss,             \* _win.snd_mss and _win.rcv_mss
    RcvWndMax,       \* _win.rcv_wnd_max
    InitialWindow,   \* initial_window(snd_mss)
    MaxRetransmit,   \* TCP__RETRANSMIT__MAX_COUNT
    OooMaxLen,       \* TCP__OOO_QUEUE__MAX_LEN
    MaxSegments,     \* _MAX_SEGMENTS_PER_PUMP
    TailProbes       \* the round-trip time is a millisecond or more

ASSUME SessionKnobs ==
    /\ {Mss, RcvWndMax, InitialWindow, MaxRetransmit, OooMaxLen, MaxSegments} \subseteq Nat
    /\ Mss > 0 /\ InitialWindow >= Mss /\ TailProbes \in BOOLEAN

TimerName == {"retransmit", "persist", "delayed_ack", "time_wait", "fin_wait_2",
              "challenge_ack", "tlp", "tx_pump"}

\* _SERVICED_TIMERS_BY_STATE
Serviced(state) ==
    CASE state \in {"SYN_SENT", "SYN_RCVD", "FIN_WAIT_1", "CLOSING", "LAST_ACK"}
              -> {"retransmit", "persist", "tx_pump"}
      [] state = "ESTABLISHED" -> {"retransmit", "persist", "delayed_ack", "tlp", "tx_pump"}
      [] state = "CLOSE_WAIT"  -> {"retransmit", "persist", "delayed_ack", "tx_pump"}
      [] state = "FIN_WAIT_2" -> {"fin_wait_2", "tx_pump"}
      [] state = "TIME_WAIT"  -> {"time_wait", "tx_pump"}
      [] OTHER -> {}

NoSeq == -1    \* None where a sequence number may stand

\* A session as its constructor leaves it.
NewSession(iss) ==
    [state  |-> "CLOSED",
     snd    |-> [ini |-> iss, una |-> iss, nxt |-> iss, max |-> iss, sml |-> iss,
                 fin |-> 0, fin_sent |-> FALSE],
     tx     |-> [buffer |-> <<>>, seq_mod |-> iss, dup_acks |-> 0],
     rcv    |-> [ini |-> 0, nxt |-> 0, una |-> 0],
     win    |-> [snd_wnd |-> 0, max_window |-> 0],
     cc     |-> [cwnd |-> Mss, snd_ewn |-> Mss, recovery_point |-> 0, recover_seq |-> 0,
                 frto_step |-> 0, frto_pre_snd_max |-> 0],
     tlp    |-> [armed |-> FALSE, end_seq |-> NoSeq],
     timers |-> [n \in TimerName |-> "off"],
     persist |-> FALSE,           retransmit_count |-> 0, acks_pending |-> 0,
     rx_buffer |-> <<>>,          ooo |-> {},
     closing |-> FALSE,           shut_rd |-> FALSE,      shut_wr |-> FALSE,
     error |-> "NONE",            peer_contacted |-> FALSE,
     event_rx |-> FALSE,          event_connect |-> 0,
     socket_closed |-> FALSE,     accept |-> "no_parent",
     out |-> <<>>]

----------------------------------------------------------------------------
(* Timers (tcp__session__timers.py) *)

Arm(s, name) == [s EXCEPT !.timers[name] = "armed"]
Cancel(s, name) == [s EXCEPT !.timers[name] = "off"]
CancelAll(s) == [s EXCEPT !.timers = [n \in TimerName |-> "off"]]
Armed(s, name) == s.timers[name] = "armed"
Expired(s, name) == s.timers[name] = "expired"

\* _reschedule leaves a service handle exactly when a timer that the state
\* serves is present; the handle runs tcp_fsm(timer=True).
HasServiceHandle(s) == \E n \in Serviced(s.state) : s.timers[n] # "off"

----------------------------------------------------------------------------
(* Quantities derived from the session's state *)

RcvWnd(s) == IF Len(s.rx_buffer) > RcvWndMax THEN 0 ELSE RcvWndMax - Len(s.rx_buffer)
TxBufferNxt(s) == Ahead(s.tx.seq_mod, s.snd.nxt)
TxBufferUna(s) == Ahead(s.tx.seq_mod, s.snd.una)
FlightSize(s) == Ahead(s.snd.una, s.snd.max)
MinOf(a, b) == IF a < b THEN a ELSE b

SynFin(flags) == Cardinality(flags \cap {"SYN", "FIN"})
SegEnd(p) == add32(p.seq, Len(p.data) + SynFin(p.flags))

\* An ACK segment with none of SYN, FIN and RST; a FIN+ACK; a RST without SYN
\* or FIN: the three kinds of segment the synchronized states tell apart.
IsAck(p) == p.flags = {"ACK"}
IsFinAck(p) == p.flags = {"FIN", "ACK"}
IsRst(p) == "RST" \in p.flags /\ p.flags \cap {"SYN", "FIN"} = {}
AckInFlight(s, p) == in_range32(p.ack, s.snd.una, s.snd.max)

HasPumpWork(s) ==
    \/ s.tx.buffer # <<>>
    \/ s.snd.una # s.snd.max
    \/ s.closing /\ s.state \in {"ESTABLISHED", "CLOSE_WAIT"}

\* _pump_tail: the 1 ms wake-up after every event that may need sending.
PumpTail(s, state_at_entry, external) ==
    IF s.state # "CLOSED" /\ (external \/ s.state # state_at_entry \/ HasPumpWork(s))
    THEN Arm(s, "tx_pump") ELSE Cancel(s, "tx_pump")

\* Seeded fault: send() leaves the new bytes to the next event.
KickPumpNever(s) == s

KickPump(s) == IF s.state = "CLOSED" THEN s ELSE Arm(s, "tx_pump")

\* Seeded fault: CLOSED leaves the timers of the session behind.
ChangeStateKeepingTimers(s, state) ==
    [s EXCEPT !.state = state,
              !.event_rx = @ \/ state \in {"CLOSING", "TIME_WAIT", "CLOSED"}]

ChangeState(s, state) ==
    LET t == [s EXCEPT
                !.state = state,
                !.cc.recovery_point = IF s.state = "ESTABLISHED" /\ state # "ESTABLISHED" THEN 0 ELSE @,
                !.event_rx = @ \/ state \in {"CLOSING", "TIME_WAIT", "CLOSED"}]
    IN  IF state = "CLOSED" THEN CancelAll(t) ELSE t

\* Seeded fault: nobody wakes the waiter in connect().
ReleaseConnectLost(s) == s

ReleaseConnect(s) == [s EXCEPT !.event_connect = @ + 1]

\* _enqueue_rx_buffer: data arriving after SHUT_RD is dropped.
EnqueueRxBuffer(s, data) ==
    IF s.shut_rd THEN s ELSE [s EXCEPT !.rx_buffer = @ \o data, !.event_rx = TRUE]

----------------------------------------------------------------------------
(* Sending (tcp__session__tx.py) *)

\* The advertised window: the free space, closed while it is below one segment
\* (receiver silly-window avoidance), always open on a SYN.
AdvertisedWnd(s, flags) ==
    IF "SYN" \notin flags /\ RcvWnd(s) < Mss THEN 0 ELSE RcvWnd(s)

\* Seeded fault: nothing guards what was sent.
PostSendTimersUnguarded(s, consumes, data) ==
    [s EXCEPT !.timers["delayed_ack"] = IF s.state = "ESTABLISHED" THEN "armed" ELSE @]

\* _phase5_post_send_timers
PostSendTimers(s, consumes, data) ==
    LET probe == TailProbes /\ data # <<>> /\ s.cc.recovery_point = 0 /\ s.cc.frto_step = 0
    IN  [s EXCEPT
           !.timers["delayed_ack"] = IF s.state = "ESTABLISHED" THEN "armed" ELSE @,
           !.timers["retransmit"] = IF consumes /\ @ # "armed" THEN "armed" ELSE @,
           !.timers["tlp"] = IF probe THEN "armed" ELSE @,
           !.tlp.armed = @ \/ probe]

\* SendSeqState.bump_max_to_nxt
BumpMax(max, nxt) == IF lt32(max, nxt) THEN nxt ELSE max

\* The segment that takes the numbers from seq up to nxt goes out: SND.NXT moves
\* past it, the tx buffer's base moves past a SYN or FIN, and the timers that
\* guard it are started.
TransmitUpTo(s, flags, seq, nxt, data) ==
    PostSendTimers([s EXCEPT
        !.out = Append(@, [flags |-> flags, seq |-> seq, data |-> data,
                           ack |-> IF "ACK" \in flags THEN s.rcv.nxt ELSE 0,
                           win |-> AdvertisedWnd(s, flags)]),
        !.rcv.una = s.rcv.nxt,
        !.snd = [@ EXCEPT !.nxt = nxt,
                          !.max = BumpMax(@, nxt),
                          !.fin = IF "FIN" \in flags THEN nxt ELSE @,
                          !.fin_sent = @ \/ "FIN" \in flags],
        !.tx.seq_mod = add32(@, SynFin(flags)),
        !.acks_pending = IF "ACK" \in flags THEN 0 ELSE @],
        nxt # seq, data)

\* transmit_packet
TransmitPacket(s, flags, seq, data) ==
    TransmitUpTo(s, flags, seq, add32(seq, Len(data) + SynFin(flags)), data)

SendAck(s) == TransmitPacket(s, {"ACK"}, s.snd.nxt, <<>>)

EmitChallengeAck(s) ==
    IF Armed(s, "challenge_ack") THEN s ELSE Arm(SendAck(s), "challenge_ack")

\* What the MSS, the window and the buffer allow.
Sendable(s) ==
    MinOf(MinOf(Mss, s.cc.snd_ewn - TxBufferNxt(s)), Len(s.tx.buffer) - TxBufferNxt(s))

\* Nagle holds back a partial segment while an earlier one is unacknowledged.
HeldByNagle(s, n) == n < Mss /\ gt32(s.snd.sml, s.snd.una) /\ ~lt32(s.snd.nxt, s.snd.max)

NotePartial(s, partial) == [s EXCEPT !.snd.sml = IF partial THEN s.snd.nxt ELSE @]

SendBytes(s, n, partial) ==
    NotePartial(TransmitPacket(s, {"ACK"}, s.snd.nxt,
                               SubSeq(s.tx.buffer, TxBufferNxt(s) + 1, TxBufferNxt(s) + n)), partial)

\* A closed window: wait for the persist timer, then probe with one byte.
ProbeWindow(s) ==
    CASE ~s.persist -> Arm([s EXCEPT !.persist = TRUE], "persist")
      [] s.persist /\ Expired(s, "persist") -> Arm(SendBytes(s, 1, TRUE), "persist")
      [] OTHER -> s

TransmitBytes(s, n) ==
    CASE n > 0 -> IF HeldByNagle(s, n) THEN s ELSE SendBytes(s, n, n < Mss)
      [] n <= 0 /\ s.cc.snd_ewn # 0 -> s
      [] n <= 0 /\ s.cc.snd_ewn = 0 -> ProbeWindow(s)

\* The data branch of transmit_data
TransmitFromBuffer(s) ==
    IF Len(s.tx.buffer) = TxBufferNxt(s) THEN s ELSE TransmitBytes(s, Sendable(s))

FinPending(s) ==
    s.state \in {"FIN_WAIT_1", "CLOSING", "LAST_ACK"} /\ s.snd.nxt # s.snd.fin

\* The flags of a segment that takes a sequence number itself and is due now.
FlagsDue(s) ==
    CASE s.state = "SYN_SENT" /\ s.snd.nxt = s.snd.ini -> {"SYN"}
      [] s.state = "SYN_RCVD" /\ s.snd.nxt = s.snd.ini -> {"SYN", "ACK"}
      [] FinPending(s) -> {"FIN", "ACK"}
      [] OTHER -> {}

\* One pass of the engine's transmit_data.
TransmitSegment(s) ==
    CASE ~in_range32(s.snd.nxt, s.snd.una, add32(s.snd.una, s.cc.snd_ewn)) -> s
      [] OTHER ->
         CASE s.state \in {"ESTABLISHED", "CLOSE_WAIT"} -> TransmitFromBuffer(s)
           [] FlagsDue(s) # {} -> TransmitPacket(s, FlagsDue(s), s.snd.nxt, <<>>)
           [] OTHER -> s

Passed(before, after) == [now |-> after, go |-> after.snd.nxt # before.snd.nxt]
Pass(run) == IF run.go THEN Passed(run.now, TransmitSegment(run.now)) ELSE run

\* _transmit_data: repeat until SND.NXT stands still; one segment in recovery.
TransmitData(s) ==
    LET bound == IF s.cc.recovery_point # 0 THEN 1 ELSE MaxSegments
        pass[k \in 0..bound] == IF k = 0 THEN [now |-> s, go |-> TRUE] ELSE Pass(pass[k - 1])
    IN  pass[bound].now

ClearExpired(s, name) == IF Expired(s, name) THEN Cancel(s, name) ELSE s

\* _delayed_ack
DelayedAck(s) ==
    IF Armed(s, "delayed_ack") THEN s
    ELSE ClearExpired(IF gt32(s.rcv.nxt, s.rcv.una) THEN SendAck(s) ELSE s, "delayed_ack")

----------------------------------------------------------------------------
(* Loss recovery (tcp__session__retransmit.py) *)

\* The application learns that the peer is gone.
TellTimeout(s) ==
    CASE s.state \in {"ESTABLISHED", "FIN_WAIT_1", "FIN_WAIT_2", "CLOSING", "CLOSE_WAIT"} ->
            [s EXCEPT !.error = "TIMEOUT", !.event_rx = TRUE]
      [] s.state \in {"SYN_SENT", "SYN_RCVD"} ->
            ReleaseConnect([s EXCEPT !.error =
                IF @ \in {"HOST_UNREACHABLE", "NET_UNREACHABLE"} THEN @ ELSE "TIMEOUT"])
      [] OTHER -> s

\* The retransmission budget is spent: RST the peer if it was ever heard from,
\* tell the application, close.
GiveUp(s) ==
    ChangeState(TellTimeout(IF s.peer_contacted
                            THEN TransmitPacket(s, {"RST", "ACK"}, s.snd.una, <<>>) ELSE s), "CLOSED")

\* Seeded fault: the last retransmission is not spent.
ExhaustedEarly(s) == s.retransmit_count + 1 >= MaxRetransmit

Exhausted(s) == s.retransmit_count >= MaxRetransmit

\* The base of the tx buffer moves back over a SYN or FIN that is sent again.
RewindsFlag(s) ==
    \/ s.snd.una = s.snd.ini
    \/ s.snd.fin_sent /\ s.snd.una = sub32(s.snd.fin, 1)

InFrto(s) == s.cc.frto_step # 0 /\ ~lt32(s.cc.frto_pre_snd_max, s.snd.una)

\* What a retransmission timeout resets before SND.UNA is sent again: the
\* window falls to one segment.
GoBack(s) ==
    [s EXCEPT !.retransmit_count = @ + 1,
              !.cc = [cwnd |-> Mss, snd_ewn |-> MinOf(Mss, s.win.snd_wnd),
                      recovery_point |-> 0, recover_seq |-> s.snd.max,
                      frto_step |-> IF InFrto(s) THEN s.cc.frto_step ELSE 1,
                      frto_pre_snd_max |-> s.snd.max],
              !.snd.nxt = s.snd.una,
              !.tx.seq_mod = IF RewindsFlag(s) THEN sub32(@, 1) ELSE @]

\* Seeded fault: SND.MAX goes back with SND.NXT.
RetransmitTimeoutForgetsMax(s) ==
    CASE ~Expired(s, "retransmit") \/ s.snd.una = s.snd.max -> s
      [] Expired(s, "retransmit") /\ s.snd.una # s.snd.max ->
         IF Exhausted(s) THEN GiveUp(s)
         ELSE Arm([GoBack(s) EXCEPT !.snd.max = s.snd.una], "retransmit")

\* retransmit_packet_timeout: give up, or go back to SND.UNA.
RetransmitTimeout(s) ==
    CASE ~Expired(s, "retransmit") \/ s.snd.una = s.snd.max -> s
      [] Expired(s, "retransmit") /\ s.snd.una # s.snd.max ->
         IF Exhausted(s) THEN GiveUp(s) ELSE Arm(GoBack(s), "retransmit")

\* retransmit_packet_request: a duplicate ACK.  The first two let a new segment
\* out (limited transmit), the third starts fast retransmit.
RetransmitRequest(s) ==
    LET count == s.tx.dup_acks + 1
        t == [s EXCEPT !.tx.dup_acks = count]
    IN  CASE s.cc.recovery_point # 0 -> t
          [] s.cc.recovery_point = 0 /\ s.cc.recover_seq # 0 /\ lt32(s.snd.una, s.cc.recover_seq) -> t
          [] OTHER ->
             CASE count \in {1, 2} /\ s.tx.buffer # <<>> ->
                    [TransmitData([t EXCEPT !.cc.snd_ewn =
                                     MinOf(s.cc.cwnd + count * Mss, s.win.snd_wnd)])
                     EXCEPT !.cc.snd_ewn = s.cc.snd_ewn]
               [] count = 3 ->
                    [t EXCEPT !.cc = [@ EXCEPT
                                 !.cwnd = FlightSize(s),
                                 !.snd_ewn = MinOf(FlightSize(s), s.win.snd_wnd),
                                 !.recovery_point = IF s.snd.max # 0 THEN s.snd.max ELSE 1],
                              !.snd.nxt = s.snd.una]
               [] OTHER -> t

\* Where a tail probe starts: at new data, or at the last segment sent.
ProbeStart(s) ==
    LET sent_len == Ahead(s.tx.seq_mod, s.snd.max)
    IN  IF sent_len < Len(s.tx.buffer) /\ s.cc.snd_ewn > sent_len THEN s.snd.max
        ELSE sub32(s.snd.max, MinOf(Mss, FlightSize(s)))

MarkProbe(s) == Arm([s EXCEPT !.tlp = [armed |-> FALSE, end_seq |-> s.snd.max]], "retransmit")

\* tlp_pto_tick: one probe per tail.
TlpTick(s) ==
    LET t == Cancel(s, "tlp")
    IN  CASE ~Expired(s, "tlp") -> s
          [] Expired(s, "tlp") /\ (\/ ~s.tlp.armed \/ s.snd.una = s.snd.max \/ s.tlp.end_seq # NoSeq
                                   \/ s.retransmit_count > 0 \/ s.cc.recovery_point # 0
                                   \/ s.cc.frto_step # 0) -> t
          [] OTHER -> MarkProbe(TransmitData([t EXCEPT !.snd.nxt = ProbeStart(s)]))

\* The window part of a segment that acknowledges nothing new.
WindowUpdate(s, wnd) ==
    LET t == [s EXCEPT !.win.snd_wnd = wnd]
    IN  IF wnd > 0 /\ s.persist THEN Cancel([t EXCEPT !.persist = FALSE], "persist") ELSE t

\* A pure ACK that repeats SND.UNA: a window update or a duplicate ACK.
RepeatedAck(s, p) ==
    IF p.win # s.win.snd_wnd THEN WindowUpdate(s, p.win) ELSE RetransmitRequest(s)

----------------------------------------------------------------------------
(* Receiving (tcp__session__ack.py, tcp__session__validate.py).  env holds   *)
(* what the handlers take from outside the model: the congestion window an   *)
(* acknowledgement leads to and the next initial sequence number.            *)

RECURSIVE TcpFsmPacket(_, _, _)

\* _phase2_frto_spurious_detect: two acknowledgements that advance end F-RTO.
FrtoStep(cc, una) ==
    IF cc.frto_step = 1 /\ lt32(una, cc.frto_pre_snd_max) THEN 2 ELSE 0

\* Seeded fault: only the end of the flight settles a probe.
ProbeEndKept(end_seq, ack) == end_seq

\* tlp_process_ack, without SACK
ProbeEnd(end_seq, ack) == IF end_seq # NoSeq /\ le32(end_seq, ack) THEN NoSeq ELSE end_seq

\* _phase1_cum_ack_side_effects
CumulativeAck(s, p, env) ==
    IF ~lt32(s.snd.una, p.ack) THEN s
    ELSE [s EXCEPT
            !.tlp = IF p.ack = s.snd.max THEN [armed |-> FALSE, end_seq |-> NoSeq]
                    ELSE [@ EXCEPT !.end_seq = ProbeEnd(@, p.ack)],
            !.timers["tlp"] = IF p.ack = s.snd.max THEN "off" ELSE @,
            !.snd.una = p.ack,
            !.tx.dup_acks = 0,
            !.cc = [@ EXCEPT !.cwnd = env.cwnd,
                             !.snd_ewn = MinOf(env.cwnd, s.win.snd_wnd),
                             !.recover_seq = IF ge32(p.ack, @) THEN 0 ELSE @,
                             !.frto_step = FrtoStep(s.cc, p.ack)],
            !.retransmit_count = 0,
            !.timers["retransmit"] = IF p.ack = s.snd.max THEN "off" ELSE "armed"]

\* The end of _phase4_loss_detection_and_recovery_exit
RecoveryExit(s, env) ==
    IF s.cc.recovery_point # 0 /\ le32(s.cc.recovery_point, s.snd.una)
    THEN [s EXCEPT !.cc = [@ EXCEPT !.cwnd = env.cwnd,
                                    !.snd_ewn = MinOf(env.cwnd, s.win.snd_wnd),
                                    !.recovery_point = 0]]
    ELSE s

\* How much of the segment was received before.
OverlapPrefix(s, p) == IF lt32(p.seq, s.rcv.nxt) THEN Ahead(p.seq, s.rcv.nxt) ELSE 0

MoveRcvNxt(s, p) == IF lt32(s.rcv.nxt, SegEnd(p)) THEN [s EXCEPT !.rcv.nxt = SegEnd(p)] ELSE s

\* Every second segment is acknowledged at once.
AckTaken(s) == IF s.acks_pending >= 2 THEN SendAck(s) ELSE Arm(s, "delayed_ack")

\* New data goes to the reader.
ConsumeData(s, p) ==
    LET overlap == OverlapPrefix(s, p)
    IN  IF overlap >= Len(p.data) THEN MoveRcvNxt(s, p)
        ELSE AckTaken([EnqueueRxBuffer(MoveRcvNxt(s, p), SubSeq(p.data, overlap + 1, Len(p.data)))
                       EXCEPT !.acks_pending = @ + 1])

\* Seeded fault: the buffer's base stays behind.
DrainKeepsBase(tx, count) ==
    [tx EXCEPT !.buffer = IF count >= Len(@) THEN <<>> ELSE SubSeq(@, count + 1, Len(@))]

\* TxBufferState.drain
Drain(tx, count) ==
    [tx EXCEPT !.buffer = IF count >= Len(@) THEN <<>> ELSE SubSeq(@, count + 1, Len(@)),
               !.seq_mod = add32(@, count)]

UpdateSendWindow(s, p) ==
    WindowUpdate([s EXCEPT
        !.cc.snd_ewn = IF s.win.snd_wnd = p.win THEN @ ELSE MinOf(s.cc.cwnd, p.win),
        !.win.max_window = IF p.win > @ THEN p.win ELSE @], p.win)

\* An acknowledgement of what was sent before a time-out pulls SND.NXT along.
CatchUp(s) ==
    IF lt32(s.snd.nxt, s.snd.una) /\ le32(s.snd.una, s.snd.max)
    THEN [s EXCEPT !.snd.nxt = s.snd.una] ELSE s

DrainAcked(s) == [s EXCEPT !.tx = Drain(@, TxBufferUna(s))]

\* A segment waiting out of order that is now next in line goes through the
\* state machine as if it had just arrived; older ones are dropped.
Reassemble(s, env) ==
    LET kept == {q \in s.ooo : ~lt32(q.seq, s.rcv.nxt)}
        next == {q \in kept : q.seq = s.rcv.nxt}
    IN  IF next = {} THEN [s EXCEPT !.ooo = kept]
        ELSE TcpFsmPacket([s EXCEPT !.ooo = kept \ next], CHOOSE q \in next : TRUE, env)

\* process_ack_packet
ProcessAck(s, p, env) ==
    Reassemble(
        UpdateSendWindow(
            DrainAcked(ConsumeData(CatchUp(RecoveryExit(CumulativeAck(s, p, env), env)), p)), p), env)

\* check_segment_acceptability
Acceptable(s, p) ==
    LET right == add32(s.rcv.nxt, RcvWnd(s))
        empty == Len(p.data) + SynFin(p.flags) = 0
    IN  CASE empty /\ RcvWnd(s) > 0 -> in_range32(p.seq, s.rcv.nxt, right)
          [] empty /\ RcvWnd(s) = 0 -> p.seq = s.rcv.nxt
          [] ~empty -> RcvWnd(s) > 0 /\ lt32(p.seq, right) /\ gt32(SegEnd(p), s.rcv.nxt)

\* How the synchronized states begin: a SYN, or a segment outside the window,
\* is answered with a challenge ACK (a RST outside the window with nothing).
Screened(s, p, handled) ==
    IF "SYN" \notin p.flags /\ Acceptable(s, p) THEN handled
    ELSE IF p.flags \cap {"SYN", "RST"} = {"RST"} THEN s ELSE EmitChallengeAck(s)

\* check_rst_acceptability
RstAcceptable(s, p) ==
    p.seq = s.rcv.nxt /\ ("ACK" \in p.flags => AckInFlight(s, p))

\* A RST at RCV.NXT resets the session, one elsewhere in the window is
\* challenged, any other is ignored.
OnRst(s, p, reset) ==
    CASE RstAcceptable(s, p) -> reset
      [] ~RstAcceptable(s, p) /\ lt32(s.rcv.nxt, p.seq)
            /\ lt32(p.seq, add32(s.rcv.nxt, RcvWnd(s))) -> EmitChallengeAck(s)
      [] OTHER -> s

\* Seeded fault: the application is not told of the reset.
ResetByPeerSilently(s, error) == ChangeState(s, "CLOSED")

ResetByPeer(s, error) == ChangeState([s EXCEPT !.error = error], "CLOSED")

\* An ACK beyond SND.MAX is challenged.
ChallengeIfAhead(s, p) == IF gt32(p.ack, s.snd.max) THEN EmitChallengeAck(s) ELSE s

TakeData(s, data) == IF data = <<>> THEN s ELSE EnqueueRxBuffer(s, data)

\* reinit_for_rfc6191_reuse
ReinitForReuse(s, p, env) ==
    LET nxt == add32(p.seq, 1 + Len(p.data))
        fresh == NewSession(env.iss)
    IN  TakeData(CancelAll([s EXCEPT
            !.snd = fresh.snd, !.tx = [@ EXCEPT !.seq_mod = env.iss, !.buffer = <<>>],
            !.rcv = [ini |-> p.seq, nxt |-> nxt, una |-> nxt],
            !.win = [snd_wnd |-> p.win, max_window |-> p.win],
            !.cc = [@ EXCEPT !.cwnd = Mss, !.snd_ewn = MinOf(Mss, p.win), !.recovery_point = 0],
            !.peer_contacted = TRUE, !.retransmit_count = 0,
            !.ooo = {}, !.rx_buffer = <<>>]), p.data)

----------------------------------------------------------------------------
(* The packet handlers of the states (fsm/) *)

\* The first SYN of a connection turns the listening session into the child.
ListenPacket(s, p) ==
    IF p.flags # {"SYN"} THEN s
    ELSE ChangeState(TakeData([s EXCEPT
                !.win.snd_wnd = p.win,
                !.rcv.ini = p.seq, !.rcv.nxt = add32(p.seq, 1 + Len(p.data)),
                !.cc.cwnd = Mss, !.cc.snd_ewn = MinOf(Mss, p.win),
                !.peer_contacted = TRUE, !.accept = "embryonic"], p.data), "SYN_RCVD")

\* The peer's SYN, acceptable in SYN_SENT.
TakePeerSyn(s, p) ==
    [s EXCEPT !.win.snd_wnd = p.win,
              !.rcv.ini = p.seq, !.rcv.nxt = add32(p.seq, 1 + Len(p.data)),
              !.peer_contacted = TRUE,
              !.cc.cwnd = Mss, !.cc.snd_ewn = MinOf(Mss, p.win)]

\* The congestion window of an established connection.
StartWindow(s) ==
    [s EXCEPT !.cc.cwnd = InitialWindow, !.cc.snd_ewn = MinOf(InitialWindow, s.win.snd_wnd)]

ResumeAtUna(s) == [s EXCEPT !.snd.nxt = IF lt32(s.snd.una, @) THEN s.snd.una ELSE @]

SynSentEstablish(s, p, env) ==
    LET acked == ProcessAck(TakeData(TakePeerSyn(s, p), p.data), p, env)
    IN  ReleaseConnect(ChangeState(SendAck(StartWindow(ResumeAtUna(acked))), "ESTABLISHED"))

\* A RST that the session answers with, outside its own sequence space.
StrayRst(s, seq) ==
    [s EXCEPT !.out = Append(@, [flags |-> {"RST"}, seq |-> seq, ack |-> 0, data |-> <<>>,
                                 win |-> RcvWnd(s)])]

SynSentPacket(s, p, env) ==
    LET acceptable == lt32(s.snd.una, p.ack) /\ le32(p.ack, s.snd.max)
    IN  IF "ACK" \in p.flags /\ ~acceptable
        THEN IF "RST" \in p.flags THEN s ELSE StrayRst(s, p.ack)
        ELSE CASE p.flags = {"SYN", "ACK"} /\ le32(p.ack, s.snd.nxt) -> SynSentEstablish(s, p, env)
               [] p.flags = {"SYN"} /\ p.data = <<>> ->
                    ChangeState(TransmitPacket(TakePeerSyn(s, p), {"SYN", "ACK"}, s.snd.ini, <<>>),
                                "SYN_RCVD")
               [] p.flags = {"RST", "ACK"} /\ p.seq = 0 /\ p.ack = s.snd.nxt ->
                    ReleaseConnect(ResetByPeer(s, "REFUSED"))
               [] OTHER -> s

AckIfData(s, p) == IF p.data = <<>> THEN s ELSE SendAck(s)

SynRcvdPacket(s, p, env) ==
    IF "SYN" \in p.flags /\ "RST" \notin p.flags THEN EmitChallengeAck(s)
    ELSE IF IsAck(p) /\ p.seq = s.rcv.nxt /\ p.ack = s.snd.nxt
    THEN ReleaseConnect([ChangeState(AckIfData(StartWindow(ProcessAck(s, p, env)), p), "ESTABLISHED")
                         EXCEPT !.accept = IF @ = "no_parent" THEN @ ELSE "queued"])
    ELSE IF IsRst(p) THEN OnRst(s, p, ChangeState(ReleaseConnect([s EXCEPT !.error = "REFUSED"]), "CLOSED"))
    ELSE s

\* Seeded fault: a segment ahead of the gap goes straight to the reader.
StoreOutOfOrderAsData(s, p) == [s EXCEPT !.rx_buffer = @ \o p.data]

\* Seeded fault: a segment the full queue refuses is acknowledged.
StoreOutOfOrderAcksRefused(s, p) ==
    IF Cardinality(s.ooo) < OooMaxLen THEN [s EXCEPT !.ooo = @ \cup {p}]
    ELSE [s EXCEPT !.rcv.nxt = SegEnd(p)]

\* The reassembly queue takes a segment while it has room; a retransmission
\* replaces the copy it holds.
StoreOutOfOrder(s, p) ==
    LET same == {q \in s.ooo : q.seq = p.seq}
    IN  IF Cardinality(s.ooo) < OooMaxLen \/ same # {}
        THEN [s EXCEPT !.ooo = (@ \ same) \cup {p}] ELSE s

EstablishedAck(s, p, env) ==
    LET mine == le32(s.snd.una, p.ack) /\ le32(p.ack, s.snd.max)
        in_order == p.seq = s.rcv.nxt
        overlaps == lt32(p.seq, s.rcv.nxt) /\ lt32(s.rcv.nxt, SegEnd(p))
    IN  IF in_order /\ p.ack = s.snd.una /\ p.data = <<>>
        THEN IF p.win = s.win.snd_wnd /\ s.snd.una = s.snd.nxt THEN s ELSE RepeatedAck(s, p)
        ELSE IF gt32(p.seq, s.rcv.nxt) /\ mine THEN SendAck(StoreOutOfOrder(s, p))
        ELSE IF (in_order \/ overlaps) /\ mine THEN ProcessAck(s, p, env)
        ELSE IF gt32(p.ack, s.snd.max) \/ lt32(p.ack, sub32(s.snd.una, s.win.max_window))
        THEN EmitChallengeAck(s)
        ELSE s

EstablishedPacket(s, p, env) ==
    Screened(s, p,
        CASE IsAck(p) -> EstablishedAck(s, p, env)
          [] IsFinAck(p) /\ p.seq = s.rcv.nxt /\ AckInFlight(s, p) ->
                ChangeState([AckIfData(ProcessAck(s, p, env), p) EXCEPT !.event_rx = TRUE],
                            "CLOSE_WAIT")
          [] IsRst(p) -> OnRst(s, p, ResetByPeer(s, "RESET"))
          [] OTHER -> s)

CloseWaitPacket(s, p, env) ==
    Screened(s, p,
        CASE IsAck(p) ->
                IF p.seq = s.rcv.nxt /\ p.ack = s.snd.una /\ p.data = <<>> THEN RepeatedAck(s, p)
                ELSE IF ~AckInFlight(s, p) THEN s
                ELSE IF gt32(p.seq, s.rcv.nxt) \/ (p.seq = s.rcv.nxt /\ p.data # <<>>) THEN SendAck(s)
                ELSE IF p.seq = s.rcv.nxt THEN ProcessAck(s, p, env)
                ELSE s
          [] IsRst(p) -> OnRst(s, p, ResetByPeer(s, "RESET"))
          [] OTHER -> s)

\* The test the FIN states make for an acknowledgement of their FIN.
AcksFin(s, ack) == ge32(ack, s.snd.fin)

\* Seeded fault: nothing ends TIME_WAIT.
EnterTimeWaitUntimed(s) == ChangeState(s, "TIME_WAIT")

EnterTimeWait(s) == Arm(ChangeState(s, "TIME_WAIT"), "time_wait")

\* FIN_WAIT_1, after an ACK: t is the session that took it.
AfterAckInFinWait1(t, ack) ==
    IF ~AcksFin(t, ack) THEN t
    ELSE IF t.socket_closed THEN Arm(ChangeState(t, "FIN_WAIT_2"), "fin_wait_2")
    ELSE ChangeState(t, "FIN_WAIT_2")

AfterFinInFinWait1(t, ack) == IF AcksFin(t, ack) THEN EnterTimeWait(t) ELSE ChangeState(t, "CLOSING")

FinWait1Packet(s, p, env) ==
    Screened(s, p,
        CASE IsAck(p) ->
                IF p.seq = s.rcv.nxt /\ AckInFlight(s, p)
                THEN AfterAckInFinWait1(AckIfData(ProcessAck(s, p, env), p), p.ack)
                ELSE ChallengeIfAhead(s, p)
          [] IsFinAck(p) /\ p.seq = s.rcv.nxt /\ AckInFlight(s, p) ->
                AfterFinInFinWait1(SendAck(ProcessAck(s, p, env)), p.ack)
          [] IsRst(p) -> OnRst(s, p, ResetByPeer(s, "RESET"))
          [] OTHER -> s)

FinWait2Packet(s, p, env) ==
    Screened(s, p,
        CASE IsAck(p) ->
                IF p.seq = s.rcv.nxt /\ AckInFlight(s, p) THEN AckIfData(ProcessAck(s, p, env), p)
                ELSE ChallengeIfAhead(s, p)
          [] IsFinAck(p) /\ p.seq = s.rcv.nxt /\ AckInFlight(s, p) ->
                Arm(Cancel(ChangeState(SendAck(ProcessAck(s, p, env)), "TIME_WAIT"), "fin_wait_2"),
                    "time_wait")
          [] IsRst(p) -> OnRst(s, p, ResetByPeer(s, "RESET"))
          [] OTHER -> s)

LeaveClosing(t) == IF AcksFin(t, t.snd.una) THEN EnterTimeWait(t) ELSE t

ClosingPacket(s, p, env) ==
    Screened(s, p,
        CASE IsAck(p) ->
                IF p.seq = s.rcv.nxt /\ AckInFlight(s, p)
                THEN LeaveClosing(ProcessAck(s, p, env))
                ELSE ChallengeIfAhead(s, p)
          [] IsRst(p) -> OnRst(s, p, ResetByPeer(s, "RESET"))
          [] OTHER -> s)

LastAckPacket(s, p) ==
    Screened(s, p,
        CASE IsAck(p) ->
                IF p.ack = s.snd.nxt /\ AckInFlight(s, p) THEN ChangeState(s, "CLOSED")
                ELSE ChallengeIfAhead(s, p)
          [] IsRst(p) -> OnRst(s, p, ChangeState(s, "CLOSED"))
          [] OTHER -> s)

TimeWaitPacket(s, p, env) ==
    IF p.flags \cap {"SYN", "ACK", "RST"} = {"SYN"} /\ gt32(p.seq, s.rcv.nxt)
    THEN LET t == ChangeState(ReinitForReuse(s, p, env), "SYN_RCVD")
         IN  TransmitPacket(t, {"SYN", "ACK"}, t.snd.nxt, <<>>)
    ELSE IF "FIN" \in p.flags /\ add32(p.seq, 1) = s.rcv.nxt
    THEN Arm(SendAck(s), "time_wait")
    ELSE IF "SYN" \in p.flags THEN EmitChallengeAck(s)
    ELSE s

\* tcp_fsm(packet_rx_md)
TcpFsmPacket(s, p, env) ==
    PumpTail(
        CASE s.state = "LISTEN" -> ListenPacket(s, p)
          [] s.state = "SYN_SENT" -> SynSentPacket(s, p, env)
          [] s.state = "SYN_RCVD" -> SynRcvdPacket(s, p, env)
          [] s.state = "ESTABLISHED" -> EstablishedPacket(s, p, env)
          [] s.state = "CLOSE_WAIT" -> CloseWaitPacket(s, p, env)
          [] s.state = "FIN_WAIT_1" -> FinWait1Packet(s, p, env)
          [] s.state = "FIN_WAIT_2" -> FinWait2Packet(s, p, env)
          [] s.state = "CLOSING" -> ClosingPacket(s, p, env)
          [] s.state = "LAST_ACK" -> LastAckPacket(s, p)
          [] s.state = "TIME_WAIT" -> TimeWaitPacket(s, p, env)
          [] OTHER -> s,
        s.state, TRUE)

----------------------------------------------------------------------------
(* Timer service, ICMP errors and syscalls *)

ReadyToFin(s) == s.closing /\ s.tx.buffer = <<>>

Finish(s, state) == IF ReadyToFin(s) THEN ChangeState(s, state) ELSE s

\* What the timer handler of a state does once it has sent.
AfterSending(state, s) ==
    CASE state = "ESTABLISHED" -> Finish(TlpTick(DelayedAck(s)), "FIN_WAIT_1")
      [] state = "CLOSE_WAIT" -> Finish(DelayedAck(s), "LAST_ACK")
      [] OTHER -> s

\* The timer handlers of the states.
ServiceTimers(s) ==
    CASE s.state \in {"SYN_SENT", "SYN_RCVD", "ESTABLISHED", "CLOSE_WAIT",
                      "FIN_WAIT_1", "CLOSING", "LAST_ACK"} ->
            AfterSending(s.state, TransmitData(RetransmitTimeout(s)))
      [] s.state = "FIN_WAIT_2" /\ Expired(s, "fin_wait_2") -> ChangeState(s, "CLOSED")
      [] s.state = "TIME_WAIT" /\ Expired(s, "time_wait") -> ChangeState(s, "CLOSED")
      [] OTHER -> s

\* tcp_fsm(timer=True)
TcpFsmTimer(s) == PumpTail(ServiceTimers(s), s.state, FALSE)

\* An ICMP destination-unreachable reaches the handshake only: a hard code
\* ends it, a soft code is remembered.  A report about the path MTU changes
\* the segment size, which is fixed here.
TcpFsmIcmp(s, kind) ==
    PumpTail(
        CASE s.state = "SYN_SENT" /\ kind = "hard" ->
                ChangeState(ReleaseConnect([s EXCEPT !.error = "REFUSED", !.event_rx = TRUE]), "CLOSED")
          [] s.state = "SYN_SENT" /\ kind = "soft" -> [s EXCEPT !.error = "HOST_UNREACHABLE"]
          [] OTHER -> s,
        s.state, TRUE)

\* tcp_fsm(syscall=...)
Syscall(s, call) ==
    PumpTail(
        CASE call = "CONNECT" /\ s.state = "CLOSED" -> ChangeState(s, "SYN_SENT")
          [] call = "LISTEN" /\ s.state = "CLOSED" -> ChangeState(s, "LISTEN")
          [] call = "CLOSE" /\ s.state = "LISTEN" -> ChangeState(s, "CLOSED")
          [] call = "CLOSE" /\ s.state \in {"SYN_SENT", "SYN_RCVD"} ->
                ChangeState(ReleaseConnect([s EXCEPT !.error = "CANCELED"]),
                            IF s.state = "SYN_SENT" THEN "CLOSED" ELSE "FIN_WAIT_1")
          [] call = "CLOSE" /\ s.state \in {"ESTABLISHED", "CLOSE_WAIT"} -> [s EXCEPT !.closing = TRUE]
          [] call = "CLOSE" /\ s.state = "FIN_WAIT_2" -> Arm(s, "fin_wait_2")
          [] OTHER -> s,
        s.state, TRUE)

\* TcpSession.abort
Abort(s) ==
    LET rst == IF s.state \in {"SYN_RCVD", "ESTABLISHED", "FIN_WAIT_1", "FIN_WAIT_2", "CLOSE_WAIT"}
               THEN TransmitPacket(s, {"RST", "ACK"}, s.snd.nxt, <<>>) ELSE s
    IN  ChangeState(ReleaseConnect([rst EXCEPT !.error = "CANCELED", !.event_rx = TRUE]), "CLOSED")

\* TcpSession.shutdown
Shutdown(s, rd, wr) ==
    LET t == IF rd /\ ~s.shut_rd THEN [s EXCEPT !.shut_rd = TRUE, !.event_rx = TRUE] ELSE s
    IN  IF wr /\ ~t.shut_wr /\ ~t.closing THEN Syscall([t EXCEPT !.shut_wr = TRUE], "CLOSE") ELSE t

CanSend(s) == ~s.closing /\ ~s.shut_wr /\ s.state \in {"ESTABLISHED", "CLOSE_WAIT"}

\* TcpSession.send, when it does not raise
SendData(s, data) == KickPump([s EXCEPT !.tx.buffer = @ \o data])

\* The states in which an empty buffer means the peer has finished.
EofStates == {"CLOSE_WAIT", "CLOSING", "TIME_WAIT", "CLOSED"}

\* What receive() raises or returns once the event is set.
ReceiveOutcome(s) ==
    IF s.rx_buffer # <<>> THEN "data"
    ELSE IF s.error \in {"RESET", "CANCELED", "TIMEOUT"} THEN "error"
    ELSE "eof"

\* TcpSession.receive with no size limit: take everything, and wait again
\* unless the peer has finished.
Receive(s) ==
    IF ReceiveOutcome(s) = "error" \/ (s.rx_buffer = <<>> /\ s.state \in EofStates) THEN s
    ELSE [s EXCEPT !.rx_buffer = <<>>, !.event_rx = s.state \in EofStates]

\* What connect() reports once the semaphore is acquired.
ConnectFails(s) ==
    /\ s.state # "ESTABLISHED"
    /\ s.error \in {"REFUSED", "TIMEOUT", "CANCELED", "HOST_UNREACHABLE", "NET_UNREACHABLE"}
=============================================================================
