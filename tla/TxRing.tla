------------------------------- MODULE TxRing -------------------------------
(***************************************************************************)
(* The egress queue of an interface.  Producers append frames; on a plain  *)
(* descriptor a drain scheduled with call_soon writes them, and resumes in *)
(* a writability callback after the descriptor would have blocked; on the  *)
(* socket path a task woken by an event writes them.  Every action is one  *)
(* callback of the event loop, or one stretch of the writer task between   *)
(* two awaits.  Frames are numbered in the order they were offered.        *)
(***************************************************************************)
EXTENDS Naturals, Sequences

CONSTANTS
    QueueMax,     \* queue_max_size
    MaxFrames,    \* how many frames the producers offer
    MaxStarts,    \* how often the interface is started
    FramesFail    \* may a write or an assembly fail?

ASSUME RingKnobs ==
    /\ {QueueMax, MaxFrames, MaxStarts} \subseteq Nat
    /\ FramesFail \in BOOLEAN

VARIABLES
    sock_io,      \* the interface is a registered socket
    deque, running, drain_scheduled, writer_armed,
    callbacks,    \* _drain callbacks the loop holds
    wakeup,       \* _writer_wakeup is set
    task,         \* the writer task: none, waiting for the event, sending the head
    offered,      \* frames offered so far
    sent, lost,   \* frames written; frames dropped full, unbuildable or refused
    farewell,     \* frames offered by stack.stop() itself
    starts

loop == <<drain_scheduled, writer_armed, callbacks>>
writer == <<wakeup, task>>
vars == <<sock_io, deque, running, loop, writer, offered, sent, lost, farewell, starts>>

Frame == 1..MaxFrames
Queued == {deque[i] : i \in DOMAIN deque}

Init ==
    /\ sock_io \in BOOLEAN
    /\ deque = <<>> /\ running = FALSE
    /\ drain_scheduled = FALSE /\ writer_armed = FALSE /\ callbacks = 0
    /\ wakeup = FALSE /\ task = "none"
    /\ offered = 0 /\ sent = {} /\ lost = {} /\ farewell = {} /\ starts = 0

\* _schedule_drain() of a running ring.
ScheduleDrain ==
    IF sock_io THEN wakeup' = TRUE /\ UNCHANGED <<loop, task>>
    ELSE /\ IF drain_scheduled \/ writer_armed THEN UNCHANGED <<drain_scheduled, callbacks>>
            ELSE drain_scheduled' = TRUE /\ callbacks' = callbacks + 1
         /\ UNCHANGED <<writer_armed, writer>>

HasRoom == Len(deque) < QueueMax

\* enqueue() and enqueue_raw_frame(), by a handler of the running or booting stack.
Enqueue ==
    /\ offered < MaxFrames
    /\ offered' = offered + 1
    /\ IF HasRoom
       THEN /\ deque' = Append(deque, offered + 1) /\ UNCHANGED lost
            /\ IF running THEN ScheduleDrain ELSE UNCHANGED <<loop, writer>>
       ELSE lost' = lost \cup {offered + 1} /\ UNCHANGED <<deque, loop, writer>>
    /\ UNCHANGED <<running, sent, farewell, starts, sock_io>>

\* Seeded fault: what was queued before the start is not drained.
DrainAtStartNever == UNCHANGED <<loop, writer>>

\* The end of start(): the socket path creates the event and the task and
\* returns; the descriptor path drains what the boot has queued.
DrainAtStart ==
    IF sock_io THEN wakeup' = FALSE /\ task' = "waiting" /\ UNCHANGED loop
    ELSE IF deque = <<>> \/ drain_scheduled \/ writer_armed THEN UNCHANGED <<loop, writer>>
    ELSE drain_scheduled' = TRUE /\ callbacks' = callbacks + 1 /\ UNCHANGED <<writer_armed, writer>>

Start ==
    /\ ~running /\ starts < MaxStarts
    /\ running' = TRUE /\ starts' = starts + 1
    /\ DrainAtStart
    /\ UNCHANGED <<deque, offered, sent, lost, farewell, sock_io>>

\* stop(): the writability callback goes, the task is cancelled, also amid a
\* send that has or has not reached the wire; the queue is left as it is.
Halt ==
    /\ running' = FALSE
    /\ writer_armed' = FALSE /\ task' = "none"
    /\ sent' \in {sent} \cup (IF task = "sending" THEN {sent \cup {Head(deque)}} ELSE {})
    /\ UNCHANGED <<lost, starts, sock_io>>

\* remove_interface(): the ring is stopped.
Stop ==
    /\ running /\ Halt
    /\ UNCHANGED <<deque, drain_scheduled, callbacks, wakeup, offered, farewell>>

\* stack.stop(): aborting the open sockets queues their resets, and the ring
\* is stopped before the loop runs another callback.  (With nothing to abort,
\* or with the queue full, it is Stop.)
StackStop ==
    /\ running /\ offered < MaxFrames /\ HasRoom /\ Halt
    /\ offered' = offered + 1
    /\ deque' = Append(deque, offered + 1)
    /\ farewell' = farewell \cup {offered + 1}
    /\ IF sock_io THEN wakeup' = TRUE /\ UNCHANGED <<drain_scheduled, callbacks>>
       ELSE /\ UNCHANGED wakeup
            /\ IF drain_scheduled \/ writer_armed THEN UNCHANGED <<drain_scheduled, callbacks>>
               ELSE drain_scheduled' = TRUE /\ callbacks' = callbacks + 1

\* Seeded fault: the frame that would have blocked is popped as well.
RestAfterPopsBlocked(n) == SubSeq(deque, n + 2, Len(deque))

\* The queue once the loop of _drain has popped n frames.
RestAfter(n) == SubSeq(deque, n + 1, Len(deque))

\* add_writer after a write that would have blocked, remove_writer at the end.
ArmWriter(n) == writer_armed' = (n < Len(deque))

\* The loop of _drain: n frames leave, some of them unwritten, before the
\* queue is empty or the descriptor would block.
DrainLoop(n) ==
    /\ n \in 0..Len(deque)
    /\ deque' = RestAfter(n)
    /\ \E bad \in SUBSET (IF FramesFail THEN 1..n ELSE {}) :
          /\ sent' = sent \cup {deque[i] : i \in (1..n) \ bad}
          /\ lost' = lost \cup {deque[i] : i \in bad}
    /\ ArmWriter(n)

Drain ==
    /\ callbacks > 0
    /\ callbacks' = callbacks - 1 /\ drain_scheduled' = FALSE
    /\ IF running THEN \E n \in 0..Len(deque) : DrainLoop(n)
       ELSE UNCHANGED <<deque, sent, lost, writer_armed>>
    /\ UNCHANGED <<running, writer, offered, farewell, starts, sock_io>>

Writable(n) ==
    /\ writer_armed
    /\ drain_scheduled' = FALSE
    /\ DrainLoop(n)
    /\ UNCHANGED <<running, callbacks, writer, offered, farewell, starts, sock_io>>

OnWritable == \E n \in 0..Len(deque) : Writable(n)

\* Seeded fault: a frame that cannot be built ends the inner loop.
TaskLoopGivesUp(d, gone) ==
    \E k \in 0..(IF FramesFail THEN Len(d) ELSE 0) :
        /\ deque' = SubSeq(d, k + 1, Len(d))
        /\ lost' = lost \cup gone \cup {d[i] : i \in 1..k}
        /\ task' = IF k = 0 /\ d # <<>> THEN "sending" ELSE "waiting"

\* The inner loop of _task__sock_writer from queue d on: frames that cannot be
\* built are dropped, up to one that is handed to sock_sendall or to the end.
TaskLoop(d, gone) ==
    \E k \in 0..(IF FramesFail THEN Len(d) ELSE 0) :
        /\ deque' = SubSeq(d, k + 1, Len(d))
        /\ lost' = lost \cup gone \cup {d[i] : i \in 1..k}
        /\ task' = IF k < Len(d) THEN "sending" ELSE "waiting"

TaskWakes ==
    /\ task = "waiting" /\ wakeup
    /\ wakeup' = FALSE
    /\ TaskLoop(deque, {})
    /\ UNCHANGED <<running, loop, offered, sent, farewell, starts, sock_io>>

\* sock_sendall returns or raises OSError; either way the head is popped.
TaskSent ==
    /\ task = "sending"
    /\ \/ sent' = sent \cup {Head(deque)} /\ TaskLoop(Tail(deque), {})
       \/ FramesFail /\ sent' = sent /\ TaskLoop(Tail(deque), {Head(deque)})
    /\ UNCHANGED <<running, loop, wakeup, offered, farewell, starts, sock_io>>

Next ==
    \/ Enqueue \/ Start \/ Stop \/ StackStop
    \/ Drain \/ OnWritable \/ TaskWakes \/ TaskSent

Spec == Init /\ [][Next]_vars

\* The loop runs every callback it holds, and a descriptor that would block
\* takes a frame in the end.
FairSpec ==
    /\ Spec
    /\ WF_vars(Drain) /\ WF_vars(TaskWakes) /\ WF_vars(TaskSent)
    /\ WF_vars(\E n \in 1..Len(deque) : Writable(n))

----------------------------------------------------------------------------
\* Types, and the bound queue_max_size on the queue.
TypeOK ==
    /\ deque \in Seq(Frame) /\ Len(deque) <= QueueMax
    /\ sock_io \in BOOLEAN /\ running \in BOOLEAN /\ drain_scheduled \in BOOLEAN
    /\ writer_armed \in BOOLEAN /\ wakeup \in BOOLEAN
    /\ task \in {"none", "waiting", "sending"} /\ (task = "sending" => deque # <<>>)
    /\ callbacks \in Nat /\ offered \in 0..MaxFrames /\ starts \in 0..MaxStarts
    /\ sent \subseteq Frame /\ lost \subseteq Frame /\ farewell \subseteq Frame

\* _schedule_drain's "exactly one pending drain": the flag says whether the
\* loop holds a drain, there is never a second one, and none beside a
\* writability callback.
OneDrain ==
    /\ callbacks <= 1 /\ (drain_scheduled <=> callbacks = 1)
    /\ ~(drain_scheduled /\ writer_armed)

\* Frames wait in a running ring on a descriptor only while something is due
\* that will send them: no enqueue, start or blocked write leaves them stranded.
\* (On a socket, start() leaves frames of the boot to the next enqueue.)
NoStrandedFrames ==
    ~sock_io /\ running /\ deque # <<>> => drain_scheduled \/ writer_armed

\* Frames leave in the order they were offered and at most once: what is
\* queued in a running ring is newer than all that was written, in order.  (The
\* send that stop() cancels on a socket may have happened, and would be repeated
\* by a second start.)
InOrderOnce ==
    running /\ (sock_io => starts <= 1) =>
        /\ \A i \in DOMAIN deque : \A f \in sent : f < deque[i]
        /\ \A i, j \in DOMAIN deque : i < j => deque[i] < deque[j]

\* The ring read as a state of FrameQueue.
Ring == INSTANCE FrameQueue WITH
    Bound <- QueueMax, atomic <- ~sock_io, waiting <- deque, written <- sent, dropped <- lost

\* The ring implements a bounded FIFO queue: a frame that was offered is dropped
\* only because the queue was full, it could not be built or its write failed,
\* and leaves in its turn; on a descriptor no frame is written twice, on a
\* socket only the one whose send stop() has cancelled may be.
ImplementsFrameQueue == Ring!Spec

\* A frame in a ring that keeps running leaves the queue, on a socket once the
\* writer task has been woken.
QueueDrains ==
    \A f \in Frame :
        running /\ f \in Queued /\ (sock_io => wakeup \/ task = "sending")
            ~> ~running \/ f \notin Queued

\* What stack.stop() queues for the peers before it stops the ring is written.
FarewellReachesPeer == \A f \in Frame : f \in farewell ~> f \in sent
=============================================================================
