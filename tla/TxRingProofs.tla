---------------------------- MODULE TxRingProofs ----------------------------
(***************************************************************************)
(* Proofs about TxRing for any queue size, any number of frames and any    *)
(* number of restarts.                                                     *)
(***************************************************************************)
EXTENDS TxRing, SequenceTheorems, TLAPS

LEMMA KnobTypes ==
    /\ QueueMax \in Nat /\ MaxFrames \in Nat /\ MaxStarts \in Nat
    /\ FramesFail \in BOOLEAN
BY RingKnobs

\* A queue whose first n frames are gone.
LEMMA Suffix ==
    ASSUME NEW S, NEW d \in Seq(S), NEW n \in 0..Len(d)
    PROVE  /\ SubSeq(d, n + 1, Len(d)) \in Seq(S)
           /\ Len(SubSeq(d, n + 1, Len(d))) = Len(d) - n
           /\ \A i \in 1..(Len(d) - n) : SubSeq(d, n + 1, Len(d))[i] = d[n + i]
<1>1. n \in Nat /\ Len(d) \in Nat /\ n <= Len(d)
  OBVIOUS
<1>2. \A i \in (n + 1)..Len(d) : d[i] \in S
  BY <1>1, ElementOfSeq
<1> QED
  BY <1>1, <1>2

\* A queue with one more frame.
LEMMA Grown ==
    ASSUME NEW S, NEW d \in Seq(S), NEW e \in S
    PROVE  /\ Append(d, e) \in Seq(S) /\ Len(Append(d, e)) = Len(d) + 1
           /\ Append(d, e) # <<>>
           /\ \A i \in 1..Len(d) : Append(d, e)[i] = d[i]
           /\ Append(d, e)[Len(d) + 1] = e
<1>1. Append(d, e) \in Seq(S) /\ Len(Append(d, e)) = Len(d) + 1 /\ Len(d) \in Nat
  OBVIOUS
<1>2. Append(d, e) # <<>>
  BY <1>1, EmptySeq
<1>3. \A i \in 1..Len(d) : Append(d, e)[i] = d[i]
  OBVIOUS
<1>4. Append(d, e)[Len(d) + 1] = e
  OBVIOUS
<1> QED
  BY <1>1, <1>2, <1>3, <1>4

LEMMA EmptyIsLengthZero ==
    ASSUME NEW S, NEW d \in Seq(S)
    PROVE  d = <<>> <=> Len(d) = 0
OBVIOUS

\* The inductive invariant.  TypeOK and OneDrain are not kept by themselves: a
\* writability callback exists only in a running ring, so that start() never
\* adds a drain to it, and the two paths do not mix, so that no drain pops a
\* frame the task is sending.
Contents ==
    /\ deque \in Seq(Frame) /\ Len(deque) <= QueueMax
    /\ offered \in 0..MaxFrames /\ starts \in 0..MaxStarts
    /\ sent \subseteq Frame /\ lost \subseteq Frame /\ farewell \subseteq Frame
Flags ==
    /\ sock_io \in BOOLEAN /\ running \in BOOLEAN /\ drain_scheduled \in BOOLEAN
    /\ writer_armed \in BOOLEAN /\ wakeup \in BOOLEAN
Writing ==
    /\ task \in {"none", "waiting", "sending"} /\ (task = "sending" => deque # <<>>)
    /\ callbacks \in Nat
Paths ==
    /\ writer_armed => running
    /\ sock_io => callbacks = 0 /\ ~writer_armed
    /\ ~sock_io => task = "none" /\ ~wakeup
Sound == Contents /\ Flags /\ Writing /\ OneDrain /\ Paths

LEMMA DrainLoopTypes ==
    ASSUME Sound, NEW n \in 0..Len(deque), DrainLoop(n)
    PROVE  /\ deque' \in Seq(Frame) /\ Len(deque') = Len(deque) - n
           /\ sent' \subseteq Frame /\ lost' \subseteq Frame /\ writer_armed' \in BOOLEAN
           /\ (writer_armed' <=> deque' # <<>>)
<1>1. deque \in Seq(Frame) /\ n \in Nat /\ Len(deque) \in Nat /\ n <= Len(deque)
  BY DEF Sound, Contents
<1>2. deque' \in Seq(Frame) /\ Len(deque') = Len(deque) - n
  BY <1>1, Suffix DEF DrainLoop, RestAfter
<1>3. \A i \in 1..n : deque[i] \in Frame
  BY <1>1, ElementOfSeq
<1>4. sent' \subseteq Frame /\ lost' \subseteq Frame
  <2>1. PICK bad \in SUBSET (IF FramesFail THEN 1..n ELSE {}) :
            /\ sent' = sent \cup {deque[i] : i \in (1..n) \ bad}
            /\ lost' = lost \cup {deque[i] : i \in bad}
    BY DEF DrainLoop
  <2>2. bad \subseteq 1..n
    BY <2>1
  <2> QED
    BY <1>3, <2>1, <2>2 DEF Sound, Contents
<1>5. writer_armed' = (n < Len(deque))
  BY DEF DrainLoop, ArmWriter
<1>6. deque' = <<>> <=> Len(deque) - n = 0
  BY <1>2, EmptyIsLengthZero
<1>7. (n < Len(deque)) <=> Len(deque) - n # 0
  BY <1>1
<1>8. writer_armed' \in BOOLEAN
  BY <1>5
<1>9. writer_armed' <=> deque' # <<>>
  BY <1>5, <1>6, <1>7, Zenon
<1> QED
  BY <1>2, <1>4, <1>8, <1>9

LEMMA TaskLoopTypes ==
    ASSUME NEW d \in Seq(Frame), Len(d) <= QueueMax, NEW gone \in SUBSET Frame,
           lost \subseteq Frame, TaskLoop(d, gone)
    PROVE  /\ deque' \in Seq(Frame) /\ Len(deque') <= QueueMax /\ lost' \subseteq Frame
           /\ task' \in {"waiting", "sending"} /\ (task' = "sending" => deque' # <<>>)
<1>1. PICK k \in 0..(IF FramesFail THEN Len(d) ELSE 0) :
          /\ deque' = SubSeq(d, k + 1, Len(d))
          /\ lost' = lost \cup gone \cup {d[i] : i \in 1..k}
          /\ task' = IF k < Len(d) THEN "sending" ELSE "waiting"
  BY Zenon DEF TaskLoop
<1>2. k \in 0..Len(d) /\ Len(d) \in Nat
  BY <1>1
<1>3. deque' \in Seq(Frame) /\ Len(deque') = Len(d) - k
  BY <1>1, <1>2, Suffix
<1>4. \A i \in 1..k : d[i] \in Frame
  BY <1>2, ElementOfSeq
<1>5. Len(deque') <= QueueMax
  BY <1>2, <1>3, KnobTypes
<1>6. task' = "sending" => deque' # <<>>
  <2>1. deque' = <<>> => k = Len(d)
    BY <1>2, <1>3, EmptyIsLengthZero
  <2> QED
    BY <1>1, <1>2, <2>1
<1>7. task' \in {"waiting", "sending"}
  BY <1>1
<1> QED
  BY <1>1, <1>3, <1>4, <1>5, <1>6, <1>7

LEMMA SoundInit == Init => Sound
<1> SUFFICES ASSUME Init PROVE Sound
  OBVIOUS
<1>1. Contents
  BY KnobTypes DEF Init, Contents
<1>2. Flags
  BY Zenon DEF Init, Flags
<1>3. Writing
  BY DEF Init, Writing
<1>4. OneDrain
  BY DEF Init, OneDrain
<1>5. Paths
  BY DEF Init, Paths
<1> QED
  BY <1>1, <1>2, <1>3, <1>4, <1>5 DEF Sound

LEMMA EnqueueSound == ASSUME Sound, Enqueue PROVE Sound'
<1> USE KnobTypes
<1>1. offered + 1 \in Frame /\ offered + 1 \in 0..MaxFrames
  BY DEF Enqueue, Sound, Contents, Frame
<1>2. HasRoom => /\ Append(deque, offered + 1) \in Seq(Frame)
                 /\ Len(Append(deque, offered + 1)) <= QueueMax
                 /\ Append(deque, offered + 1) # <<>>
  BY <1>1, Grown DEF HasRoom, Sound, Contents
<1>11. Contents'
  BY <1>1, <1>2, SMTT(30) DEF Enqueue, ScheduleDrain, Sound, Contents, loop, writer
<1>12. Flags'
  BY <1>1, <1>2, Zenon DEF Enqueue, ScheduleDrain, Sound, Flags, loop, writer
<1>13. Writing'
  BY <1>1, <1>2 DEF Enqueue, ScheduleDrain, Sound, Contents, Writing, Flags, OneDrain, Paths, loop, writer
<1>14. OneDrain'
  BY <1>1, <1>2 DEF Enqueue, ScheduleDrain, Sound, Flags, Writing, OneDrain, Paths, loop, writer
<1>15. Paths'
  BY <1>1, <1>2 DEF Enqueue, ScheduleDrain, Sound, Flags, Writing, OneDrain, Paths, loop, writer
<1> QED
  BY <1>11, <1>12, <1>13, <1>14, <1>15 DEF Sound

LEMMA StartSound == ASSUME Sound, Start PROVE Sound'
<1> USE KnobTypes
<1>11. Contents'
  BY DEF Start, DrainAtStart, Sound, Contents, loop, writer
<1>12. Flags'
  BY Zenon DEF Start, DrainAtStart, Sound, Flags, loop, writer
<1>13. Writing'
  BY DEF Start, DrainAtStart, Sound, Contents, Writing, Flags, OneDrain, Paths, loop, writer
<1>14. OneDrain'
  BY DEF Start, DrainAtStart, Sound, Flags, Writing, OneDrain, Paths, loop, writer
<1>15. Paths'
  BY DEF Start, DrainAtStart, Sound, Flags, Writing, OneDrain, Paths, loop, writer
<1> QED
  BY <1>11, <1>12, <1>13, <1>14, <1>15 DEF Sound

LEMMA StopSound == ASSUME Sound, Stop PROVE Sound'
<1> USE KnobTypes
<1>3. sent' \subseteq Frame
  <2>1. task = "sending" => Head(deque) \in Frame
    BY DEF Sound, Contents, Writing
  <2> QED
    BY <2>1 DEF Stop, Halt, Sound, Contents
<1>11. Contents'
  BY <1>3 DEF Stop, Halt, Sound, Contents, loop, writer
<1>12. Flags'
  BY <1>3, Zenon DEF Stop, Halt, Sound, Flags, loop, writer
<1>13. Writing'
  BY <1>3 DEF Stop, Halt, Sound, Contents, Writing, Flags, OneDrain, Paths, loop, writer
<1>14. OneDrain'
  BY <1>3 DEF Stop, Halt, Sound, Flags, Writing, OneDrain, Paths, loop, writer
<1>15. Paths'
  BY <1>3 DEF Stop, Halt, Sound, Flags, Writing, OneDrain, Paths, loop, writer
<1> QED
  BY <1>11, <1>12, <1>13, <1>14, <1>15 DEF Sound

LEMMA StackStopSound == ASSUME Sound, StackStop PROVE Sound'
<1> USE KnobTypes
<1>1. offered + 1 \in Frame /\ offered + 1 \in 0..MaxFrames
  BY DEF StackStop, Sound, Contents, Frame
<1>2. HasRoom => /\ Append(deque, offered + 1) \in Seq(Frame)
                 /\ Len(Append(deque, offered + 1)) <= QueueMax
                 /\ Append(deque, offered + 1) # <<>>
  BY <1>1, Grown DEF HasRoom, Sound, Contents
<1>3. sent' \subseteq Frame
  <2>1. task = "sending" => Head(deque) \in Frame
    BY DEF Sound, Contents, Writing
  <2> QED
    BY <2>1 DEF StackStop, Halt, Sound, Contents
<1>11. Contents'
  BY <1>1, <1>2, <1>3 DEF StackStop, Halt, Sound, Contents, loop, writer
<1>12. Flags'
  BY <1>1, <1>2, <1>3, Zenon DEF StackStop, Halt, Sound, Flags, loop, writer
<1>13. Writing'
  BY <1>1, <1>2, <1>3 DEF StackStop, Halt, Sound, Contents, Writing, Flags, OneDrain, Paths, loop, writer
<1>14. OneDrain'
  BY <1>1, <1>2, <1>3 DEF StackStop, Halt, Sound, Flags, Writing, OneDrain, Paths, loop, writer
<1>15. Paths'
  BY <1>1, <1>2, <1>3 DEF StackStop, Halt, Sound, Flags, Writing, OneDrain, Paths, loop, writer
<1> QED
  BY <1>11, <1>12, <1>13, <1>14, <1>15 DEF Sound

LEMMA DrainSound == ASSUME Sound, Drain PROVE Sound'
<1> USE KnobTypes
<1>1. ASSUME NEW n \in 0..Len(deque), DrainLoop(n)
      PROVE  /\ deque' \in Seq(Frame) /\ Len(deque') <= QueueMax
             /\ sent' \subseteq Frame /\ lost' \subseteq Frame /\ writer_armed' \in BOOLEAN
  BY <1>1, DrainLoopTypes DEF Sound, Contents
<1>11. Contents'
  BY <1>1 DEF Drain, Sound, Contents, loop, writer
<1>12. Flags'
  BY <1>1, Zenon DEF Drain, Sound, Flags, loop, writer
<1>13. Writing'
  BY <1>1 DEF Drain, Sound, Contents, Writing, Flags, OneDrain, Paths, loop, writer
<1>14. OneDrain'
  BY <1>1 DEF Drain, Sound, Flags, Writing, OneDrain, Paths, loop, writer
<1>15. Paths'
  BY <1>1 DEF Drain, Sound, Flags, Writing, OneDrain, Paths, loop, writer
<1> QED
  BY <1>11, <1>12, <1>13, <1>14, <1>15 DEF Sound

LEMMA OnWritableSound == ASSUME Sound, OnWritable PROVE Sound'
<1> USE KnobTypes
<1>1. ASSUME NEW n \in 0..Len(deque), DrainLoop(n)
      PROVE  /\ deque' \in Seq(Frame) /\ Len(deque') <= QueueMax
             /\ sent' \subseteq Frame /\ lost' \subseteq Frame /\ writer_armed' \in BOOLEAN
  BY <1>1, DrainLoopTypes DEF Sound, Contents
<1>11. Contents'
  BY <1>1 DEF OnWritable, Writable, Sound, Contents, loop, writer
<1>12. Flags'
  BY <1>1, Zenon DEF OnWritable, Writable, Sound, Flags, loop, writer
<1>13. Writing'
  BY <1>1 DEF OnWritable, Writable, Sound, Contents, Writing, Flags, OneDrain, Paths, loop, writer
<1>14. OneDrain'
  BY <1>1 DEF OnWritable, Writable, Sound, Flags, Writing, OneDrain, Paths, loop, writer
<1>15. Paths'
  BY <1>1 DEF OnWritable, Writable, Sound, Flags, Writing, OneDrain, Paths, loop, writer
<1> QED
  BY <1>11, <1>12, <1>13, <1>14, <1>15 DEF Sound

LEMMA TaskWakesSound == ASSUME Sound, TaskWakes PROVE Sound'
<1> USE KnobTypes
<1>1. Contents' /\ Writing'
  BY TaskLoopTypes DEF TaskWakes, Sound, Contents, Writing, loop
<1>11. Contents'
  BY <1>1
<1>12. Flags'
  BY Zenon DEF TaskWakes, Sound, Flags, loop, writer
<1>13. Writing'
  BY <1>1
<1>14. OneDrain'
  BY DEF TaskWakes, Sound, Flags, Writing, OneDrain, Paths, loop, writer
<1>15. Paths'
  BY DEF TaskWakes, Sound, Flags, Writing, OneDrain, Paths, loop, writer
<1> QED
  BY <1>11, <1>12, <1>13, <1>14, <1>15 DEF Sound

LEMMA TaskSentSound == ASSUME Sound, TaskSent PROVE Sound'
<1> USE KnobTypes
<1>1. Head(deque) \in Frame /\ Tail(deque) \in Seq(Frame) /\ Len(Tail(deque)) <= QueueMax
  BY DEF TaskSent, Sound, Contents, Writing
<1>2. PICK gone \in SUBSET {Head(deque)} : TaskLoop(Tail(deque), gone)
  BY DEF TaskSent
<1>3. gone \in SUBSET Frame
  BY <1>1, <1>2
<1>4. Contents' /\ Writing'
  BY <1>1, <1>2, <1>3, TaskLoopTypes, Zenon DEF TaskSent, Sound, Contents, Writing, loop
<1>11. Contents'
  BY <1>4
<1>12. Flags'
  BY DEF TaskSent, Sound, Flags, loop, writer
<1>13. Writing'
  BY <1>4
<1>14. OneDrain'
  BY DEF TaskSent, Sound, Flags, Writing, OneDrain, Paths, loop, writer
<1>15. Paths'
  BY DEF TaskSent, Sound, Flags, Writing, OneDrain, Paths, loop, writer
<1> QED
  BY <1>11, <1>12, <1>13, <1>14, <1>15 DEF Sound

LEMMA SoundNext == Sound /\ [Next]_vars => Sound'
<1> SUFFICES ASSUME Sound, [Next]_vars PROVE Sound'
  OBVIOUS
<1>1. CASE UNCHANGED vars
  BY <1>1 DEF vars, Sound, Contents, Flags, Writing, OneDrain, Paths, loop, writer
<1>2. CASE Next
  BY <1>2, EnqueueSound, StartSound, StopSound, StackStopSound, DrainSound,
     OnWritableSound, TaskWakesSound, TaskSentSound DEF Next
<1> QED
  BY <1>1, <1>2

LEMMA AlwaysSound == Spec => []Sound
BY SoundInit, SoundNext, PTL DEF Spec

\* The type invariant of the ring; the queue never outgrows queue_max_size.
THEOREM TypeCorrect == Spec => []TypeOK
<1>1. Sound => TypeOK
  BY DEF Sound, Contents, Flags, Writing, TypeOK
<1> QED
  BY <1>1, AlwaysSound, PTL

\* _schedule_drain keeps exactly one drain pending, on every path through
\* enqueue, start, stop, a blocked write and a restart.
THEOREM SingleDrain == Spec => []OneDrain
<1>1. Sound => OneDrain
  BY DEF Sound
<1> QED
  BY <1>1, AlwaysSound, PTL

----------------------------------------------------------------------------
(* The descriptor path *)

\* Frames leave in order: the queue is increasing, newer than what was
\* written, and what is offered next is newer still.  And a frame waits in a
\* running ring only with a drain or a writability callback due.
Ordered ==
    /\ \A i \in 1..Len(deque) : deque[i] <= offered /\ \A f \in sent : f < deque[i]
    /\ \A i, j \in 1..Len(deque) : i < j => deque[i] < deque[j]
    /\ \A f \in sent : f <= offered
Served == running /\ deque # <<>> => drain_scheduled \/ writer_armed

LEMMA FramesAreNumbers == Sound => \A i \in 1..Len(deque) : deque[i] \in Nat
<1>1. Sound => \A i \in 1..Len(deque) : deque[i] \in Frame
  BY ElementOfSeq DEF Sound, Contents
<1>2. \A f \in Frame : f \in Nat
  BY KnobTypes DEF Frame
<1> QED
  BY <1>1, <1>2

\* One more frame is newer than all before it.
LEMMA AppendOrdered ==
    ASSUME Sound, Ordered, offered < MaxFrames, offered' = offered + 1, sent' = sent,
           deque' = Append(deque, offered + 1)
    PROVE  Ordered'
<1>1. deque \in Seq(Frame) /\ offered \in Nat /\ offered + 1 \in Frame /\ Len(deque) \in Nat
  BY KnobTypes DEF Sound, Contents, Frame
<1>2. /\ Len(deque') = Len(deque) + 1
      /\ \A i \in 1..Len(deque) : deque'[i] = deque[i]
      /\ deque'[Len(deque) + 1] = offered + 1
  BY <1>1, Grown
<1>3. \A f \in sent : f \in Nat
  BY DEF Sound, Contents, Frame
<1>4. \A i \in 1..Len(deque) : deque[i] \in Nat
  BY FramesAreNumbers
<1> QED
  BY <1>1, <1>2, <1>3, <1>4 DEF Ordered

\* Taking frames from the front keeps the rest newer than what was written.
LEMMA DrainOrdered ==
    ASSUME Sound, Ordered, NEW n \in 0..Len(deque), DrainLoop(n), offered' = offered
    PROVE  Ordered'
<1>1. deque \in Seq(Frame) /\ n \in Nat /\ Len(deque) \in Nat /\ n <= Len(deque)
  BY DEF Sound, Contents
<1>2. /\ Len(deque') = Len(deque) - n
      /\ \A i \in 1..(Len(deque) - n) : deque'[i] = deque[n + i]
  BY <1>1, Suffix DEF DrainLoop, RestAfter
<1>3. \A f \in sent' : f \in sent \/ \E i \in 1..n : f = deque[i]
  BY DEF DrainLoop
<1>4. \A i \in 1..Len(deque) : deque[i] \in Nat
  BY FramesAreNumbers
<1>5. \A i \in 1..(Len(deque) - n) : n + i \in 1..Len(deque)
  BY <1>1
<1>6. \A i \in 1..(Len(deque) - n) : deque'[i] <= offered'
  BY <1>2, <1>5 DEF Ordered
<1>7. \A i \in 1..(Len(deque) - n) : \A f \in sent' : f < deque'[i]
  <2> TAKE i \in 1..(Len(deque) - n)
  <2> TAKE f \in sent'
  <2>1. n + i \in 1..Len(deque) /\ deque'[i] = deque[n + i]
    BY <1>2, <1>5
  <2>2. CASE f \in sent
    BY <2>1, <2>2 DEF Ordered
  <2>3. ASSUME NEW k \in 1..n, f = deque[k] PROVE f < deque[n + i]
    <3>1. k \in 1..Len(deque) /\ k < n + i
      BY <1>1
    <3> QED
      BY <2>1, <2>3, <3>1 DEF Ordered
  <2> QED
    BY <1>3, <2>1, <2>2, <2>3
<1>8. \A i, j \in 1..(Len(deque) - n) : i < j => deque'[i] < deque'[j]
  <2> TAKE i, j \in 1..(Len(deque) - n)
  <2>1. n + i \in 1..Len(deque) /\ deque'[i] = deque[n + i]
    BY <1>2, <1>5
  <2>2. n + j \in 1..Len(deque) /\ deque'[j] = deque[n + j]
    BY <1>2, <1>5
  <2>3. i < j => n + i < n + j
    BY <1>1
  <2> QED
    BY <2>1, <2>2, <2>3 DEF Ordered
<1>9. \A f \in sent' : f <= offered'
  BY <1>1, <1>3 DEF Ordered
<1> QED
  BY <1>2, <1>6, <1>7, <1>8, <1>9 DEF Ordered

LEMMA OrderedNext == ASSUME ~sock_io, Sound, Ordered, [Next]_vars PROVE Ordered'
<1>1. task = "none"
  BY DEF Sound, Paths
<1>2. CASE Enqueue
  <2>1. CASE HasRoom
    BY <1>2, <2>1, AppendOrdered DEF Enqueue
  <2>2. CASE ~HasRoom
    <3>1. deque' = deque /\ sent' = sent /\ offered' = offered + 1
      BY <1>2, <2>2 DEF Enqueue
    <3>2. offered \in Nat /\ (\A f \in sent : f \in Nat) /\ deque \in Seq(Frame)
      BY DEF Sound, Contents, Frame
    <3>3. \A i \in 1..Len(deque) : deque[i] \in Nat
      BY FramesAreNumbers
    <3> QED
      BY <3>1, <3>2, <3>3 DEF Ordered
  <2> QED
    BY <2>1, <2>2
<1>3. CASE Start
  BY <1>3 DEF Start, Ordered
<1>4. CASE Stop
  BY <1>1, <1>4 DEF Stop, Halt, Ordered
<1>5. CASE StackStop
  BY <1>1, <1>5, AppendOrdered DEF StackStop, Halt
<1>6. CASE Drain
  <2>1. CASE running
    BY <1>6, <2>1, DrainOrdered DEF Drain
  <2>2. CASE ~running
    BY <1>6, <2>2 DEF Drain, Ordered
  <2> QED
    BY <2>1, <2>2
<1>7. CASE OnWritable
  BY <1>7, DrainOrdered DEF OnWritable, Writable
<1>8. CASE TaskWakes \/ TaskSent
  BY <1>1, <1>8 DEF TaskWakes, TaskSent
<1>9. CASE UNCHANGED vars
  BY <1>9 DEF vars, Ordered
<1> QED
  BY <1>2, <1>3, <1>4, <1>5, <1>6, <1>7, <1>8, <1>9 DEF Next

LEMMA ServedNext == ASSUME ~sock_io, Sound, Served, [Next]_vars PROVE Served'
<1>1. task = "none"
  BY DEF Sound, Paths
<1>2. CASE Enqueue
  BY <1>2 DEF Enqueue, ScheduleDrain, Served, loop, writer
<1>3. CASE Start
  BY <1>3 DEF Start, DrainAtStart, Served, loop, writer
<1>4. CASE Stop \/ StackStop
  BY <1>4 DEF Stop, StackStop, Halt, Served
<1>5. ASSUME NEW n \in 0..Len(deque), DrainLoop(n) PROVE Served'
  BY <1>5, DrainLoopTypes DEF Served
<1>6. CASE Drain
  BY <1>5, <1>6 DEF Drain, Served
<1>7. CASE OnWritable
  BY <1>5, <1>7 DEF OnWritable, Writable
<1>8. CASE TaskWakes \/ TaskSent
  BY <1>1, <1>8 DEF TaskWakes, TaskSent
<1>9. CASE UNCHANGED vars
  BY <1>9 DEF vars, loop, Served
<1> QED
  BY <1>2, <1>3, <1>4, <1>6, <1>7, <1>8, <1>9 DEF Next

LEMMA PathIsFixed == [Next]_vars => sock_io' = sock_io
  BY DEF Next, Enqueue, Start, Stop, StackStop, Halt, Drain, OnWritable, Writable, TaskWakes,
         TaskSent, vars

\* On the descriptor path no enqueue, start, blocked write or restart leaves
\* frames in a running ring with nothing due to send them.
THEOREM NoneStranded == Spec => []NoStrandedFrames
<1>1. Init => Served
  BY DEF Init, Served
<1>2. Sound /\ (~sock_io => Served) /\ [Next]_vars => (~sock_io => Served)'
  BY ServedNext, PathIsFixed
<1>3. (~sock_io => Served) => NoStrandedFrames
  BY DEF Served, NoStrandedFrames
<1> QED
  BY <1>1, <1>2, <1>3, AlwaysSound, PTL DEF Spec

\* On the descriptor path frames leave in the order they were offered and at
\* most once, also across stop() and a restart.
THEOREM LeaveInOrder == Spec => [](~sock_io => InOrderOnce)
<1>1. Init => Ordered
  BY DEF Init, Ordered
<1>2. Sound /\ (~sock_io => Ordered) /\ [Next]_vars => (~sock_io => Ordered)'
  BY OrderedNext, PathIsFixed
<1>3. Sound /\ (~sock_io => Ordered) => (~sock_io => InOrderOnce)
  <2>1. Sound => DOMAIN deque = 1..Len(deque)
    BY DEF Sound, Contents
  <2> QED
    BY <2>1 DEF Ordered, InOrderOnce
<1> QED
  BY <1>1, <1>2, <1>3, AlwaysSound, PTL DEF Spec
----------------------------------------------------------------------------
(* The ring implements FrameQueue *)

\* Frames that leave in a drain leave the abstract queue.
LEMMA DrainLoopLeaves ==
    ASSUME Sound, NEW n \in 0..Len(deque), DrainLoop(n), offered' = offered, sock_io' = sock_io
    PROVE  [Ring!Next]_(Ring!queue)
<1>1. PICK bad \in SUBSET (IF FramesFail THEN 1..n ELSE {}) :
          /\ sent' = sent \cup {deque[i] : i \in (1..n) \ bad}
          /\ lost' = lost \cup {deque[i] : i \in bad}
  BY DEF DrainLoop
<1>2. bad \in SUBSET (1..n) /\ deque' = SubSeq(deque, n + 1, Len(deque))
  BY <1>1 DEF DrainLoop, RestAfter
<1>3. Ring!Leave(n, bad)
  BY <1>1, <1>2 DEF Ring!Leave
<1>4. deque \in Seq(Frame) /\ Len(deque) \in Nat
  BY DEF Sound, Contents
<1>5. CASE n = 0
  <2>1. deque' = deque
    BY <1>2, <1>4, <1>5
  <2>2. sent' = sent /\ lost' = lost
    BY <1>1, <1>2, <1>5
  <2> QED
    BY <2>1, <2>2 DEF Ring!queue
<1>6. CASE n # 0
  <2>1. n \in 1..Len(deque)
    BY <1>4, <1>6
  <2> QED
    BY <1>2, <1>3, <2>1 DEF Ring!Next
<1> QED
  BY <1>5, <1>6

\* Frames that the inner loop of the task drops leave the abstract queue.
LEMMA TaskLoopLeaves ==
    ASSUME Sound, TaskLoop(deque, {}), sent' = sent, offered' = offered, sock_io' = sock_io
    PROVE  [Ring!Next]_(Ring!queue)
<1>1. PICK k \in 0..(IF FramesFail THEN Len(deque) ELSE 0) :
          /\ deque' = SubSeq(deque, k + 1, Len(deque))
          /\ lost' = lost \cup {} \cup {deque[i] : i \in 1..k}
  BY Zenon DEF TaskLoop
<1>2. deque \in Seq(Frame) /\ Len(deque) \in Nat /\ k \in 0..Len(deque)
  BY <1>1 DEF Sound, Contents
<1>3. Ring!Leave(k, 1..k)
  BY <1>1 DEF Ring!Leave
<1>5. CASE k = 0
  <2>1. deque' = deque
    BY <1>1, <1>2, <1>5
  <2>2. lost' = lost
    BY <1>1, <1>5
  <2> QED
    BY <2>1, <2>2 DEF Ring!queue
<1>6. CASE k # 0
  <2>1. k \in 1..Len(deque) /\ 1..k \in SUBSET (1..k)
    BY <1>2, <1>6
  <2> QED
    BY <1>3, <2>1 DEF Ring!Next
<1> QED
  BY <1>5, <1>6

\* The frame that was sent leaves first, and what the loop then drops after it.
LEMMA TaskSentLeaves ==
    ASSUME Sound, TaskSent
    PROVE  Ring!Next
<1>1. deque \in Seq(Frame) /\ Len(deque) \in Nat /\ deque # <<>>
  BY DEF Sound, Contents, Writing, TaskSent
<1>2. /\ Len(deque) >= 1 /\ Len(Tail(deque)) = Len(deque) - 1 /\ Head(deque) = deque[1]
      /\ \A i \in 1..(Len(deque) - 1) : Tail(deque)[i] = deque[i + 1]
  BY <1>1
<1>3. offered' = offered /\ sock_io' = sock_io
  BY DEF TaskSent
<1>4. PICK gone \in SUBSET {Head(deque)} :
          /\ TaskLoop(Tail(deque), gone)
          /\ sent' = sent \cup ({Head(deque)} \ gone)
  BY DEF TaskSent
<1>5. PICK k \in 0..(IF FramesFail THEN Len(Tail(deque)) ELSE 0) :
          /\ deque' = SubSeq(Tail(deque), k + 1, Len(Tail(deque)))
          /\ lost' = lost \cup gone \cup {Tail(deque)[i] : i \in 1..k}
  BY <1>4, Zenon DEF TaskLoop
<1>6. k \in 0..(Len(deque) - 1) /\ k + 1 \in 1..Len(deque)
  BY <1>1, <1>2, <1>5
<1>7. deque' = SubSeq(deque, (k + 1) + 1, Len(deque))
  <2>1. Tail(deque) \in Seq(Frame)
    BY <1>1
  <2>2. /\ deque' \in Seq(Frame) /\ Len(deque') = Len(deque) - 1 - k
        /\ \A i \in 1..(Len(deque) - 1 - k) : deque'[i] = Tail(deque)[k + i]
    BY <1>2, <1>5, <1>6, <2>1, Suffix
  <2> DEFINE rest == SubSeq(deque, (k + 1) + 1, Len(deque))
  <2>3. /\ rest \in Seq(Frame) /\ Len(rest) = Len(deque) - (k + 1)
        /\ \A i \in 1..(Len(deque) - (k + 1)) : rest[i] = deque[(k + 1) + i]
    BY <1>1, <1>6, Suffix
  <2> HIDE DEF rest
  <2>4. \A i \in 1..(Len(deque) - 1 - k) : deque'[i] = rest[i]
    <3> TAKE i \in 1..(Len(deque) - 1 - k)
    <3>1. /\ i \in 1..(Len(deque) - (k + 1)) /\ k + i \in 1..(Len(deque) - 1)
          /\ (k + i) + 1 = (k + 1) + i
      BY <1>1, <1>6
    <3>2. deque'[i] = deque[(k + i) + 1]
      BY <1>2, <2>2, <3>1
    <3> QED
      BY <2>3, <3>1, <3>2
  <2>5. Len(deque') = Len(rest)
    BY <1>1, <1>6, <2>2, <2>3
  <2>6. deque' = rest
    BY <2>2, <2>3, <2>4, <2>5, SeqEqual
  <2> QED
    BY <2>6 DEF rest
<1> DEFINE bad == (IF gone = {} THEN {} ELSE {1}) \cup 2..(k + 1)
<1>8. bad \in SUBSET (1..(k + 1))
  BY <1>6
<1>9. {deque[i] : i \in 2..(k + 1)} = {Tail(deque)[i] : i \in 1..k}
  <2>1. \A i \in 1..k : Tail(deque)[i] = deque[i + 1] /\ i + 1 \in 2..(k + 1)
    BY <1>2, <1>6
  <2>2. \A j \in 2..(k + 1) : j - 1 \in 1..k /\ Tail(deque)[j - 1] = deque[j]
    BY <1>2, <1>6
  <2> QED
    BY <2>1, <2>2
<1>10. gone = {} \/ gone = {deque[1]}
  BY <1>2, <1>4
<1>11. {deque[i] : i \in bad} = gone \cup {Tail(deque)[i] : i \in 1..k}
  BY <1>9, <1>10
<1>12. {deque[i] : i \in (1..(k + 1)) \ bad} = {deque[1]} \ gone
  <2>1. CASE gone = {}
    <3>1. (1..(k + 1)) \ bad = {1}
      BY <1>6, <2>1
    <3> QED
      BY <2>1, <3>1
  <2>2. CASE gone = {deque[1]}
    <3>1. (1..(k + 1)) \ bad = {}
      BY <1>6, <2>2
    <3> QED
      BY <2>2, <3>1
  <2> QED
    BY <1>10, <2>1, <2>2
<1> HIDE DEF bad
<1>13. Ring!Leave(k + 1, bad)
  BY <1>2, <1>3, <1>4, <1>5, <1>7, <1>11, <1>12 DEF Ring!Leave
<1> QED
  BY <1>6, <1>8, <1>13 DEF Ring!Next

LEMMA RingStep == ASSUME Sound, [Next]_vars PROVE [Ring!Next]_(Ring!queue)
<1>1. CASE Enqueue
  BY <1>1 DEF Enqueue, HasRoom, Ring!Next, Ring!Offer, Ring!Unfinished
<1>2. CASE Start
  BY <1>2 DEF Start, Ring!queue
<1>3. task = "sending" => sock_io /\ deque # <<>>
  BY DEF Sound, Flags, Writing, Paths
<1>4. Halt => sent' \in Ring!Unfinished /\ lost' = lost /\ sock_io' = sock_io
  BY <1>3 DEF Halt, Ring!Unfinished
<1>5. CASE Stop
  BY <1>4, <1>5 DEF Stop, Ring!Next, Ring!Interrupt
<1>6. CASE StackStop
  BY <1>4, <1>6 DEF StackStop, HasRoom, Ring!Next, Ring!Offer
<1>7. CASE Drain
  <2>1. CASE running
    BY <1>7, <2>1, DrainLoopLeaves DEF Drain
  <2>2. CASE ~running
    BY <1>7, <2>2 DEF Drain, Ring!queue
  <2> QED
    BY <2>1, <2>2
<1>8. CASE OnWritable
  BY <1>8, DrainLoopLeaves DEF OnWritable, Writable
<1>9. CASE TaskWakes
  BY <1>9, TaskLoopLeaves DEF TaskWakes
<1>10. CASE TaskSent
  BY <1>10, TaskSentLeaves
<1>11. CASE UNCHANGED vars
  BY <1>11 DEF vars, Ring!queue
<1> QED
  BY <1>1, <1>2, <1>5, <1>6, <1>7, <1>8, <1>9, <1>10, <1>11 DEF Next

\* On both paths, across failing and blocked writes, cancelled sends, stops and
\* restarts, the ring is a bounded FIFO queue: its frames leave from the front,
\* each written or dropped, and it refuses a frame only when it is full.
THEOREM RingImplementsQueue == Spec => ImplementsFrameQueue
<1>1. Init => Ring!Init
  BY Zenon DEF Init, Ring!Init
<1>2. Sound /\ [Next]_vars => [Ring!Next]_(Ring!queue)
  BY RingStep
<1> QED
  BY <1>1, <1>2, AlwaysSound, PTL DEF Spec, ImplementsFrameQueue, Ring!Spec
=============================================================================
