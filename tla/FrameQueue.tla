----------------------------- MODULE FrameQueue -----------------------------
(***************************************************************************)
(* What the producers of an interface may rely on: a bounded queue that    *)
(* takes a frame exactly when it has room, and whose frames leave from the *)
(* front, each written or dropped.  Where writing a frame takes time, the  *)
(* frame at the front may have been written although it is still there.    *)
(***************************************************************************)
EXTENDS Naturals, Sequences

CONSTANT Bound    \* how many frames the queue holds

VARIABLES
    atomic,       \* a frame is written and taken off in one step
    waiting, offered, written, dropped

queue == <<atomic, waiting, offered, written, dropped>>

Init ==
    /\ atomic \in BOOLEAN
    /\ waiting = <<>> /\ offered = 0 /\ written = {} /\ dropped = {}

\* What written becomes, if anything, while the frame at the front stays.
Unfinished ==
    {written} \cup (IF ~atomic /\ waiting # <<>> THEN {written \cup {Head(waiting)}} ELSE {})

Offer ==
    /\ offered' = offered + 1
    /\ IF Len(waiting) < Bound
       THEN waiting' = Append(waiting, offered + 1) /\ UNCHANGED dropped
       ELSE dropped' = dropped \cup {offered + 1} /\ UNCHANGED waiting
    /\ written' \in Unfinished
    /\ UNCHANGED atomic

Interrupt ==
    /\ written' \in Unfinished
    /\ UNCHANGED <<atomic, waiting, offered, dropped>>

\* The first n frames leave, those in bad unwritten.
Leave(n, bad) ==
    /\ waiting' = SubSeq(waiting, n + 1, Len(waiting))
    /\ written' = written \cup {waiting[i] : i \in (1..n) \ bad}
    /\ dropped' = dropped \cup {waiting[i] : i \in bad}
    /\ UNCHANGED <<atomic, offered>>

Next ==
    \/ Offer \/ Interrupt
    \/ \E n \in 1..Len(waiting) : \E bad \in SUBSET (1..n) : Leave(n, bad)

Spec == Init /\ [][Next]_queue
=============================================================================
