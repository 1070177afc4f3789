--------------------------- MODULE MCTcp -----------------------------------
(* Instances of TcpConnection: hosts A and B, A connecting to B.           *)
EXTENDS TcpConnection

Hosts == {"A", "B"}

\* A connects and nothing else happens; A's sequence numbers wrap around and
\* B's stay clear of the wrap.
Quietly ==
    [client |-> {"A"}, iss |-> [e \in Hosts |-> IF e = "A" THEN {14} ELSE {3}],
     writes |-> [e \in Hosts |-> 0],
     close |-> {}, abort |-> {}, shut_wr |-> {}, not_read |-> {},
     loss |-> 0, dup |-> 0, icmp |-> 0, early |-> 0]

WritesA(n) == [e \in Hosts |-> IF e = "A" THEN n ELSE 0]

\* Two bytes one way, one segment lost and one delivered twice; both hosts
\* connect at once and write; timers that run out early, and one segment lost;
\* a reader that stops before more is written than the window holds.
Lossy ==
    {[Quietly EXCEPT !.writes = WritesA(2), !.loss = 1, !.dup = 1],
     [Quietly EXCEPT !.client = Hosts, !.writes = [e \in Hosts |-> 1]],
     [Quietly EXCEPT !.writes = WritesA(2), !.loss = 1, !.early = 1],
     [Quietly EXCEPT !.writes = WritesA(5), !.not_read = {"B"}]}

\* Half-close, close and simultaneous close; aborts and ICMP errors.
Closing == {[Quietly EXCEPT !.writes = WritesA(1), !.close = Hosts, !.shut_wr = Hosts, !.loss = 1]}
Aborting == {[Quietly EXCEPT !.writes = WritesA(1), !.close = Hosts, !.abort = Hosts, !.icmp = 1, !.loss = 1]}

\* Both hosts connect at once; one connects and writes; both close, with no
\* FIN near sequence number 0.
OpenBoth == {[Quietly EXCEPT !.client = Hosts, !.loss = 1]}
Deliver2 == {[Quietly EXCEPT !.writes = WritesA(2), !.loss = 1]}
CloseClear == {[Quietly EXCEPT !.iss["A"] = {9}, !.writes = WritesA(1), !.close = Hosts, !.loss = 1]}

Endings == Closing \cup Aborting
Outcomes == OpenBoth \cup Deliver2 \cup CloseClear
=============================================================================
