----------------------------- MODULE ByteStream -----------------------------
(***************************************************************************)
(* What two applications joined by a TCP connection may rely on: two byte  *)
(* streams, one each way.  A reader is given the next bytes of what the    *)
(* other side wrote, and is told of the end once: "eof" only after the     *)
(* last byte, after which the writer writes nothing, or an error.          *)
(***************************************************************************)
EXTENDS Naturals, Sequences

CONSTANT Side     \* the two ends

VARIABLES
    wrote,        \* how many bytes each end has written: byte i is number i
    got,          \* the bytes each end has been given
    ended         \* what each reader was told: "no" end yet, "eof" or "error"

stream == <<wrote, got, ended>>

Other(e) == CHOOSE f \in Side : f # e

Init ==
    /\ wrote = [e \in Side |-> 0]
    /\ got = [e \in Side |-> <<>>]
    /\ ended = [e \in Side |-> "no"]

Write(e) ==
    /\ ended[Other(e)] # "eof"
    /\ wrote' = [wrote EXCEPT ![e] = @ + 1]
    /\ UNCHANGED <<got, ended>>

\* n more bytes, which follow the ones e has.
Read(e, n) ==
    /\ ended[e] = "no"
    /\ Len(got[e]) + n <= wrote[Other(e)]
    /\ got' = [got EXCEPT ![e] = @ \o [i \in 1..n |-> Len(@) + i]]
    /\ UNCHANGED <<wrote, ended>>

End(e) ==
    /\ ended[e] = "no" /\ Len(got[e]) = wrote[Other(e)]
    /\ ended' = [ended EXCEPT ![e] = "eof"]
    /\ UNCHANGED <<wrote, got>>

Fail(e) ==
    /\ ended[e] = "no"
    /\ ended' = [ended EXCEPT ![e] = "error"]
    /\ UNCHANGED <<wrote, got>>

Next ==
    \E e \in Side :
        \/ Write(e) \/ End(e) \/ Fail(e)
        \/ \E n \in 1..(wrote[Other(e)] - Len(got[e])) : Read(e, n)

Spec == Init /\ [][Next]_stream
=============================================================================
