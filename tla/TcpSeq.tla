------------------------------- MODULE TcpSeq -------------------------------
(***************************************************************************)
(* Sequence-number arithmetic (pmd_pytcp/protocols/tcp/tcp__seq.py).  The  *)
(* code works modulo 2^32 with half-point 0x8000_0000; here the half-point *)
(* is a constant.  Every sum the code forms stays within one turn of the   *)
(* circle, so "& 0xFFFF_FFFF" is at most one addition or subtraction.      *)
(***************************************************************************)
EXTENDS Integers

CONSTANT Half    \* SEQ32__HALF; the modulus is twice that

ASSUME HalfAssumption == Half \in Nat \ {0}

Modulus == 2 * Half
Seq32 == 0..(Modulus - 1)

\* x & UINT_32__MAX, for x between -Modulus and 2 * Modulus - 1.
Wrap(x) == IF x < 0 THEN x + Modulus ELSE IF x >= Modulus THEN x - Modulus ELSE x

add32(a, n) == Wrap(a + n)
sub32(a, n) == Wrap(a - n)

\* How far b is ahead of a: (b - a) & UINT_32__MAX.
Ahead(a, b) == Wrap(b - a)

lt32(a, b) ==
    IF Ahead(a, b) = Half THEN a < b ELSE 0 < Ahead(a, b) /\ Ahead(a, b) < Half

le32(a, b) == IF Ahead(a, b) = Half THEN a < b ELSE Ahead(a, b) < Half

gt32(a, b) == lt32(b, a)
ge32(a, b) == le32(b, a)

in_range32(x, lo, hi) == Ahead(lo, x) <= Ahead(lo, hi)
=============================================================================
