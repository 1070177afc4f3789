-------------------------------- MODULE Wire --------------------------------
(***************************************************************************)
(* What every wire format of pmd_net_proto is written with: byte strings,  *)
(* the big-endian words struct.pack and struct.unpack move, Python slices, *)
(* the unsigned-integer checks of lib/int_checks.py and the Internet       *)
(* checksum of lib/inet_cksum.py.                                          *)
(*                                                                         *)
(* A buffer is a sequence of bytes.  Offsets are the code's: they start at *)
(* 0.  A MAC, IPv4 or IPv6 address is the tuple of its 6, 4 or 16 bytes.   *)
(***************************************************************************)
EXTENDS Integers, Sequences, FiniteSets, FiniteSetsExt, SequencesExt

K == 65536

is_uint2(n)  == n \in 0 .. 3
is_uint4(n)  == n \in 0 .. 15
is_uint6(n)  == n \in 0 .. 63
is_uint8(n)  == n \in 0 .. 255
is_uint13(n) == n \in 0 .. 8191
is_uint16(n) == n \in 0 .. K - 1
is_uint20(n) == n >= 0 /\ n \div K < 16
is_uint24(n) == n >= 0 /\ n \div K < 256
is_uint32(n) == n >= 0 /\ n \div K < K
is_4_byte_alligned(n) == n % 4 = 0
is_8_byte_alligned(n) == n % 8 = 0

\* struct.pack of "B", "H", a 24-bit field and "L".
U8(n)  == << n >>
U16(n) == << n \div 256, n % 256 >>
U24(n) == << n \div K >> \o U16(n % K)
U32(n) == U16(n \div K) \o U16(n % K)
Bit(flag) == IF flag THEN 1 ELSE 0

\* buffer[i], buffer[i:j] (Python clips a slice), int.from_bytes of a slice.
At(b, i) == b[i + 1]
Slice(b, i, j) == SubSeq(b, i + 1, IF j < Len(b) THEN j ELSE Len(b))
From(b, i) == SubSeq(b, i + 1, Len(b))
Get16(b, i) == At(b, i) * 256 + At(b, i + 1)
Get24(b, i) == At(b, i) * K + Get16(b, i + 1)
Get32(b, i) == Get16(b, i) * K + Get16(b, i + 2)
Zeros(n) == [i \in 1 .. n |-> 0]
Bytes(s) == \A i \in DOMAIN s : is_uint8(s[i])

\* Cut b, from offset i to offset j, into pieces of n bytes.
Pieces(b, i, j, n) == [k \in 1 .. (j - i) \div n |-> Slice(b, i + n * (k - 1), i + n * k)]

\* What a from_buffer that raises returns here; no message looks like it.
Rejected == [ type |-> -1 ]

\* An optional field the message does not carry (None in the code).
Absent == -1

\* Whether the first n bytes of a frame exist and hold a fixed part of
\* least bytes.
Holds(frame, n, least) == least <= n /\ n <= Len(frame)

\* buffer[2:4] = cksum.to_bytes(2): where ICMP and IGMP keep the checksum.
Stamped(b, cksum) == [ b EXCEPT ![3] = cksum \div 256, ![4] = cksum % 256 ]

-----------------------------------------------------------------------------
(* inet_cksum.  The code adds up 64-bit words in unbounded integers and    *)
(* folds 64 -> 32 -> 16 -> 16 bits.  TLC's integers have 32 bits, so the   *)
(* sum is kept as four 16-bit limbs, least significant first, each of      *)
(* which may run over until Carried normalises them.                       *)

NoSum == << 0, 0, 0, 0 >>
Plus(a, c) == [k \in 1 .. 4 |-> a[k] + c[k]]

\* The limbs after carrying, and what is left above bit 64.
Carried(a) ==
  LET c1 == a[1]
      c2 == a[2] + c1 \div K
      c3 == a[3] + c2 \div K
      c4 == a[4] + c3 \div K
  IN << c1 % K, c2 % K, c3 % K, c4 % K, c4 \div K >>

\* The sum of n 16-bit words, step bytes apart from offset i on.
RECURSIVE WordSum(_, _, _, _)
WordSum(b, i, step, n) ==
  LET half == n \div 2
  IN IF n = 0 THEN 0
     ELSE IF n = 1 THEN Get16(b, i)
     ELSE WordSum(b, i, step, half) + WordSum(b, i + step * half, step, n - half)

\* The loop body: one buffer is added to the sum, with the odd byte the
\* previous buffers left over.
Summed(st, b) ==
  IF st.carry # 0 /\ b = << >>
  THEN st
  ELSE LET first == IF st.carry # 0 THEN 1 ELSE 0
           q     == (Len(b) - first) \div 8
           tail  == first + 8 * q
           h     == (Len(b) - tail) \div 2
           Limb(k) == WordSum(b, first + 2 * (4 - k), 8, q)
           words == WordSum(b, tail, 2, h)
           odd   == IF first = 1 THEN st.carry * 256 + At(b, 0) ELSE 0
       IN [ acc   |-> Plus(st.acc, << Limb(1) + words + odd, Limb(2), Limb(3), Limb(4) >>),
            carry |-> IF tail + 2 * h < Len(b) THEN At(b, tail + 2 * h) ELSE 0 ]

\* The tail of inet_cksum: the last odd byte, the four folds, the complement.
Folded(acc, carry) ==
  LET n1 == Carried(Plus(acc, << carry * 256, 0, 0, 0 >>))
      n2 == Carried(Plus(SubSeq(n1, 1, 4), << n1[5], 0, 0, 0 >>))
      lo == n2[1] + n2[3]
      hi == n2[2] + n2[4] + lo \div K + n2[5] * K
      c3 == (lo % K) + hi
      c4 == (c3 % K) + c3 \div K
  IN (K - 1) - (c4 % K)

inet_cksum(buffers, init) ==
  LET st == FoldLeft(Summed, [ acc |-> init, carry |-> 0 ], buffers)
  IN Folded(st.acc, st.carry)

\* The 32-bit words of a pseudo-header, as limbs.
pshdr_limbs(b) ==
  << WordSum(b, 2, 4, Len(b) \div 4), WordSum(b, 0, 4, Len(b) \div 4), 0, 0 >>

=============================================================================
