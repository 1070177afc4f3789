---------------------------- MODULE NetworkMath -----------------------------
(***************************************************************************)
(* The arithmetic of pmd_net_addr's IpNetwork: merging, tiling, splitting  *)
(* and carving address blocks.  An address is an integer below 2^Bits      *)
(* (the code has 32 and 128), a network the record of its first address    *)
(* and its prefix length.  An operation that raises yields NoNetworks.     *)
(***************************************************************************)
EXTENDS Integers, Sequences, SequencesExt

CONSTANT Bits    \* max_prefixlen

ASSUME BitsAssumption == Bits \in Nat \ {0}

Top == 2 ^ Bits - 1
NoNetworks == << "IpNetworkSanityError" >>

\* IpNetwork((address, mask)): the bits outside the mask are cleared.
Network(a, n) == [address |-> a - (a % 2 ^ (Bits - n)), prefixlen |-> n]

hostmask(net) == 2 ^ (Bits - net.prefixlen) - 1
last(net) == net.address + hostmask(net)
num_addresses(net) == last(net) - net.address + 1
Addresses(net) == net.address .. last(net)

\* network[index]; a negative index counts from the end.
GetItem(net, index) ==
  LET i == IF index < 0 THEN index + num_addresses(net) ELSE index
  IN IF i \in 0 .. (num_addresses(net) - 1) THEN << net.address + i >> ELSE NoNetworks

overlaps(a, b) == a.address <= last(b) /\ b.address <= last(a)
subnet_of(a, b) == b.address <= a.address /\ last(a) <= last(b)
supernet_of(a, b) == subnet_of(b, a)
NetworkLess(a, b) == a.address < b.address \/ (a.address = b.address /\ a.prefixlen < b.prefixlen)

-----------------------------------------------------------------------------
(* Tiling a range of addresses.                                            *)

bit_length(n) == IF n = 0 THEN 0 ELSE 1 + (CHOOSE k \in 0 .. Bits : 2 ^ k <= n /\ n < 2 ^ (k + 1))
Alignment(lo) == IF lo = 0 THEN Bits ELSE CHOOSE k \in 0 .. Bits : lo % 2 ^ k = 0 /\ lo % 2 ^ (k + 1) # 0

RECURSIVE summarize_ints(_, _)
summarize_ints(lo, hi) ==
  IF lo > hi THEN << >>
  ELSE LET span == bit_length(hi - lo + 1) - 1
           step == IF Alignment(lo) < span THEN Alignment(lo) ELSE span
       IN << [address |-> lo, prefixlen |-> Bits - step] >> \o summarize_ints(lo + 2 ^ step, hi)

SpanLess(a, b) == a[1] < b[1] \/ (a[1] = b[1] /\ a[2] < b[2])

\* Seeded fault: adjacent spans are not joined.
MergeOverlapping(merged, s) ==
  IF merged # << >> /\ s[1] <= Last(merged)[2]
  THEN Append(Front(merged), << Last(merged)[1], IF s[2] > Last(merged)[2] THEN s[2] ELSE Last(merged)[2] >>)
  ELSE Append(merged, s)

MergeSpan(merged, s) ==
  IF merged # << >> /\ s[1] <= Last(merged)[2] + 1
  THEN Append(Front(merged), << Last(merged)[1], IF s[2] > Last(merged)[2] THEN s[2] ELSE Last(merged)[2] >>)
  ELSE Append(merged, s)
merge_spans(spans) == FoldLeft(MergeSpan, << >>, SetToSortSeq(spans, SpanLess))

\* IpNetwork.summarize of a set of networks; an address is one of full length.
summarize(items) ==
  FlattenSeq([i \in DOMAIN merge_spans({<< n.address, last(n) >> : n \in items}) |->
                LET s == merge_spans({<< n.address, last(n) >> : n \in items})[i]
                IN summarize_ints(s[1], s[2])])

-----------------------------------------------------------------------------
(* Splitting and carving.                                                  *)

\* subnets(new_prefix=n) and subnets(prefixlen_diff=d).
SubnetsOfLength(net, n) ==
  IF net.prefixlen = Bits THEN << net >>
  ELSE IF n <= net.prefixlen \/ n > Bits THEN NoNetworks
  ELSE [i \in 1 .. 2 ^ (n - net.prefixlen) |->
          [address |-> net.address + (i - 1) * 2 ^ (Bits - n), prefixlen |-> n]]
subnets(net, diff) == SubnetsOfLength(net, net.prefixlen + diff)

\* supernet(new_prefix=n) and supernet(prefixlen_diff=d).
SupernetOfLength(net, n) ==
  IF net.prefixlen = 0 THEN << net >>
  ELSE IF n >= net.prefixlen \/ n < 0 THEN NoNetworks
  ELSE << Network(net.address, n) >>
supernet(net, diff) == SupernetOfLength(net, net.prefixlen - diff)

\* The loop of address_exclude: the half without other is yielded, the other
\* half is halved in turn.
RECURSIVE ExcludeHalves(_, _)
ExcludeHalves(net, other) ==
  LET s == subnets(net, 1)
  IN IF s[1] = other THEN << s[2] >>
     ELSE IF s[2] = other THEN << s[1] >>
     ELSE IF subnet_of(other, s[1]) THEN << s[2] >> \o ExcludeHalves(s[1], other)
     ELSE << s[1] >> \o ExcludeHalves(s[2], other)
address_exclude(net, other) ==
  IF ~subnet_of(other, net) THEN NoNetworks
  ELSE IF other = net THEN << >>
  ELSE ExcludeHalves(net, other)
=============================================================================
