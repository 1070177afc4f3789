------------------------------- MODULE NetAddr ------------------------------
(***************************************************************************)
(* The addresses of pmd_net_addr: what MacAddress, Ip4Address and          *)
(* Ip6Address tell of an address, and the addresses they derive from one   *)
(* another.  An address is the tuple of its bytes, so a test against a     *)
(* prefix mask is a test of its leading bytes.                             *)
(***************************************************************************)
EXTENDS Wire

Starts(a, prefix) == SubSeq(a, 1, Len(prefix)) = prefix
Ones(n) == [i \in 1 .. n |-> 255]
Unspecified(a) == \A i \in DOMAIN a : a[i] = 0

MacBroadcast(a) == a = Ones(6)
MacMulticast(a) == a[1] % 2 = 1 /\ ~MacBroadcast(a)
MacUnicast(a)   == a[1] % 2 = 0 /\ ~Unspecified(a)
MacMulticastIp4(a) == Starts(a, << 1, 0, 94 >>)
MacMulticastIp6(a) == Starts(a, << 51, 51 >>)
MacSolicitedNode(a) == Starts(a, << 51, 51, 255 >>)

Ip4LinkLocal(a) == Starts(a, << 169, 254 >>)
Ip4Loopback(a)  == a[1] = 127
Ip4Multicast(a) == a[1] \div 16 = 14
Ip4LimitedBroadcast(a) == a = Ones(4)
Ip4Reserved(a)  == a[1] \div 16 = 15 /\ ~Ip4LimitedBroadcast(a)
Ip4Invalid(a)   == a[1] = 0 /\ ~Unspecified(a)
Ip4Private(a)   == a[1] = 10 \/ (a[1] = 172 /\ a[2] \div 16 = 1) \/ Starts(a, << 192, 168 >>)
Ip4Global(a) ==
  ~ \/ Unspecified(a) \/ Ip4Invalid(a) \/ Ip4LinkLocal(a) \/ Ip4Loopback(a)
    \/ Ip4Multicast(a) \/ Ip4Private(a) \/ Ip4Reserved(a) \/ Ip4LimitedBroadcast(a)
Ip4Unicast(a) == Ip4Global(a) \/ Ip4Private(a) \/ Ip4LinkLocal(a) \/ Ip4Loopback(a)

Ip6Loopback(a)  == a = Zeros(15) \o << 1 >>
Ip6LinkLocal(a) == a[1] = 254 /\ a[2] \div 64 = 2
Ip6Multicast(a) == a[1] = 255
Ip6Private(a)   == a[1] \div 2 = 126
Ip6Global(a)    == a[1] \div 32 = 1
Ip6Unicast(a)   == Ip6Global(a) \/ Ip6Private(a) \/ Ip6LinkLocal(a) \/ Ip6Loopback(a)
Ip6AllNodes     == << 255, 2 >> \o Zeros(13) \o << 1 >>
Ip6AllRouters   == << 255, 2 >> \o Zeros(13) \o << 2 >>
Ip6SolicitedPrefix == << 255, 2 >> \o Zeros(9) \o << 1, 255 >>
Ip6SolicitedNode(a) == Starts(a, Ip6SolicitedPrefix)
Ip4MappedPrefix == Zeros(10) \o << 255, 255 >>
Ip6Ip4Mapped(a) == Starts(a, Ip4MappedPrefix)
Ip6Documentation(a) ==
  Starts(a, << 32, 1, 13, 184 >>) \/ (Starts(a, << 63, 255 >>) /\ a[3] \div 16 = 0)
Ip6Reserved(a) ==
  \/ Ip6Documentation(a)
  \/ \E p \in { << 0, 100, 255, 155 >> \o Zeros(8), << 0, 100, 255, 155, 0, 1 >>,
                << 1 >> \o Zeros(7), << 1, 0, 0, 0, 0, 0, 0, 1 >>, << 32, 2 >>,
                << 38, 32, 0, 79, 128, 0 >>, << 95, 0 >>, Ip4MappedPrefix } : Starts(a, p)
  \/ Starts(a, << 32, 1 >>) /\ a[3] \div 2 = 0
Ip6Zoneable(a) ==
  \/ Ip6LinkLocal(a) \/ Ip6Loopback(a)
  \/ Ip6Multicast(a) /\ a[2] % 16 \in 1 .. 13

\* The address of Ip4Network or Ip6Network((a, "/n")): host bits are cleared.
Masked(a, n) ==
  [i \in DOMAIN a |->
     LET kept == n - 8 * (i - 1)
     IN IF kept >= 8 THEN a[i] ELSE IF kept <= 0 THEN 0 ELSE a[i] - (a[i] % 2 ^ (8 - kept))]

-----------------------------------------------------------------------------
(* Addresses made from addresses.                                          *)

ip4_multicast_mac(a) == << 1, 0, 94, a[2] % 128, a[3], a[4] >>
ip6_multicast_mac(a) == << 51, 51 >> \o Slice(a, 12, 16)
solicited_node_multicast(a) == Ip6SolicitedPrefix \o Slice(a, 13, 16)
from_ipv4_mapped(a) == Ip4MappedPrefix \o a
ipv4_mapped(a) == IF Ip6Ip4Mapped(a) THEN Slice(a, 12, 16) ELSE << >>
sixtofour(a) == IF Starts(a, << 32, 2 >>) THEN Slice(a, 2, 6) ELSE << >>
teredo(a) ==
  IF Starts(a, << 32, 1, 0, 0 >>)
  THEN << Slice(a, 4, 8), [i \in 1 .. 4 |-> 255 - a[12 + i]] >> ELSE << >>

\* Ip6IfAddr.from_eui64: the universal/local bit of the first byte is
\* inverted and ff:fe goes into the middle of the MAC.
from_eui64(mac, network) ==
  Slice(network, 0, 8)
  \o << IF (mac[1] \div 2) % 2 = 1 THEN mac[1] - 2 ELSE mac[1] + 2, mac[2], mac[3], 255, 254 >>
  \o Slice(mac, 3, 6)

\* Ip6IfAddr._is_reserved_iid: zero, and fdff:ffff:ffff:ff80 up to ...:ffff.
is_reserved_iid(iid) ==
  \/ Unspecified(iid)
  \/ Starts(iid, << 253 >> \o Ones(6)) /\ iid[8] >= 128
=============================================================================
