------------------------------ MODULE MCFormats -----------------------------
(***************************************************************************)
(* The pure functions of the stack against what they must compute: the     *)
(* packets of MCWire through assembler and parser, and, side by side with  *)
(* them, the arithmetic on address blocks for every triple of addresses    *)
(* and every prefix length.                                                *)
(***************************************************************************)
EXTENDS MCWire, NetworkMath

VARIABLES from, to, at, len    \* the addresses and the prefix length at hand

numbers == << from, to, at, len >>

\* A behaviour follows one packet, or counts through the last two numbers.
FollowPacket == Init /\ from = 0 /\ to = 0 /\ at = Top /\ len = Bits
CountBlocks ==
  /\ from \in 0 .. Top /\ to \in 0 .. Top /\ at = 0 /\ len = 0
  /\ packet = [ ver |-> 0, kind |-> "none", chain |-> << >> ] /\ stage = "refused"
  /\ frame = << >> /\ ip = NoView /\ got = Rejected
NextAddress == at < Top /\ at' = at + 1 /\ UNCHANGED << from, to, len, vars >>
NextLength == len < Bits /\ at = Top /\ len' = len + 1 /\ at' = 0 /\ UNCHANGED << from, to, vars >>
AllFunctions ==
  /\ FollowPacket \/ CountBlocks
  /\ [][(Next /\ UNCHANGED numbers) \/ NextAddress \/ NextLength]_<< vars, numbers >>

\* The largest aligned blocks that lie within a set of addresses: the one and
\* only minimal cover of that set by networks.
Blocks == {Network(a, n) : a \in 0 .. Top, n \in 0 .. Bits}
Within(S) == {b \in Blocks : Addresses(b) \subseteq S}
Largest(S) == {b \in Within(S) : \A c \in Within(S) : subnet_of(b, c) => b = c}

\* The items a caller summarises: two addresses and a network.
Items == {Network(from, Bits), Network(to, Bits), Network(at, len)}

\* summarize yields the minimal cover of what it is given, in ascending order
\* and without a repetition, where spans are nested, adjacent or overlapping.
SummaryIsMinimal ==
  LET s == summarize(Items)
  IN /\ ToSet(s) = Largest(UNION {Addresses(n) : n \in Items})
     /\ \A i, j \in DOMAIN s : i < j => NetworkLess(s[i], s[j])

\* subnets(prefixlen_diff) cuts a network into equal parts that are disjoint,
\* in order and leave no address out; supernet with the same difference takes
\* each of them back to the network, and network[index] counts through them.
SubnetsRejoin(net, diff) ==
  LET parts == subnets(net, diff)
  IN IF net.prefixlen = Bits THEN parts = << net >>
     ELSE IF diff \notin 1 .. (Bits - net.prefixlen) THEN parts = NoNetworks
     ELSE /\ UNION {Addresses(parts[i]) : i \in DOMAIN parts} = Addresses(net)
          /\ \A i, j \in DOMAIN parts : i < j => ~overlaps(parts[i], parts[j]) /\ NetworkLess(parts[i], parts[j])
          /\ \A i \in DOMAIN parts :
               /\ supernet_of(net, parts[i]) /\ supernet(parts[i], diff) = << net >>
               /\ GetItem(net, (i - 1) * num_addresses(parts[i])) = << parts[i].address >>
               /\ GetItem(net, i * num_addresses(parts[i]) - num_addresses(net) - 1) = << last(parts[i]) >>

\* address_exclude yields the minimal cover of what is left of a network when
\* a network inside it is taken out, and refuses any other network.
ExcludeIsComplement(net, other) ==
  LET left == address_exclude(net, other)
  IN IF subnet_of(other, net)
     THEN /\ ToSet(left) = Largest(Addresses(net) \ Addresses(other))
          /\ Cardinality(ToSet(left)) = Len(left)
     ELSE left = NoNetworks

\* However address blocks are joined, cut or carved, no address is lost or
\* added and no two of the blocks that IpNetwork yields could have been one.
BlocksAreExact ==
  /\ SummaryIsMinimal
  /\ SubnetsRejoin(Network(at, len), (from % (Bits + 2)) - 1)
  /\ ExcludeIsComplement(Network(at, len), Network(from, IF to > Bits THEN Bits ELSE to))
=============================================================================
