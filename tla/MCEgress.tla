------------------------------ MODULE MCEgress ------------------------------
(* Interfaces and packets that meet every branch of the way out.           *)
EXTENDS Egress

V4(a, b, c, d) == << a, b, c, d >>
V6(first, last) == first \o Zeros(15 - Len(first)) \o << last >>
Lan(n)    == V4(10, 0, 0, n)
Other(n)  == V4(10, 0, 1, n)
Auto(n)   == V4(169, 254, 0, n)
Far4      == V4(192, 0, 2, 1)
Group4    == V4(224, 0, 0, 251)
LL6(n)    == V6(<< 254, 128 >>, n)
Ula(n)    == V6(<< 253, 0 >>, n)
Glob(n)   == V6(<< 32, 1, 13, 184 >>, n)
Far6      == V6(<< 38, 32, 0, 1 >>, 1)
Group6(s) == V6(<< 255, s >>, 251)
Mac(n)    == << 2, 0, 0, 0, 0, n >>

Base ==
  [layer |-> "L2", ifindex |-> 1, mtu |-> 1280, ip4_support |-> TRUE, ip6_support |-> TRUE,
   ip4 |-> << << Lan(1), 24 >>, << Other(1), 24 >> >>,
   ip6 |-> << << LL6(1), 64 >>, << Ula(1), 64 >>, << Glob(1), 64 >>, << Glob(3), 64 >> >>,
   groups4 |-> {Group4}, groups6 |-> {Group6(2)}, allow_broadcast |-> TRUE,
   deprecated |-> {Glob(3)}, temporary |-> {}, use_tempaddr |-> 0, cur_hop_limit |-> 0,
   neighbours |-> Lan(2) :> Mac(2) @@ Glob(2) :> Mac(3)]

SomeInterfaces ==
  { Base,
    [Base EXCEPT !.layer = "L3", !.deprecated = {}, !.temporary = {Glob(3)}, !.use_tempaddr = 2],
    [Base EXCEPT !.ip4 = << << Auto(1), 16 >>, << Lan(1), 24 >> >>, !.allow_broadcast = FALSE,
                 !.ip6 = << << LL6(1), 64 >> >>, !.cur_hop_limit = 32],
    [Base EXCEPT !.ip4 = << >>, !.ip6 = << >>],
    [Base EXCEPT !.ip4_support = FALSE, !.ip6_support = FALSE] }

P4(src, dst) == [src |-> src, dst |-> dst, ttl |-> 0, df |-> FALSE, kind |-> "udp", ports |-> << 9, 9 >>,
                 size |-> 100, options |-> << >>]
P6(src, dst) == [P4(src, dst) EXCEPT !.kind = "tcp"]
Big(p) == [p EXCEPT !.size = 2500, !.ttl = 7]
Options == << [copied |-> TRUE, len |-> 3], [copied |-> FALSE, len |-> 5] >>

SomePackets ==
  { P4(Zeros(4), Lan(2)), P4(Zeros(4), Other(2)), P4(Zeros(4), Far4), P4(Zeros(4), Group4), P4(Zeros(4), Auto(2)),
    P4(Lan(1), Auto(2)), P4(Group4, Lan(2)), P4(Ones(4), Lan(2)), P4(Other(255), Lan(2)), P4(Lan(9), Lan(2)),
    P4(Zeros(4), Lan(1)), P4(Zeros(4), Zeros(4)), P4(Lan(1), Other(255)), P4(Zeros(4), Lan(255)),
    [P4(Zeros(4), Ones(4)) EXCEPT !.ports = << 68, 67 >>],
    Big([P4(Zeros(4), Lan(2)) EXCEPT !.options = Options]), Big(P4(Zeros(4), Far4)),
    Big([P4(Zeros(4), Lan(2)) EXCEPT !.df = TRUE]),
    P6(Zeros(16), LL6(2)), P6(Zeros(16), Ula(2)), P6(Zeros(16), Glob(2)), P6(Zeros(16), Far6), P6(LL6(1), Far6),
    P6(Glob(1), Group6(2)), P6(LL6(1), Group6(5)), P6(Zeros(16), Group6(2)), P6(Group6(2), Glob(2)),
    P6(Glob(9), Glob(2)), P6(Zeros(16), Glob(1)), P6(Zeros(16), Zeros(16)),
    [P6(Zeros(16), Group6(2)) EXCEPT !.kind = "ns_probe"], [P6(Zeros(16), Group6(2)) EXCEPT !.kind = "mld2_report"],
    [Big(P6(Zeros(16), Group6(2))) EXCEPT !.kind = "mld2_report"],
    [Big(P6(LL6(1), LL6(2))) EXCEPT !.kind = "ns"], Big(P6(Group6(2), Glob(2))),
    Big([P6(Zeros(16), Glob(2)) EXCEPT !.ttl = 0]), Big(P6(Zeros(16), Far6)) }

To(net, len, gateway, metric, oif) ==
  [destination |-> << net, len >>, gateway |-> gateway, metric |-> metric, oif |-> oif]
Default4 == To(Zeros(4), 0, Lan(2), 5, 1)
Default6 == To(Zeros(16), 0, LL6(2), 0, 1)
SomeRoutes ==
  { Default4, To(Lan(0), 24, Other(2), 0, 2), To(V4(192, 0, 2, 0), 24, Other(2), 9, 1),
    Default6, To(Zeros(16), 0, Glob(2), 0, 2), To(V6(<< 38, 32 >>, 0), 16, LL6(3), 3, 1) }

\* Every packet from every interface with four route tables; and pairs of
\* packets between which routes come and go.
Plan(iface0, fib0, packets, routes) == [iface |-> iface0, fib |-> fib0, packets |-> packets, routes |-> routes]
MCPlans ==
  {Plan(i, f, {p}, {}) : i \in SomeInterfaces, p \in SomePackets,
     f \in {<< >>, << Default4, Default6 >>,
            << To(V4(192, 0, 2, 0), 24, Other(2), 9, 1), To(V6(<< 38, 32 >>, 0), 16, LL6(3), 3, 1) >>,
            << To(Zeros(16), 0, Glob(2), 4, 2), Default6, To(Lan(0), 24, Other(2), 0, 2) >>}}
  \cup {Plan(Base, << >>, ps, SomeRoutes) :
           ps \in { {Big(P4(Zeros(4), Far4)), Big([P4(Zeros(4), Lan(2)) EXCEPT !.options = Options])},
                    {P4(Zeros(4), Lan(2)), P6(Zeros(16), Far6)},
                    {Big(P6(Zeros(16), Far6)), Big([P6(Zeros(16), Glob(2)) EXCEPT !.ttl = 0])} }}
=============================================================================
