------------------------------- MODULE MCIp4 -------------------------------
(* A small instance of Ip4Addressing: two leases that differ in address and
   in how they carry their routes. *)
EXTENDS Ip4Addressing

MCGrants == {[addr |-> "a1", gateway |-> "r1", classless |-> None],
             [addr |-> "a2", gateway |-> "r1",
              classless |-> <<<<Default, "r2">>, <<"net", "r2">>, <<"link", None>>>>]}
NoTimers == {<<None, None>>}
MCTimers == {<<None, None>>, <<2, None>>, <<2, 1>>}
(* A restart on a cached lease; a conflict at any point; the two owners of
   addresses side by side. *)
One == {CHOOSE g \in MCGrants : g.classless # None}
MCPlans ==
    {[boots |-> 2, xids |-> 2, flight |-> 1, leases |-> One, timers |-> NoTimers,
      conflicts |-> FALSE, linklocal |-> FALSE, fallback |-> FALSE],
     [boots |-> 1, xids |-> 2, flight |-> 1, leases |-> One, timers |-> MCTimers,
      conflicts |-> FALSE, linklocal |-> FALSE, fallback |-> FALSE],
     [boots |-> 1, xids |-> 2, flight |-> 1, leases |-> MCGrants, timers |-> NoTimers,
      conflicts |-> FALSE, linklocal |-> FALSE, fallback |-> FALSE],
     [boots |-> 1, xids |-> 2, flight |-> 1, leases |-> One, timers |-> NoTimers,
      conflicts |-> TRUE, linklocal |-> FALSE, fallback |-> FALSE],
     [boots |-> 1, xids |-> 1, flight |-> 1, leases |-> One, timers |-> NoTimers,
      conflicts |-> FALSE, linklocal |-> TRUE, fallback |-> TRUE],
     [boots |-> 1, xids |-> 1, flight |-> 1, leases |-> One, timers |-> NoTimers,
      conflicts |-> FALSE, linklocal |-> TRUE, fallback |-> FALSE]}
MCCandidates == <<"l1", "l2", "l3">>
=============================================================================
