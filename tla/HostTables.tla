----------------------------- MODULE HostTables -----------------------------
(* The host's configuration tables as pure operators: an interface's list of
   addresses (stack/address.py, AddressApi), the routing table
   (runtime/fib.py, RouteTable) and its front end (stack/route.py, RouteApi).

   Addresses and networks are identities.  A route installed by a lease has
   a destination and a gateway, no interface and the default metric, so a
   route is the pair of them; the lookup among routes is in Egress. *)
EXTENDS Integers, Sequences, FiniteSets

CONSTANT None      \* the absence of a value

-----------------------------------------------------------------------------
(* Addresses.  add appends without looking for a duplicate, remove filters
   by address, replace adds the new address before it removes the old one so
   that the interface never stands without one. *)
AddAddress(list, a) == Append(list, a)

RemoveAddress(list, a) ==
    LET kept[i \in 0..Len(list)] == IF i = 0 THEN << >>
                                    ELSE IF list[i] # a THEN Append(kept[i - 1], list[i])
                                    ELSE kept[i - 1]
    IN  kept[Len(list)]

ReplaceAddress(list, old, new) == RemoveAddress(AddAddress(list, new), old)

-----------------------------------------------------------------------------
(* Routes. *)
Default == "default"

Route(dest, gateway) == [dest |-> dest, gateway |-> gateway]

AddRoute(fib, r) == Append(fib, r)

(* RouteTable.remove: every route to the destination, or only those through
   the given gateway. *)
RemoveRoute(fib, dest, gateway) ==
    SelectSeq(fib, LAMBDA r : ~ /\ r.dest = dest
                                /\ gateway = None \/ r.gateway = gateway)

ReplaceDefault(fib, gateway) ==
    AddRoute(RemoveRoute(fib, Default, None), Route(Default, gateway))

RemoveDefault(fib) == RemoveRoute(fib, Default, None)
=============================================================================
