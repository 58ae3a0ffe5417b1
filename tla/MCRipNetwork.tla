----------------------------- MODULE MCRipNetwork -----------------------------
(***************************************************************************)
(* An instance of RipNetwork for TLC: two daemons and the client.  One has *)
(* the other for its gateway; that of the other takes no part, but its     *)
(* card's first octet is not 0.  So each may hear the other's updates.     *)
(***************************************************************************)
EXTENDS RipNetwork, TLC

CONSTANTS p, q, a, b, c, gw   \* a subnet; two daemons, the client, a router

Gateways == (a :> b) @@ (b :> Nobody)

With(r) == [EmptyTable EXCEPT ![0] = r]

\* One of them may have the route by a router that takes no part; the other has
\* nothing, or has it by the first.
SomeTables ==
    (a :> {EmptyTable, With(NewRoute(p, gw, 1, InfiniteTimeout))})
    @@ (b :> {EmptyTable, With(NewRoute(p, a, 3, InfiniteTimeout))})

\* The client has a route; or one of another subnet, and this one gone.
SomeEntries ==
    {<<[prefix |-> p, metric |-> 1]>>,
     <<[prefix |-> q, metric |-> 2], [prefix |-> p, metric |-> Unreachable]>>}

=============================================================================
