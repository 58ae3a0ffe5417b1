------------------------------ MODULE MCIpv4Routes ------------------------------
(***************************************************************************)
(* An instance of Ipv4Routes for TLC: addresses of two octets of two bits, *)
(* masks of every length.                                                  *)
(***************************************************************************)
EXTENDS Ipv4Routes

\* The default route, nested subnets on each side of an octet's edge, two
\* routes for the same subnet, a host route, and one whose subnet has a bit
\* outside its mask, as 163.117.144.25/24 of rip_route_table.txt: it matches
\* nothing.
SomeRoutes ==
    { [subnet |-> s[1], mask |-> s[2], gateway |-> s[3]] : s \in {
        <<{}, {}, {4}>>,
        <<{1}, {1}, {}>>,
        <<{1}, {1, 2}, {}>>,
        <<{1}, {1, 2}, {2}>>,
        <<{1}, {1, 2, 3}, {}>>,
        <<{1, 3}, {1, 2, 3}, {4}>>,
        <<{1, 3, 4}, {1, 2, 3, 4}, {}>>,
        <<{1, 4}, {1, 2}, {}>> } }

R(subnet, mask, gw) == [subnet |-> subnet, mask |-> mask, gateway |-> gw]

SomeFiles ==
    { <<>>,
      <<R({}, {}, {4}), R({1}, {1, 2}, {})>>,
      <<R({1}, {1, 2}, {}), R({1}, {1, 2}, {2})>>,
      <<R({1}, {1, 2}, {}), BadLine, R({}, {}, {4})>>,
      <<R({}, {}, {4}), R({1}, {1}, {}), R({1}, {1, 2}, {}), R({1}, {1, 2, 3}, {})>> }

=============================================================================
