------------------------------- MODULE MCNetStack -------------------------------
(***************************************************************************)
(* An instance of NetStack for TLC: addresses of three bits, one gateway,  *)
(* one neighbour, and frames of every kind the stack tells apart.          *)
(***************************************************************************)
EXTENDS NetStack

CONSTANTS me, gw, peer, all, zeroed   \* Ethernet addresses

SomeTimeouts == {-1, 0, 2}

Me        == {1}        \* the host
Gateway   == {1, 2}     \* on its subnet, as is Neighbour
Neighbour == {1, 3}
Remote    == {2}        \* reached by the default route
Group     == {2, 3}
Stranger  == {1, 2, 3}

Line(subnet, mask, gateway) == [subnet |-> subnet, mask |-> mask, gateway |-> gateway]

\* Nothing read; the subnet alone; the default route before the subnet.
SomeTables ==
    LET subnet  == Line({1}, {1}, Zero)
        default == Line({}, {}, Gateway)
    IN  { EmptyTable,
          [EmptyTable EXCEPT ![0] = subnet],
          [EmptyTable EXCEPT ![0] = default, ![1] = subnet] }

Udp(mac, dst, port, len) ==
    [type |-> "ip", dmac |-> mac, src |-> Neighbour, dst |-> dst,
     proto |-> "udp", port |-> port, len |-> len]

Arp(oper, spa, sha) ==
    [type |-> "arp", dmac |-> me, oper |-> oper, spa |-> spa, sha |-> sha]

\* Two datagrams for the port, one of them empty; one to the group; one for
\* another port; an ICMP packet to the group; the replies of the gateway and of
\* the neighbour, a request of the gateway; a frame of another type; and one for
\* another host, with a first octet of zero.
OwnFrames ==
    { Udp(me, Me, 1, 0), Udp(me, Me, 1, 5), Udp(all, Group, 1, 5), Udp(me, Me, 2, 5),
      [Udp(all, Group, 1, 0) EXCEPT !.proto = "other"],
      Arp(2, Gateway, gw), Arp(2, Neighbour, peer), Arp(1, Gateway, peer),
      [type |-> "other", dmac |-> me], Udp(zeroed, Me, 1, 5) }

\* The host taken for a router: a packet for a stranger comes to its card, after
\* a packet of a group that nobody here is waiting for.
StrangerFrames ==
    { Udp(me, Me, 1, 5), Udp(me, Stranger, 1, 5),
      [Udp(all, Group, 1, 0) EXCEPT !.proto = "other"] }

\* A frame for the card of the neighbour, whose first octet is not zero.
PeerFrames == { Udp(me, Me, 1, 5), Udp(peer, Me, 1, 5) }

=============================================================================
