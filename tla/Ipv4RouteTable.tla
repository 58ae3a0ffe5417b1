----------------------------- MODULE Ipv4RouteTable -----------------------------
(***************************************************************************)
(* The IPv4 route table of ipv4_route_table.c: the fixed array of slots,   *)
(* the match of one route and the search of the best one.                  *)
(*                                                                         *)
(* An address, and a mask, is the set of its bits that are one, bit 1 being *)
(* the most significant: & is \cap.  The code has 4 octets of 8 bits.  The *)
(* interface name and the administrative distance are stored and printed,  *)
(* but read by nothing, and are left out.                                  *)
(***************************************************************************)
EXTENDS Integers, FiniteSets, FiniteSetsExt

CONSTANTS
    Octets,      \* IPv4_ADDR_SIZE (4)
    OctetBits,   \* bits of an octet (8)
    TableSize,   \* IPv4_ROUTE_TABLE_SIZE (256)
    NoRoute      \* the NULL pointer

ASSUME OctetsAssumption    == Octets \in Nat \ {0}
ASSUME OctetBitsAssumption == OctetBits \in Nat \ {0}
ASSUME TableSizeAssumption == TableSize \in Nat \ {0}

Bits    == 1 .. Octets * OctetBits
Address == SUBSET Bits

Zero    == {}    \* IPv4_ZERO_ADDR, the gateway of a directly connected subnet

Route == [subnet : Address, mask : Address, gateway : Address]

ASSUME NoRouteAssumption == NoRoute \notin Route

Slots  == 0 .. TableSize - 1
Tables == [Slots -> Route \cup {NoRoute}]

EmptyTable  == [s \in Slots |-> NoRoute]
Occupied(t) == {s \in Slots : t[s] # NoRoute}
Free(t)     == {s \in Slots : t[s] = NoRoute}

(***************************************************************************)
(* ipv4_route_table_add: the first empty slot; -1 and no change when full. *)
(***************************************************************************)
AddIndex(t) == IF Free(t) = {} THEN -1 ELSE Min(Free(t))

\* Mutant: a full table gives up its first route.
AddOverwrites(t, r) ==
    IF Free(t) = {} THEN [t EXCEPT ![0] = r] ELSE [t EXCEPT ![AddIndex(t)] = r]

Add(t, r) == IF Free(t) = {} THEN t ELSE [t EXCEPT ![AddIndex(t)] = r]

(***************************************************************************)
(* ipv4_route_table_remove: an index outside the table changes nothing.    *)
(***************************************************************************)
Remove(t, i) == IF i \in Slots THEN [t EXCEPT ![i] = NoRoute] ELSE t

(***************************************************************************)
(* ipv4_route_table_find: the first slot with this subnet and mask, or -1. *)
(***************************************************************************)
Find(t, subnet, mask) ==
    LET same == {s \in Occupied(t) : t[s].subnet = subnet /\ t[s].mask = mask} IN
    IF same = {} THEN -1 ELSE Min(same)

---------------------------------------------------------------------------
(* ipv4_route_lookup.                                                      *)

\* The bits of the k-th octet, and its n most significant ones.
Octet(k)      == (k - 1) * OctetBits + 1 .. k * OctetBits
Leading(k, n) == (k - 1) * OctetBits + 1 .. (k - 1) * OctetBits + n

\* The switch: the ones of an octet count if they are all leading, else none do.
Counted(mask, k) ==
    LET ones == mask \cap Octet(k) IN
    IF \E n \in 0 .. OctetBits : ones = Leading(k, n) THEN ones ELSE {}

\* The sum over the octets.
MaskLength(mask) == Cardinality(UNION {Counted(mask, k) : k \in 1 .. Octets})

RouteLookup(r, addr) ==
    IF addr \cap r.mask # r.subnet THEN -1 ELSE MaskLength(r.mask)

(***************************************************************************)
(* ipv4_route_table_lookup: the scan, slot after slot, with the best route *)
(* so far and the length of its prefix.                                    *)
(***************************************************************************)
\* Mutant: the first matching route is returned.
FirstMatch(t, addr) ==
    LET matching == {s \in Occupied(t) : RouteLookup(t[s], addr) >= 0} IN
    IF matching = {} THEN NoRoute ELSE t[Min(matching)]

\* best_route and best_route_prefix.
NoBest == [route |-> NoRoute, prefix |-> -1]

\* One turn of the loop: a longer prefix, and only a longer one, takes over.
Better(best, r, addr) ==
    IF r # NoRoute /\ RouteLookup(r, addr) > best.prefix
    THEN [route |-> r, prefix |-> RouteLookup(r, addr)] ELSE best

\* What the loop has after each number of slots.
Scan(t, addr) ==
    LET best[n \in 0 .. TableSize] ==
            IF n = 0 THEN NoBest ELSE Better(best[n - 1], t[n - 1], addr)
    IN  best

TableLookup(t, addr) == Scan(t, addr)[TableSize].route

\* The next hop ipv4_send resolves: the gateway, or the destination itself.
NextHop(r, dst) == IF r.gateway = Zero THEN dst ELSE r.gateway

=============================================================================
