-------------------------- MODULE Ipv4RouteTableProofs --------------------------
(***************************************************************************)
(* What the operations of the IPv4 route table return and preserve, for    *)
(* tables and addresses of every size.                                     *)
(*                                                                         *)
(* The scan of ipv4_route_table_lookup is a function defined by recursion. *)
(* That it exists, and what it has after each slot, is proved by taking    *)
(* the least number of slots for which it would not be so.                 *)
(***************************************************************************)
EXTENDS Ipv4RouteTable, OrderProofs, FiniteSetTheorems

---------------------------------------------------------------------------
(* The length of a mask.                                                   *)

LEMMA BitsFinite == IsFiniteSet(Bits)
<1>1. Octets * OctetBits \in Nat
  BY OctetsAssumption, OctetBitsAssumption
<1>2. QED
  BY <1>1, FS_Interval DEF Bits

\* The length of a mask is a number.
LEMMA LengthType ==
    ASSUME NEW mask \in Address
    PROVE  MaskLength(mask) \in Nat
<1>1. UNION {Counted(mask, k) : k \in 1 .. Octets} \subseteq Bits
  BY DEF Counted, Address
<1>2. QED
  BY <1>1, BitsFinite, FS_Subset, FS_CardinalityType DEF MaskLength

\* Every bit of an address is in one of its octets: in the first that does not
\* end before it.
LEMMA BitHasOctet ==
    ASSUME NEW b \in Bits
    PROVE  \E k \in 1 .. Octets : b \in Octet(k)
<1> DEFINE Reaching == {k \in Nat : b <= k * OctetBits}
<1>1. Octets \in Reaching /\ b \in Nat /\ b >= 1
  BY OctetsAssumption, OctetBitsAssumption DEF Bits
<1>2. PICK k \in Nat : k \in Reaching /\ \A j \in Reaching : k <= j
  BY <1>1, MinIsLeast
<1>3. k # 0
  BY <1>1, <1>2, OctetBitsAssumption
<1>4. k - 1 \in Nat /\ k - 1 \notin Reaching /\ k <= Octets
  BY <1>1, <1>2, <1>3
<1>5. (k - 1) * OctetBits \in Nat /\ k * OctetBits \in Nat
  BY <1>4, OctetBitsAssumption
<1>6. (k - 1) * OctetBits < b /\ b <= k * OctetBits
  BY <1>1, <1>2, <1>4, <1>5
<1>7. QED
  BY <1>1, <1>3, <1>4, <1>5, <1>6, OctetsAssumption DEF Octet

\* In an octet of a mask whose ones come first, the ones come first.
LEMMA PrefixOctet ==
    ASSUME NEW n \in Nat, NEW k \in 1 .. Octets
    PROVE  Counted(1 .. n, k) = (1 .. n) \cap Octet(k)
<1> DEFINE before == (k - 1) * OctetBits
<1>1. k - 1 \in Nat /\ k \in Nat
  BY OctetsAssumption
<1>2. before \in Nat /\ k * OctetBits = before + OctetBits /\ OctetBits \in Nat
  BY <1>1, OctetBitsAssumption
<1> HIDE DEF before
<1>3. Octet(k) = before + 1 .. before + OctetBits
  BY <1>2 DEF Octet, before
<1>4. \A m : Leading(k, m) = before + 1 .. before + m
  BY DEF Leading, before
<1>5. \E m \in 0 .. OctetBits : (1 .. n) \cap Octet(k) = Leading(k, m)
  <2>1. CASE n <= before
    <3>1. (1 .. n) \cap Octet(k) = {}
      BY <1>2, <1>3, <2>1
    <3>2. 0 \in 0 .. OctetBits /\ Leading(k, 0) = {}
      BY <1>2, <1>4
    <3>3. QED
      BY <3>1, <3>2
  <2>2. CASE before < n /\ n <= before + OctetBits
    <3>1. n - before \in 0 .. OctetBits
      BY <1>2, <2>2
    <3>2. (1 .. n) \cap Octet(k) = before + 1 .. before + (n - before)
      BY <1>2, <1>3, <2>2
    <3>3. QED
      BY <1>4, <3>1, <3>2
  <2>3. CASE before + OctetBits < n
    <3>1. (1 .. n) \cap Octet(k) = before + 1 .. before + OctetBits
      BY <1>2, <1>3, <2>3
    <3>2. QED
      BY <1>2, <1>4, <3>1
  <2>4. QED
    BY <1>2, <2>1, <2>2, <2>3
<1>6. QED
  BY <1>5 DEF Counted

\* The length of a mask whose ones come first is the number of its ones.
LEMMA PrefixLength ==
    ASSUME NEW n \in Nat, n <= Octets * OctetBits
    PROVE  MaskLength(1 .. n) = n
<1>1. Octets * OctetBits \in Nat
  BY OctetsAssumption, OctetBitsAssumption
<1>2. 1 .. n \subseteq Bits
  BY <1>1 DEF Bits
<1>3. UNION {Counted(1 .. n, k) : k \in 1 .. Octets} = 1 .. n
  <2>1. ASSUME NEW b \in 1 .. n
        PROVE  \E k \in 1 .. Octets : b \in Counted(1 .. n, k)
    BY <1>2, BitHasOctet, PrefixOctet
  <2>2. \A k \in 1 .. Octets : Counted(1 .. n, k) \subseteq 1 .. n
    BY PrefixOctet
  <2>3. QED
    BY <2>1, <2>2
<1>4. Cardinality(1 .. n) = n
  BY FS_Interval
<1>5. QED
  BY <1>3, <1>4 DEF MaskLength

\* Of two such masks the one that is not shorter has all the ones of the other.
IsPrefix(mask) == \E n \in Nat : n <= Octets * OctetBits /\ mask = 1 .. n

LEMMA LongerHasAll ==
    ASSUME NEW a, NEW b, IsPrefix(a), IsPrefix(b), MaskLength(a) <= MaskLength(b)
    PROVE  a \subseteq b
<1>1. PICK m \in Nat : m <= Octets * OctetBits /\ a = 1 .. m
  BY DEF IsPrefix
<1>2. PICK n \in Nat : n <= Octets * OctetBits /\ b = 1 .. n
  BY DEF IsPrefix
<1>3. m <= n
  BY <1>1, <1>2, PrefixLength
<1>4. QED
  BY <1>1, <1>2, <1>3

---------------------------------------------------------------------------
(* The scan of ipv4_route_table_lookup.                                    *)

IsScan(b, t, addr, n) ==
    b = [k \in 0 .. n |-> IF k = 0 THEN NoBest ELSE Better(b[k - 1], t[k - 1], addr)]

\* A scan of one slot more.
LEMMA ScanGoesOn ==
    ASSUME NEW t, NEW addr, NEW n \in Nat, NEW b, IsScan(b, t, addr, n)
    PROVE  \E c : IsScan(c, t, addr, n + 1)
<1> DEFINE c == [k \in 0 .. n + 1 |-> IF k = n + 1 THEN Better(b[n], t[n], addr) ELSE b[k]]
<1>1. \A k \in 0 .. n : c[k] = b[k]
  OBVIOUS
<1>2. \A k \in 0 .. n : b[k] = IF k = 0 THEN NoBest ELSE Better(b[k - 1], t[k - 1], addr)
  BY DEF IsScan
<1>3. ASSUME NEW k \in 0 .. n + 1
      PROVE  c[k] = IF k = 0 THEN NoBest ELSE Better(c[k - 1], t[k - 1], addr)
  <2>1. CASE k = n + 1
    <3>1. k # 0 /\ k - 1 = n /\ n \in 0 .. n
      BY <2>1
    <3>2. c[k - 1] = b[n] /\ c[k] = Better(b[n], t[n], addr)
      BY <1>1, <2>1, <3>1
    <3>3. QED
      BY <3>1, <3>2
  <2>2. CASE k # n + 1
    <3>1. k \in 0 .. n /\ c[k] = b[k]
      BY <1>1, <2>2
    <3>2. k # 0 => k - 1 \in 0 .. n /\ c[k - 1] = b[k - 1]
      BY <1>1, <3>1
    <3>3. QED
      BY <1>2, <3>1, <3>2
  <2>3. QED
    BY <2>1, <2>2
<1> HIDE DEF c
<1>4. c = [k \in 0 .. n + 1 |-> c[k]]
  BY DEF c
<1>5. c = [k \in 0 .. n + 1 |-> IF k = 0 THEN NoBest ELSE Better(c[k - 1], t[k - 1], addr)]
  BY <1>3, <1>4
<1>6. QED
  BY <1>5 DEF IsScan

\* There is a scan of every number of slots.
LEMMA ScanExists ==
    ASSUME NEW t, NEW addr, NEW n \in Nat
    PROVE  \E b : IsScan(b, t, addr, n)
<1> DEFINE Bad == {m \in Nat : ~ \E b : IsScan(b, t, addr, m)}
<1>1. CASE Bad = {}
  BY <1>1
<1>2. CASE Bad # {}
  <2>1. PICK m \in Bad : \A j \in Bad : m <= j
    BY <1>2, MinIsLeast
  <2>2. CASE m = 0
    <3> DEFINE b == [k \in 0 .. 0 |-> NoBest]
    <3>1. b = [k \in 0 .. 0 |-> IF k = 0 THEN NoBest
                                ELSE Better(b[k - 1], t[k - 1], addr)]
      OBVIOUS
    <3>2. QED
      BY <2>1, <2>2, <3>1 DEF IsScan
  <2>3. CASE m # 0
    <3>1. m - 1 \in Nat /\ m - 1 \notin Bad /\ (m - 1) + 1 = m
      BY <2>1, <2>3
    <3>2. PICK b : IsScan(b, t, addr, m - 1)
      BY <3>1
    <3>3. QED
      BY <2>1, <3>1, <3>2, ScanGoesOn
  <2>4. QED
    BY <2>2, <2>3
<1>3. QED
  BY <1>1, <1>2

\* The loop, turn by turn.
LEMMA ScanSteps ==
    ASSUME NEW t, NEW addr
    PROVE  /\ Scan(t, addr)[0] = NoBest
           /\ \A n \in 1 .. TableSize :
                Scan(t, addr)[n] = Better(Scan(t, addr)[n - 1], t[n - 1], addr)
<1>1. Scan(t, addr) = CHOOSE b : IsScan(b, t, addr, TableSize)
  BY DEF Scan, IsScan
<1>2. \E b : IsScan(b, t, addr, TableSize)
  BY ScanExists, TableSizeAssumption
<1>3. IsScan(Scan(t, addr), t, addr, TableSize)
  BY <1>1, <1>2
<1> DEFINE b == Scan(t, addr)
<1> HIDE DEF b
<1>4. b = [k \in 0 .. TableSize |->
             IF k = 0 THEN NoBest ELSE Better(b[k - 1], t[k - 1], addr)]
  BY <1>3 DEF IsScan, b
<1>5. b[0] = NoBest
  BY <1>4, TableSizeAssumption
<1>6. \A n \in 1 .. TableSize : b[n] = Better(b[n - 1], t[n - 1], addr)
  BY <1>4, TableSizeAssumption
<1>7. QED
  BY <1>5, <1>6 DEF b

---------------------------------------------------------------------------
(* What the search finds.                                                  *)

\* The slots whose subnet the address belongs to.
Matched(t, addr) == {s \in Occupied(t) : addr \cap t[s].mask = t[s].subnet}

LengthAt(t, s) == MaskLength(t[s].mask)

\* Of the slots below n that match, s is the first of the longest masks.
FirstBest(t, addr, n, s) ==
    /\ s \in Matched(t, addr) /\ s < n
    /\ \A q \in Matched(t, addr) :
          /\ q < n => LengthAt(t, q) <= LengthAt(t, s)
          /\ q < s => LengthAt(t, q) < LengthAt(t, s)

\* What the loop should have after n slots.
BestOf(best, t, addr, n) ==
    \/ best = NoBest /\ \A q \in Matched(t, addr) : q >= n
    \/ \E s : FirstBest(t, addr, n, s)
              /\ best = [route |-> t[s], prefix |-> LengthAt(t, s)]

LEMMA MatchedLength ==
    ASSUME NEW t \in Tables, NEW addr
    PROVE  /\ Matched(t, addr) \subseteq Slots
           /\ \A s \in Matched(t, addr) : t[s] \in Route /\ LengthAt(t, s) \in Nat
<1>1. \A s \in Matched(t, addr) : s \in Slots /\ t[s] \in Route
  BY DEF Matched, Occupied, Tables
<1>2. \A s \in Matched(t, addr) : t[s].mask \in Address
  BY <1>1 DEF Route
<1>3. QED
  BY <1>1, <1>2, LengthType DEF LengthAt

\* One slot more.
LEMMA TurnKeepsBest ==
    ASSUME NEW t \in Tables, NEW addr, NEW n \in Slots, NEW best,
           BestOf(best, t, addr, n)
    PROVE  BestOf(Better(best, t[n], addr), t, addr, n + 1)
<1> DEFINE M == Matched(t, addr)
           next == Better(best, t[n], addr)
<1>0. n \in Nat /\ M \subseteq Nat
  BY MatchedLength, TableSizeAssumption DEF Slots
<1>1. \A s \in M : LengthAt(t, s) \in Nat
  BY MatchedLength
<1>2. CASE n \notin M
  <2>1. t[n] = NoRoute \/ RouteLookup(t[n], addr) = -1
    BY <1>2 DEF Matched, Occupied, RouteLookup
  <2>2. best.prefix \in Nat \cup {-1}
    BY <1>1 DEF BestOf, FirstBest, NoBest
  <2>3. next = best
    BY <2>1, <2>2 DEF Better
  <2>4. \A q \in M : (q < n + 1 <=> q < n) /\ (q >= n + 1 <=> q >= n)
    BY <1>0, <1>2
  <2>5. CASE best = NoBest /\ \A q \in M : q >= n
    BY <2>3, <2>4, <2>5 DEF BestOf
  <2>6. CASE \E s : FirstBest(t, addr, n, s)
                    /\ best = [route |-> t[s], prefix |-> LengthAt(t, s)]
    <3>1. PICK s : FirstBest(t, addr, n, s)
                   /\ best = [route |-> t[s], prefix |-> LengthAt(t, s)]
      BY <2>6
    <3>2. FirstBest(t, addr, n + 1, s)
      BY <2>4, <3>1 DEF FirstBest
    <3>3. QED
      BY <2>3, <3>1, <3>2 DEF BestOf
  <2>7. QED
    BY <2>5, <2>6 DEF BestOf
<1>3. CASE n \in M
  <2>1. t[n] # NoRoute /\ RouteLookup(t[n], addr) = LengthAt(t, n)
    BY <1>3 DEF Matched, Occupied, RouteLookup, LengthAt
  <2>2. \A q \in M : q < n + 1 <=> q < n \/ q = n
    BY <1>0
  <2> DEFINE mine == [route |-> t[n], prefix |-> LengthAt(t, n)]
  <2>3. next = IF LengthAt(t, n) > best.prefix THEN mine ELSE best
    BY <2>1 DEF Better
  <2>4. CASE best = NoBest /\ \A q \in M : q >= n
    <3>1. best.prefix = -1
      BY <2>4 DEF NoBest
    <3>2. next = mine
      BY <1>1, <1>3, <2>3, <3>1
    <3>3. \A q \in M : (q < n + 1 => q = n) /\ ~(q < n)
      BY <1>0, <2>4
    <3>4. FirstBest(t, addr, n + 1, n)
      BY <1>0, <1>1, <1>3, <3>3 DEF FirstBest
    <3>5. QED
      BY <3>2, <3>4 DEF BestOf
  <2>5. CASE \E s : FirstBest(t, addr, n, s)
                    /\ best = [route |-> t[s], prefix |-> LengthAt(t, s)]
    <3>1. PICK s : FirstBest(t, addr, n, s)
                   /\ best = [route |-> t[s], prefix |-> LengthAt(t, s)]
      BY <2>5
    <3>2. s \in M /\ s < n /\ s \in Nat /\ best.prefix = LengthAt(t, s)
      BY <1>0, <3>1 DEF FirstBest
    <3>3. \A q \in M : /\ q < n => LengthAt(t, q) <= LengthAt(t, s)
                       /\ q < s => LengthAt(t, q) < LengthAt(t, s)
      BY <3>1 DEF FirstBest
    <3>4. CASE LengthAt(t, n) > LengthAt(t, s)
      <4>1. next = mine
        BY <2>3, <3>2, <3>4
      <4>2. \A q \in M : q < n => LengthAt(t, q) < LengthAt(t, n)
        BY <1>1, <1>3, <3>2, <3>3, <3>4
      <4>3. \A q \in M : q < n + 1 => LengthAt(t, q) <= LengthAt(t, n)
        BY <1>1, <1>3, <2>2, <4>2
      <4>4. FirstBest(t, addr, n + 1, n)
        BY <1>0, <1>3, <4>2, <4>3 DEF FirstBest
      <4>5. QED
        BY <4>1, <4>4 DEF BestOf
    <3>5. CASE ~(LengthAt(t, n) > LengthAt(t, s))
      <4>1. next = best
        BY <2>3, <3>2, <3>5
      <4>2. LengthAt(t, n) <= LengthAt(t, s)
        BY <1>1, <1>3, <3>2, <3>5
      <4>3. FirstBest(t, addr, n + 1, s)
        BY <1>0, <2>2, <3>2, <3>3, <4>2 DEF FirstBest
      <4>4. QED
        BY <3>1, <4>1, <4>3 DEF BestOf
    <3>6. QED
      BY <3>4, <3>5
  <2>6. QED
    BY <2>4, <2>5 DEF BestOf
<1>4. QED
  BY <1>2, <1>3

\* After every number of slots the loop has the first of the longest masks that
\* match.
LEMMA ScanFindsBest ==
    ASSUME NEW t \in Tables, NEW addr, NEW n \in 0 .. TableSize
    PROVE  BestOf(Scan(t, addr)[n], t, addr, n)
<1> DEFINE Good(m) == BestOf(Scan(t, addr)[m], t, addr, m)
           Bad == {m \in 0 .. TableSize : ~Good(m)}
<1>0. 0 .. TableSize \subseteq Nat
  BY TableSizeAssumption
<1>1. Good(0)
  <2>1. \A q \in Matched(t, addr) : q >= 0
    BY MatchedLength, TableSizeAssumption DEF Slots
  <2>2. QED
    BY <2>1, ScanSteps DEF BestOf
<1>2. ASSUME NEW m \in 1 .. TableSize, Good(m - 1)
      PROVE  Good(m)
  <2>1. m - 1 \in Slots /\ (m - 1) + 1 = m
    BY TableSizeAssumption DEF Slots
  <2>2. Scan(t, addr)[m] = Better(Scan(t, addr)[m - 1], t[m - 1], addr)
    BY ScanSteps
  <2>3. BestOf(Better(Scan(t, addr)[m - 1], t[m - 1], addr), t, addr, (m - 1) + 1)
    BY <1>2, <2>1, TurnKeepsBest
  <2>4. QED
    BY <2>1, <2>2, <2>3
<1> HIDE DEF Good
<1>3. CASE Bad # {}
  <2>1. PICK m \in Bad : \A j \in Bad : m <= j
    BY <1>0, <1>3, MinIsLeast
  <2>2. m \in 1 .. TableSize
    BY <1>1, <2>1, TableSizeAssumption
  <2>3. m - 1 \in 0 .. TableSize /\ m - 1 \notin Bad
    BY <2>1, <2>2, TableSizeAssumption
  <2>4. QED
    BY <1>2, <2>1, <2>2, <2>3
<1>4. CASE Bad = {}
  BY <1>4 DEF Good
<1>5. QED
  BY <1>3, <1>4

\* ipv4_route_table_lookup returns the route in the first slot of those with the
\* longest mask that match, and NULL only if none does.
THEOREM LookupIsBest ==
    ASSUME NEW t \in Tables, NEW addr
    PROVE  \/ TableLookup(t, addr) = NoRoute /\ Matched(t, addr) = {}
           \/ \E s \in Matched(t, addr) :
                /\ TableLookup(t, addr) = t[s]
                /\ FirstBest(t, addr, TableSize, s)
<1>1. BestOf(Scan(t, addr)[TableSize], t, addr, TableSize)
  BY ScanFindsBest, TableSizeAssumption
<1>2. \A q \in Matched(t, addr) : q \in Nat /\ q < TableSize
  BY MatchedLength, TableSizeAssumption DEF Slots
<1>3. CASE /\ Scan(t, addr)[TableSize] = NoBest
           /\ \A q \in Matched(t, addr) : q >= TableSize
  <2>1. Matched(t, addr) = {}
    BY <1>2, <1>3, TableSizeAssumption
  <2>2. QED
    BY <1>3, <2>1 DEF TableLookup, NoBest
<1>4. CASE \E s : /\ FirstBest(t, addr, TableSize, s)
                  /\ Scan(t, addr)[TableSize] = [route |-> t[s], prefix |-> LengthAt(t, s)]
  BY <1>4 DEF TableLookup, FirstBest
<1>5. QED
  BY <1>1, <1>3, <1>4 DEF BestOf

\* There is one such slot.
LEMMA FirstBestUnique ==
    ASSUME NEW t \in Tables, NEW addr, NEW s, NEW q,
           FirstBest(t, addr, TableSize, s), FirstBest(t, addr, TableSize, q)
    PROVE  s = q
<1>1. s \in Matched(t, addr) /\ q \in Matched(t, addr)
  BY DEF FirstBest
<1>2. s \in Nat /\ q \in Nat /\ LengthAt(t, s) \in Nat /\ LengthAt(t, q) \in Nat
  BY <1>1, MatchedLength, TableSizeAssumption DEF Slots
<1>3. /\ s < TableSize /\ q < TableSize
      /\ q < TableSize => LengthAt(t, q) <= LengthAt(t, s)
      /\ s < TableSize => LengthAt(t, s) <= LengthAt(t, q)
      /\ q < s => LengthAt(t, q) < LengthAt(t, s)
      /\ s < q => LengthAt(t, s) < LengthAt(t, q)
  BY <1>1 DEF FirstBest
<1>4. QED
  BY <1>2, <1>3

\* What the search returns is a route, or NULL.
LEMMA LookupType ==
    ASSUME NEW t \in Tables, NEW addr
    PROVE  TableLookup(t, addr) \in Route \cup {NoRoute}
BY LookupIsBest, MatchedLength

---------------------------------------------------------------------------
(* Add and remove.                                                         *)

\* ipv4_route_table_add puts the route in an empty slot, or changes nothing.
LEMMA AddAdds ==
    ASSUME NEW t \in Tables, NEW r \in Route
    PROVE  \/ Free(t) = {} /\ Add(t, r) = t
           \/ \E s \in Slots : t[s] = NoRoute /\ Add(t, r) = [t EXCEPT ![s] = r]
<1>1. CASE Free(t) = {}
  BY <1>1 DEF Add
<1>2. CASE Free(t) # {}
  <2>1. Free(t) \subseteq Nat
    BY TableSizeAssumption DEF Free, Slots
  <2>2. Min(Free(t)) \in Free(t)
    BY <1>2, <2>1, MinIsLeast
  <2>3. QED
    BY <1>2, <2>2 DEF Add, AddIndex, Free
<1>3. QED
  BY <1>1, <1>2

=============================================================================
