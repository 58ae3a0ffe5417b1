--------------------------- MODULE RipRouteTableProofs ---------------------------
(***************************************************************************)
(* What the operations of the RIP route table return and preserve, for     *)
(* tables of every size.                                                   *)
(***************************************************************************)
EXTENDS RipRouteTable, OrderProofs

\* ripv2_route_table_find returns -1 exactly when the subnet has no route,
\* and otherwise a slot that holds a route of the subnet.
LEMMA FindFinds ==
    ASSUME NEW t \in Tables, NEW p \in Prefix
    PROVE  \/ Find(t, p) = -1 /\ Matching(t, p) = {}
           \/ /\ Find(t, p) \in Slots
              /\ t[Find(t, p)] \in Route
              /\ t[Find(t, p)] # NoRoute
              /\ t[Find(t, p)].prefix = p
<1>1. CASE Matching(t, p) = {}
  BY <1>1 DEF Find
<1>2. CASE Matching(t, p) # {}
  <2>1. Matching(t, p) \subseteq Nat
    BY TableSizeAssumption DEF Matching, Occupied, Slots
  <2>2. Min(Matching(t, p)) \in Matching(t, p)
    BY <1>2, <2>1, MinIsLeast
  <2>3. Find(t, p) \in Matching(t, p)
    BY <1>2, <2>2 DEF Find
  <2>4. QED
    BY <2>3 DEF Matching, Occupied, Tables
<1>3. QED
  BY <1>1, <1>2

\* ripv2_route_table_add puts the route in an empty slot, or changes nothing.
LEMMA AddAdds ==
    ASSUME NEW t \in Tables, NEW r \in Route
    PROVE  \/ Add(t, r) = t
           \/ \E s \in Slots : t[s] = NoRoute /\ Add(t, r) = [t EXCEPT ![s] = r]
<1>1. CASE Free(t) = {}
  BY <1>1 DEF Add
<1>2. CASE Free(t) # {}
  <2>1. Free(t) \subseteq Nat
    BY TableSizeAssumption DEF Free, Slots
  <2>2. Min(Free(t)) \in Free(t)
    BY <1>2, <2>1, MinIsLeast
  <2>3. QED
    BY <1>2, <2>2 DEF Add, Free
<1>3. QED
  BY <1>1, <1>2

\* ripv2_route_table_add keeps the table in type.
LEMMA AddType ==
    ASSUME NEW t \in Tables, NEW r \in Route
    PROVE  Add(t, r) \in Tables
BY AddAdds DEF Tables

\* review_table_timers keeps the table in type.
LEMMA RemoveExpiredType ==
    ASSUME NEW t \in Tables
    PROVE  RemoveExpired(t) \in Tables
BY DEF Tables, RemoveExpired

\* A tick keeps a route's timer in its range.
LEMMA OlderType ==
    ASSUME NEW n \in Timers
    PROVE  /\ Older(n) \in Timers
           /\ Older(n) = InfiniteTimeout <=> n = InfiniteTimeout
BY RouteTimeoutAssumption DEF Timers, Older, InfiniteTimeout

\* A tick changes nothing of a route but its timer.
LEMMA AgedRoute ==
    ASSUME NEW t \in Tables, NEW s \in Slots
    PROVE  /\ t[s] = NoRoute => Aged(t)[s] = NoRoute
           /\ t[s] # NoRoute =>
                /\ Aged(t)[s] \in Route
                /\ Aged(t)[s] # NoRoute
                /\ Aged(t)[s].prefix = t[s].prefix
                /\ Aged(t)[s].nextHop = t[s].nextHop
                /\ Aged(t)[s].metric = t[s].metric
                /\ Aged(t)[s].timer = Older(t[s].timer)
<1>1. CASE t[s] = NoRoute
  BY <1>1 DEF Aged
<1>2. CASE t[s] # NoRoute
  <2>1. t[s] \in Route
    BY <1>2 DEF Tables
  <2>2. Older(t[s].timer) \in Timers
    BY <2>1, OlderType DEF Route
  <2>3. Aged(t)[s] = [t[s] EXCEPT !.timer = Older(@)]
    BY <1>2 DEF Aged
  <2>4. Aged(t)[s] \in Route
    BY <2>1, <2>2, <2>3 DEF Route
  <2>5. QED
    BY <1>2, <2>1, <2>3, <2>4, NoRouteAssumption DEF Route
<1>3. QED
  BY <1>1, <1>2

\* A tick keeps the table in type.
LEMMA AgedType ==
    ASSUME NEW t \in Tables
    PROVE  Aged(t) \in Tables
<1>1. \A s \in Slots : Aged(t)[s] \in Route \cup {NoRoute}
  BY AgedRoute
<1>2. Aged(t) = [s \in Slots |-> Aged(t)[s]]
  BY DEF Aged
<1>3. QED
  BY <1>1, <1>2 DEF Tables

\* The timeout main gives to udp_recv is in range and no longer than what any
\* route has left.
LEMMA NextTimeoutIsLeast ==
    ASSUME NEW t \in Tables
    PROVE  /\ NextTimeout(t) \in Timers
           /\ \A s \in Slots : t[s] # NoRoute /\ Finite(t[s]) =>
                 NextTimeout(t) # InfiniteTimeout /\ NextTimeout(t) <= t[s].timer
<1>1. FiniteTimers(t) \subseteq Timers \ {InfiniteTimeout}
  BY DEF FiniteTimers, Occupied, Finite, Tables, Route
<1>2. FiniteTimers(t) \subseteq Nat
  BY <1>1, RouteTimeoutAssumption DEF Timers, InfiniteTimeout
<1>3. ASSUME NEW s \in Slots, t[s] # NoRoute, Finite(t[s])
      PROVE  t[s].timer \in FiniteTimers(t)
  BY <1>3 DEF FiniteTimers, Occupied
<1>4. CASE FiniteTimers(t) = {}
  BY <1>3, <1>4, RouteTimeoutAssumption DEF NextTimeout, Timers, InfiniteTimeout
<1>5. CASE FiniteTimers(t) # {}
  <2>1. /\ Min(FiniteTimers(t)) \in FiniteTimers(t)
        /\ \A y \in FiniteTimers(t) : Min(FiniteTimers(t)) <= y
    BY <1>2, <1>5, MinIsLeast
  <2>2. NextTimeout(t) = Min(FiniteTimers(t))
    BY <1>5 DEF NextTimeout
  <2>3. QED
    BY <1>1, <1>3, <2>1, <2>2
<1>6. QED
  BY <1>4, <1>5

\* What a table advertises is in type.
LEMMA AdvertisedType ==
    ASSUME NEW t \in Tables
    PROVE  Advertised(t) \in SUBSET (Prefix \X Nat)
BY DEF Advertised, Occupied, Tables, Route

\* The review only takes away from what the table advertises, a tick leaves
\* it as it was.
LEMMA AdvertisedAfter ==
    ASSUME NEW t \in Tables
    PROVE  /\ Advertised(RemoveExpired(t)) \subseteq Advertised(t)
           /\ Advertised(Aged(t)) = Advertised(t)
<1>1. Advertised(RemoveExpired(t)) \subseteq Advertised(t)
  BY DEF Advertised, Occupied, RemoveExpired
<1>2. Occupied(Aged(t)) = Occupied(t)
  BY AgedRoute DEF Occupied
<1>3. \A s \in Occupied(t) : /\ Aged(t)[s].prefix = t[s].prefix
                             /\ Aged(t)[s].metric = t[s].metric
  BY AgedRoute DEF Occupied
<1>4. QED
  BY <1>1, <1>2, <1>3 DEF Advertised

=============================================================================
