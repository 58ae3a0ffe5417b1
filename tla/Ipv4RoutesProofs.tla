---------------------------- MODULE Ipv4RoutesProofs ----------------------------
(***************************************************************************)
(* Proofs about Ipv4Routes, for tables and addresses of every size, every  *)
(* file and every sequence of adds and removes.                            *)
(***************************************************************************)
EXTENDS Ipv4Routes, Ipv4RouteTableProofs, SequenceTheorems

---------------------------------------------------------------------------
(* The type.                                                               *)

\* The inductive invariant: while the file is read, read_routes is the number
\* of routes in the table, which is why it never exceeds the slots.
CountIsRoutes == reading => readRoutes = Cardinality(Occupied(table))

Counting == TypeOK /\ CountIsRoutes

LEMMA SlotsFinite == IsFiniteSet(Slots) /\ Cardinality(Slots) = TableSize
<1>1. 0 \in Int /\ TableSize - 1 \in Int
  BY TableSizeAssumption
<1>2. IsFiniteSet(0 .. TableSize - 1)
  BY <1>1, FS_Interval
<1>3. Cardinality(0 .. TableSize - 1) = TableSize
  BY <1>1, FS_Interval, TableSizeAssumption
<1>4. QED
  BY <1>2, <1>3 DEF Slots

\* A route is added to a table that has room for it.
LEMMA AddCounts ==
    ASSUME NEW t \in Tables, NEW r \in Route, Free(t) # {}
    PROVE  /\ Add(t, r) \in Tables
           /\ Cardinality(Occupied(t)) + 1 \in 0 .. TableSize
           /\ Cardinality(Occupied(Add(t, r))) = Cardinality(Occupied(t)) + 1
<1>1. PICK s \in Slots : t[s] = NoRoute /\ Add(t, r) = [t EXCEPT ![s] = r]
  BY AddAdds
<1>2. Add(t, r) \in Tables
  BY <1>1 DEF Tables
<1>3. Occupied(Add(t, r)) = Occupied(t) \cup {s} /\ s \notin Occupied(t)
  BY <1>1, NoRouteAssumption DEF Occupied, Tables
<1>4. IsFiniteSet(Occupied(t)) /\ IsFiniteSet(Occupied(Add(t, r)))
  BY SlotsFinite, FS_Subset DEF Occupied
<1>5. Cardinality(Occupied(Add(t, r))) = Cardinality(Occupied(t)) + 1
  BY <1>3, <1>4, FS_AddElement
<1>6. Cardinality(Occupied(Add(t, r))) <= TableSize
  BY SlotsFinite, FS_Subset DEF Occupied
<1>7. Cardinality(Occupied(t)) \in Nat
  BY <1>4, FS_CardinalityType
<1>8. QED
  BY <1>2, <1>5, <1>6, <1>7, TableSizeAssumption

\* Adds and removes of every kind keep the table in type.
LEMMA TableOperations ==
    ASSUME NEW t \in Tables
    PROVE  /\ \A r \in Route : Add(t, r) \in Tables
           /\ \A i : Remove(t, i) \in Tables
<1>1. \A r \in Route : Add(t, r) \in Tables
  BY AddAdds DEF Tables
<1>2. \A i : Remove(t, i) \in Tables
  BY DEF Remove, Tables
<1>3. QED
  BY <1>1, <1>2

LEMMA InitCounting == Init => Counting
<1> SUFFICES ASSUME Init PROVE Counting
  OBVIOUS
<1>1. table \in Tables /\ Occupied(table) = {}
  BY DEF Init, EmptyTable, Tables, Occupied
<1>2. lines \in Seq(Route \cup {BadLine}) /\ readRoutes \in -1 .. TableSize
  BY FilesAssumption, TableSizeAssumption DEF Init
<1>3. Cardinality(Occupied(table)) = 0
  BY <1>1, FS_EmptySet
<1>4. QED
  BY <1>1, <1>2, <1>3 DEF Init, Counting, CountIsRoutes, TypeOK

LEMMA NextCounting == Counting /\ [Next]_vars => Counting'
<1> SUFFICES ASSUME Counting, [Next]_vars PROVE Counting'
  OBVIOUS
<1>0. TypeOK
  BY DEF Counting
<1> USE DEF Counting, CountIsRoutes, TypeOK
<1>1. CASE ReadRoute
  <2>1. lines # <<>> /\ Head(lines) \in Route /\ Tail(lines) \in Seq(Route \cup {BadLine})
    BY <1>0, <1>1, HeadTailProperties DEF ReadRoute
  <2>2. table' = Add(table, Head(lines)) /\ readRoutes' = readRoutes + 1
        /\ lines' = Tail(lines) /\ reading /\ reading' = reading /\ Free(table) # {}
    BY <1>1 DEF ReadRoute
  <2>3. table' \in Tables /\ readRoutes' = Cardinality(Occupied(table'))
        /\ readRoutes' \in 0 .. TableSize
    BY <1>0, <2>1, <2>2, AddCounts
  <2>4. readRoutes' \in -1 .. TableSize
    BY <2>3, TableSizeAssumption
  <2>5. QED
    BY <1>0, <2>1, <2>2, <2>3, <2>4
<1>2. CASE ReadFails
  <2>1. lines' \in Seq(Route \cup {BadLine})
    BY <1>2, EmptySeq DEF ReadFails
  <2>2. readRoutes' \in -1 .. TableSize
    BY <1>2, TableSizeAssumption DEF ReadFails
  <2>3. QED
    BY <1>0, <1>2, <2>1, <2>2 DEF ReadFails
<1>3. CASE ReadDone
  BY <1>0, <1>3 DEF ReadDone
<1>4. CASE AddRoute
  <2>1. table' \in Tables
    BY <1>0, <1>4, TableOperations, RoutesAssumption DEF AddRoute
  <2>2. QED
    BY <1>0, <1>4, <2>1 DEF AddRoute
<1>5. CASE RemoveRoute \/ RemoveFound
  <2>1. table' \in Tables
    BY <1>0, <1>5, TableOperations DEF RemoveRoute, RemoveFound
  <2>2. QED
    BY <1>0, <1>5, <2>1 DEF RemoveRoute, RemoveFound
<1>6. CASE UNCHANGED vars
  BY <1>0, <1>6 DEF vars
<1>7. QED
  BY <1>1, <1>2, <1>3, <1>4, <1>5, <1>6 DEF Next

\* The table and what its reader returns are in type, whatever the file; while the
\* file is read the count that will be returned is the number of routes in the
\* table (ipv4_route_table.c:565-574).
THEOREM RoutesTypeCorrect == Spec => [](TypeOK /\ CountIsRoutes)
<1>1. Counting => TypeOK /\ CountIsRoutes
  BY DEF Counting
<1>2. QED
  BY <1>1, InitCounting, NextCounting, PTL DEF Spec

---------------------------------------------------------------------------
(* Longest-prefix match.                                                   *)

\* The hypothesis on what files and callers contain: the ones of a mask come
\* first.  Nothing in the code checks it; of masks with holes neither need have
\* all the ones of the other.
PrefixRoute == {r \in Route : IsPrefix(r.mask)}

MasksArePrefixes ==
    /\ Routes \subseteq PrefixRoute
    /\ Files \subseteq Seq(PrefixRoute \cup {BadLine})

PrefixMasks ==
    /\ lines \in Seq(PrefixRoute \cup {BadLine})
    /\ \A s \in Occupied(table) : table[s] \in PrefixRoute

\* An added route is the only one a table did not have before; a removed one is
\* the only one that goes.
LEMMA AddRemoveRoutes ==
    ASSUME NEW t \in Tables, NEW R, \A s \in Occupied(t) : t[s] \in R
    PROVE  /\ \A r \in Route : r \in R => \A s \in Occupied(Add(t, r)) : Add(t, r)[s] \in R
           /\ \A i : \A s \in Occupied(Remove(t, i)) : Remove(t, i)[s] \in R
<1>1. ASSUME NEW r \in Route, r \in R
      PROVE  \A s \in Occupied(Add(t, r)) : Add(t, r)[s] \in R
  <2>1. CASE Add(t, r) = t
    BY <2>1
  <2>2. CASE \E s \in Slots : t[s] = NoRoute /\ Add(t, r) = [t EXCEPT ![s] = r]
    BY <1>1, <2>2 DEF Occupied, Tables
  <2>3. QED
    BY <2>1, <2>2, AddAdds
<1>2. \A i : \A s \in Occupied(Remove(t, i)) : Remove(t, i)[s] \in R
  BY DEF Remove, Occupied, Tables
<1>3. QED
  BY <1>1, <1>2

LEMMA NextPrefixMasks ==
    ASSUME MasksArePrefixes
    PROVE  Counting /\ PrefixMasks /\ [Next]_vars => PrefixMasks'
<1> SUFFICES ASSUME Counting, PrefixMasks, [Next]_vars PROVE PrefixMasks'
  OBVIOUS
<1>0. table \in Tables /\ \A s \in Occupied(table) : table[s] \in PrefixRoute
  BY DEF Counting, TypeOK, PrefixMasks
<1>1. CASE ReadRoute
  <2>1. /\ lines # <<>> /\ Head(lines) # BadLine /\ lines' = Tail(lines)
        /\ table' = Add(table, Head(lines))
    BY <1>1 DEF ReadRoute
  <2>2. Head(lines) \in PrefixRoute /\ lines' \in Seq(PrefixRoute \cup {BadLine})
    BY <2>1, HeadTailProperties DEF PrefixMasks
  <2>3. Head(lines) \in Route
    BY <2>2 DEF PrefixRoute
  <2>4. QED
    BY <1>0, <2>1, <2>2, <2>3, AddRemoveRoutes DEF PrefixMasks
<1>2. CASE ReadFails \/ ReadDone
  <2>1. lines' \in Seq(PrefixRoute \cup {BadLine}) /\ table' = table
    BY <1>2, EmptySeq DEF ReadFails, ReadDone, PrefixMasks
  <2>2. QED
    BY <1>0, <2>1 DEF PrefixMasks
<1>3. CASE AddRoute
  <2>1. PICK r \in Routes : table' = Add(table, r)
    BY <1>3 DEF AddRoute
  <2>2. r \in Route /\ r \in PrefixRoute
    BY MasksArePrefixes DEF MasksArePrefixes, PrefixRoute
  <2>3. lines' \in Seq(PrefixRoute \cup {BadLine})
    BY <1>3 DEF AddRoute, PrefixMasks
  <2>4. QED
    BY <1>0, <2>1, <2>2, <2>3, AddRemoveRoutes DEF PrefixMasks
<1>4. CASE RemoveRoute \/ RemoveFound
  <2>1. \E i : table' = Remove(table, i)
    BY <1>4 DEF RemoveRoute, RemoveFound
  <2>2. lines' \in Seq(PrefixRoute \cup {BadLine})
    BY <1>4 DEF RemoveRoute, RemoveFound, PrefixMasks
  <2>3. QED
    BY <1>0, <2>1, <2>2, AddRemoveRoutes DEF PrefixMasks
<1>5. CASE UNCHANGED vars
  BY <1>0, <1>5 DEF vars, PrefixMasks
<1>6. QED
  BY <1>1, <1>2, <1>3, <1>4, <1>5 DEF Next

LEMMA InitPrefixMasks ==
    ASSUME MasksArePrefixes
    PROVE  Init => PrefixMasks
<1> SUFFICES ASSUME Init PROVE PrefixMasks
  OBVIOUS
<1>1. Occupied(table) = {}
  BY DEF Init, EmptyTable, Occupied
<1>2. lines \in Seq(PrefixRoute \cup {BadLine})
  BY MasksArePrefixes DEF Init, MasksArePrefixes
<1>3. QED
  BY <1>1, <1>2 DEF PrefixMasks

\* Where the ones of all masks come first, the route that is found has the
\* greatest mask of those that match.
LEMMA LongestHasAll == Counting /\ PrefixMasks => LookupMostSpecific
<1> SUFFICES ASSUME Counting, PrefixMasks, NEW addr \in Address
    PROVE  LET r == TableLookup(table, addr) IN
           /\ r = NoRoute <=> Matching(addr) = {}
           /\ r # NoRoute =>
                 /\ \E s \in Matching(addr) : table[s] = r
                 /\ \A s \in Matching(addr) : table[s].mask \subseteq r.mask
  BY DEF LookupMostSpecific
<1>0. table \in Tables
  BY DEF Counting, TypeOK
<1>1. Matching(addr) = Matched(table, addr)
  BY DEF Matching, Matched
<1>2. \A s \in Matching(addr) : s \in Slots /\ table[s] # NoRoute /\ IsPrefix(table[s].mask)
  BY <1>1 DEF PrefixMasks, PrefixRoute, Matched, Occupied
<1>3. CASE TableLookup(table, addr) = NoRoute /\ Matched(table, addr) = {}
  BY <1>1, <1>3
<1>4. CASE \E s \in Matched(table, addr) :
              /\ TableLookup(table, addr) = table[s]
              /\ FirstBest(table, addr, TableSize, s)
  <2>1. PICK s \in Matched(table, addr) : /\ TableLookup(table, addr) = table[s]
                                          /\ FirstBest(table, addr, TableSize, s)
    BY <1>4
  <2>2. ASSUME NEW q \in Matching(addr)
        PROVE  table[q].mask \subseteq table[s].mask
    <3>1. q < TableSize
      BY <1>2, TableSizeAssumption DEF Slots
    <3>2. MaskLength(table[q].mask) <= MaskLength(table[s].mask)
      BY <1>1, <2>1, <3>1 DEF FirstBest, LengthAt
    <3>3. QED
      BY <1>1, <1>2, <3>2, LongerHasAll
  <2>3. QED
    BY <1>1, <1>2, <2>1, <2>2
<1>5. QED
  BY <1>0, <1>3, <1>4, LookupIsBest

\* Whatever a table has been through, the search returns the most specific route
\* for an address, and NULL only if it has none.
THEOREM MostSpecificFound == MasksArePrefixes => (Spec => []LookupMostSpecific)
<1> SUFFICES ASSUME MasksArePrefixes PROVE Spec => []LookupMostSpecific
  OBVIOUS
<1>1. Init => Counting /\ PrefixMasks
  BY InitCounting, InitPrefixMasks
<1>2. Counting /\ PrefixMasks /\ [Next]_vars => (Counting /\ PrefixMasks)'
  BY NextCounting, NextPrefixMasks
<1>3. QED
  BY <1>1, <1>2, LongestHasAll, PTL DEF Spec

---------------------------------------------------------------------------
(* What an added route does to the traffic of the others.                  *)

LEMMA AddedTakesOnlyItsOwn ==
    ASSUME NEW t \in Tables, \A s \in Occupied(t) : t[s] \in PrefixRoute,
           NEW r \in PrefixRoute, Add(t, r) # t, NEW addr
    PROVE  LET old == TableLookup(t, addr)
               new == TableLookup(Add(t, r), addr)
           IN  /\ new \in {old, r}
               /\ (old # NoRoute /\ old.mask \ r.mask # {}) => new = old
<1> DEFINE u == Add(t, r)
<1>0. r \in Route /\ IsPrefix(r.mask)
  BY DEF PrefixRoute
<1>1. PICK a \in Slots : t[a] = NoRoute /\ u = [t EXCEPT ![a] = r]
  BY <1>0, AddAdds
<1>2. u \in Tables
  BY <1>0, <1>1 DEF Tables
<1>3. u[a] = r /\ \A s \in Slots : s # a => u[s] = t[s]
  BY <1>1 DEF Tables
<1>4. Matched(t, addr) = Matched(u, addr) \ {a}
  BY <1>0, <1>1, <1>3, NoRouteAssumption DEF Matched, Occupied
<1> HIDE DEF u
<1>5. CASE TableLookup(u, addr) = NoRoute /\ Matched(u, addr) = {}
  <2>1. Matched(t, addr) = {}
    BY <1>4, <1>5
  <2>2. TableLookup(t, addr) = NoRoute
    BY <2>1, LookupIsBest
  <2>3. QED
    BY <1>5, <2>2 DEF u
<1>6. CASE \E q \in Matched(u, addr) : /\ TableLookup(u, addr) = u[q]
                                       /\ FirstBest(u, addr, TableSize, q)
  <2>1. PICK q \in Matched(u, addr) : /\ TableLookup(u, addr) = u[q]
                                      /\ FirstBest(u, addr, TableSize, q)
    BY <1>6
  <2>2. CASE q = a
    <3>1. TableLookup(u, addr) = r
      BY <1>3, <2>1, <2>2
    <3>2. ASSUME TableLookup(t, addr) # NoRoute
          PROVE  TableLookup(t, addr).mask \subseteq r.mask
      <4>1. PICK s \in Matched(t, addr) : TableLookup(t, addr) = t[s]
        BY <3>2, LookupIsBest
      <4>2. s \in Matched(u, addr) /\ s # a /\ u[s] = t[s] /\ s \in Slots
        BY <1>3, <1>4, <4>1, MatchedLength
      <4>3. s < TableSize
        BY <4>2, TableSizeAssumption DEF Slots
      <4>4. MaskLength(t[s].mask) <= MaskLength(r.mask)
        BY <1>3, <2>1, <2>2, <4>2, <4>3 DEF FirstBest, LengthAt
      <4>5. IsPrefix(t[s].mask)
        BY <4>1 DEF Matched, PrefixRoute
      <4>6. QED
        BY <1>0, <4>1, <4>4, <4>5, LongerHasAll
    <3>3. QED
      BY <3>1, <3>2 DEF u
  <2>3. CASE q # a
    <3>1. q \in Matched(t, addr) /\ q < TableSize /\ u[q] = t[q]
      BY <1>3, <1>4, <2>1, <2>3, MatchedLength DEF FirstBest
    <3>2. \A s \in Matched(t, addr) : s \in Matched(u, addr) /\ LengthAt(u, s) = LengthAt(t, s)
      BY <1>3, <1>4, MatchedLength DEF LengthAt
    <3>3. FirstBest(t, addr, TableSize, q)
      BY <2>1, <3>1, <3>2 DEF FirstBest
    <3>4. PICK s \in Matched(t, addr) : /\ TableLookup(t, addr) = t[s]
                                        /\ FirstBest(t, addr, TableSize, s)
      BY <3>1, LookupIsBest
    <3>5. s = q
      BY <3>3, <3>4, FirstBestUnique
    <3>6. TableLookup(u, addr) = TableLookup(t, addr)
      BY <2>1, <3>1, <3>4, <3>5
    <3>7. QED
      BY <3>6 DEF u
  <2>4. QED
    BY <2>2, <2>3
<1>7. QED
  BY <1>2, <1>5, <1>6, LookupIsBest

\* A route that is added takes the traffic of others only where it is at least
\* as specific, in whichever hole of the table it ends up.
THEOREM AddedNeverDiverts == MasksArePrefixes => (Spec => AddNeverDivertsSpecific)
<1> SUFFICES ASSUME MasksArePrefixes PROVE Spec => AddNeverDivertsSpecific
  OBVIOUS
<1> DEFINE Diverts(addr, r) ==
        (table' = Add(table, r) /\ table' # table) =>
             LET old == TableLookup(table, addr)
                 new == TableLookup(table', addr)
             IN  /\ new \in {old, r}
                 /\ (old # NoRoute /\ old.mask \ r.mask # {}) => new = old
<1>1. Init => Counting /\ PrefixMasks
  BY InitCounting, InitPrefixMasks
<1>2. Counting /\ PrefixMasks /\ [Next]_vars => (Counting /\ PrefixMasks)'
  BY NextCounting, NextPrefixMasks
<1>3. ASSUME Counting, PrefixMasks, NEW addr \in Address, NEW r \in Routes
      PROVE  Diverts(addr, r)
  <2>1. table \in Tables /\ \A s \in Occupied(table) : table[s] \in PrefixRoute
    BY <1>3 DEF Counting, TypeOK, PrefixMasks
  <2>2. r \in PrefixRoute
    BY MasksArePrefixes DEF MasksArePrefixes
  <2>3. QED
    BY <2>1, <2>2, AddedTakesOnlyItsOwn
<1>4. Counting /\ PrefixMasks /\ [Next]_vars =>
        [\A addr \in Address, r \in Routes : Diverts(addr, r)]_vars
  BY <1>3
<1>5. QED
  BY <1>1, <1>2, <1>4, PTL DEF Spec, AddNeverDivertsSpecific

---------------------------------------------------------------------------
(* A table that is written and read again.                                 *)

\* The table with the first n routes of a file in its first n slots.
Packed(routes, n) == [s \in Slots |-> IF s < n THEN routes[s + 1] ELSE NoRoute]

\* Such a table is what adds make of an empty one.
LEMMA PackedAdd ==
    ASSUME NEW routes \in Seq(Route), NEW n \in Slots, n < Len(routes)
    PROVE  Add(Packed(routes, n), routes[n + 1]) = Packed(routes, n + 1)
<1> DEFINE t == Packed(routes, n)
<1>0. n \in Nat /\ Slots \subseteq Nat /\ Len(routes) \in Nat
  BY TableSizeAssumption DEF Slots
<1>1. \A s \in Nat : s < Len(routes) => routes[s + 1] \in Route
  <2>1. \A s \in Nat : s < Len(routes) => s + 1 \in 1 .. Len(routes)
    BY <1>0
  <2>2. QED
    BY <2>1, ElementOfSeq
<1>2. \A s \in Slots : t[s] = NoRoute <=> ~(s < n)
  BY <1>0, <1>1, NoRouteAssumption DEF Packed
<1>3. Free(t) = {s \in Slots : ~(s < n)} /\ n \in Free(t) /\ Free(t) \subseteq Nat
  <2> HIDE DEF t
  <2>1. Free(t) = {s \in Slots : ~(s < n)}
    BY <1>2 DEF Free
  <2>2. ~(n < n)
    BY <1>0
  <2>3. n \in Free(t)
    BY <2>1, <2>2
  <2>4. Free(t) \subseteq Nat
    BY <1>0, <2>1
  <2>5. QED
    BY <2>1, <2>3, <2>4
<1>4. Min(Free(t)) = n
  <2>1. Min(Free(t)) \in Free(t) /\ Min(Free(t)) <= n
    BY <1>3, MinIsLeast
  <2>2. QED
    BY <1>0, <1>3, <2>1
<1>5. Add(t, routes[n + 1]) = [t EXCEPT ![n] = routes[n + 1]]
  BY <1>3, <1>4 DEF Add, AddIndex
<1>6. \A s \in Slots : (s < n + 1 <=> s < n \/ s = n)
  BY <1>0
<1>7. [t EXCEPT ![n] = routes[n + 1]] = Packed(routes, n + 1)
  BY <1>0, <1>6 DEF Packed
<1>8. QED
  BY <1>5, <1>7

IsLoad(load, routes) ==
    load = [n \in 0 .. Len(routes) |->
              IF n = 0 THEN EmptyTable ELSE Add(load[n - 1], routes[n])]

\* The reader of a file of routes packs them.
LEMMA LoadedIsPacked ==
    ASSUME NEW routes \in Seq(Route), Len(routes) <= TableSize
    PROVE  Loaded(routes) = Packed(routes, Len(routes))
<1> DEFINE P == [n \in 0 .. Len(routes) |-> Packed(routes, n)]
           load == LoadedAfter(routes)
<1>0. Len(routes) \in Nat /\ TableSize \in Nat
  BY TableSizeAssumption
<1>1. Packed(routes, 0) = EmptyTable
  BY TableSizeAssumption DEF Packed, EmptyTable, Slots
<1>2. ASSUME NEW n \in 1 .. Len(routes)
      PROVE  /\ n - 1 \in 0 .. Len(routes)
             /\ Add(Packed(routes, n - 1), routes[n]) = Packed(routes, n)
  <2>1. n - 1 \in Slots /\ n - 1 < Len(routes) /\ (n - 1) + 1 = n
    BY <1>0 DEF Slots
  <2>2. Add(Packed(routes, n - 1), routes[(n - 1) + 1]) = Packed(routes, (n - 1) + 1)
    BY <2>1, PackedAdd
  <2>3. QED
    BY <1>0, <2>1, <2>2
<1>3. \A n \in 0 .. Len(routes) :
         P[n] = IF n = 0 THEN EmptyTable ELSE Add(P[n - 1], routes[n])
  <2>1. \A n \in 1 .. Len(routes) : P[n] = Add(P[n - 1], routes[n])
    BY <1>2
  <2>2. P[0] = EmptyTable
    BY <1>0, <1>1
  <2>3. \A n \in 0 .. Len(routes) : n = 0 \/ n \in 1 .. Len(routes)
    BY <1>0
  <2> HIDE DEF P
  <2>4. QED
    BY <2>1, <2>2, <2>3
<1>4. IsLoad(P, routes)
  <2> DEFINE Q == [n \in 0 .. Len(routes) |->
                     IF n = 0 THEN EmptyTable ELSE Add(P[n - 1], routes[n])]
  <2>1. \A n \in 0 .. Len(routes) : P[n] = Q[n]
    BY <1>3
  <2>2. P = Q
    BY <2>1
  <2>3. QED
    BY <2>2 DEF IsLoad
<1>5. IsLoad(load, routes)
  <2>1. load = CHOOSE b : IsLoad(b, routes)
    BY DEF LoadedAfter, IsLoad
  <2>2. QED
    BY <1>4, <2>1
<1> HIDE DEF load
<1>6. load[0] = EmptyTable /\ \A n \in 1 .. Len(routes) : load[n] = Add(load[n - 1], routes[n])
  BY <1>0, <1>5 DEF IsLoad
<1> DEFINE Bad == {n \in 0 .. Len(routes) : load[n] # Packed(routes, n)}
<1>7. CASE Bad # {}
  <2>1. Bad \subseteq Nat
    BY <1>0
  <2>2. PICK m \in Bad : \A j \in Bad : m <= j
    BY <1>7, <2>1, MinIsLeast
  <2>3. m \in 1 .. Len(routes)
    BY <1>0, <1>1, <1>6, <2>2
  <2>4. m - 1 \in 0 .. Len(routes) /\ m - 1 \notin Bad
    BY <1>0, <2>2, <2>3
  <2>5. load[m - 1] = Packed(routes, m - 1)
    BY <2>4
  <2>6. load[m] = Packed(routes, m)
    BY <1>2, <1>6, <2>3, <2>5
  <2>7. QED
    BY <2>2, <2>6
<1>8. CASE Bad = {}
  BY <1>0, <1>8 DEF Loaded, load
<1>9. QED
  BY <1>7, <1>8

\* What is written are the routes in the order of their slots, all of them.
LEMMA OutputOrder ==
    ASSUME NEW t \in Tables
    PROVE  LET c == Cardinality(Occupied(t))
               f == InOrder(Occupied(t))
           IN  /\ c \in 0 .. TableSize
               /\ f \in [1 .. c -> Occupied(t)] /\ Increasing(f)
               /\ \A s \in Occupied(t) : \E i \in 1 .. c : f[i] = s
               /\ Output(t) \in Seq(Route) /\ Len(Output(t)) = c
               /\ \A i \in 1 .. c : Output(t)[i] = t[f[i]]
<1> DEFINE S == Occupied(t)
           c == Cardinality(S)
           f == InOrder(S)
<1>1. S \subseteq Slots /\ S \subseteq 0 .. TableSize - 1 /\ S \subseteq Nat
  BY TableSizeAssumption DEF Occupied, Slots
<1>2. IsFiniteSet(S) /\ c \in 0 .. TableSize
  <2>1. IsFiniteSet(S) /\ c <= TableSize
    BY <1>1, SlotsFinite, FS_Subset
  <2>2. QED
    BY <2>1, FS_CardinalityType, TableSizeAssumption
<1>3. Enumerable(S)
  BY <1>1, SlotsEnumerable, TableSizeAssumption
<1>4. f \in [1 .. c -> S] /\ Increasing(f)
  BY <1>3 DEF InOrder, Enumerable, Increasing
<1>5. \A s \in S : \E i \in 1 .. c : f[i] = s
  BY <1>1, <1>2, <1>4, IncreasingIsOnto
<1>6. \A s \in S : t[s] \in Route
  BY DEF Occupied, Tables
<1>7. Output(t) = [i \in 1 .. c |-> t[f[i]]]
  BY DEF Output
<1> HIDE DEF c, f, S
<1>8. Output(t) \in [1 .. c -> Route]
  BY <1>4, <1>6, <1>7
<1>9. c \in Nat
  BY <1>2, TableSizeAssumption
<1>10. Output(t) \in Seq(Route) /\ Len(Output(t)) = c
  BY <1>7, <1>8, <1>9
<1>11. QED
  BY <1>2, <1>4, <1>5, <1>7, <1>10 DEF c, f, S

\* Writing and reading closes the holes and keeps the order, so the first of the
\* longest masks is the same route.
LEMMA SameRouteComesBack ==
    ASSUME NEW t \in Tables, NEW addr
    PROVE  TableLookup(Loaded(Output(t)), addr) = TableLookup(t, addr)
<1> DEFINE c == Cardinality(Occupied(t))
           f == InOrder(Occupied(t))
           u == Loaded(Output(t))
<1>1. /\ c \in 0 .. TableSize
      /\ f \in [1 .. c -> Occupied(t)] /\ Increasing(f)
      /\ \A s \in Occupied(t) : \E i \in 1 .. c : f[i] = s
      /\ Output(t) \in Seq(Route) /\ Len(Output(t)) = c
      /\ \A i \in 1 .. c : Output(t)[i] = t[f[i]]
  BY OutputOrder
<1> HIDE DEF c, f
<1>2. c \in Nat /\ c <= TableSize /\ TableSize \in Nat
  BY <1>1, TableSizeAssumption
<1>3. u = Packed(Output(t), c)
  BY <1>1, <1>2, LoadedIsPacked
<1> HIDE DEF u
<1>4. \A s \in Slots : s < c => s + 1 \in 1 .. c
  BY <1>2, TableSizeAssumption DEF Slots
<1>5. \A s \in Slots : u[s] = IF s < c THEN t[f[s + 1]] ELSE NoRoute
  BY <1>1, <1>3, <1>4 DEF Packed
<1>6. \A i \in 1 .. c : /\ f[i] \in Occupied(t) /\ f[i] \in Nat /\ t[f[i]] \in Route
                        /\ i - 1 \in Slots /\ i - 1 < c /\ u[i - 1] = t[f[i]]
  <2>1. \A i \in 1 .. c : i - 1 \in Slots /\ i - 1 < c /\ (i - 1) + 1 = i
    BY <1>2, TableSizeAssumption DEF Slots
  <2>2. \A i \in 1 .. c : f[i] \in Occupied(t)
    BY <1>1
  <2>3. \A s \in Occupied(t) : s \in Nat /\ t[s] \in Route
    BY TableSizeAssumption DEF Occupied, Slots, Tables
  <2>4. QED
    BY <1>5, <2>1, <2>2, <2>3
<1>7. u \in Tables
  <2>1. \A s \in Slots : u[s] \in Route \cup {NoRoute}
    BY <1>4, <1>5, <1>6
  <2>2. QED
    BY <1>3, <2>1 DEF Packed, Tables
<1>8. \A i \in 1 .. c : i - 1 \in Matched(u, addr) <=> f[i] \in Matched(t, addr)
  BY <1>6, NoRouteAssumption DEF Matched, Occupied
<1>9. \A i \in 1 .. c : LengthAt(u, i - 1) = LengthAt(t, f[i])
  BY <1>6 DEF LengthAt
<1>10. \A s \in Matched(u, addr) : s + 1 \in 1 .. c /\ s = (s + 1) - 1 /\ s \in Nat
  <2>1. \A s \in Matched(u, addr) : s \in Slots /\ s < c
    BY <1>5 DEF Matched, Occupied
  <2>2. QED
    BY <1>4, <2>1, TableSizeAssumption DEF Slots
<1>11. \A q \in Matched(t, addr) : \E i \in 1 .. c : f[i] = q /\ i - 1 \in Matched(u, addr)
  <2>1. \A q \in Matched(t, addr) : q \in Occupied(t)
    BY DEF Matched
  <2>2. QED
    BY <1>1, <1>8, <2>1
<1>12. CASE TableLookup(u, addr) = NoRoute /\ Matched(u, addr) = {}
  <2>1. Matched(t, addr) = {}
    BY <1>11, <1>12
  <2>2. QED
    BY <1>12, <2>1, LookupIsBest DEF u
<1>13. CASE \E s \in Matched(u, addr) : /\ TableLookup(u, addr) = u[s]
                                        /\ FirstBest(u, addr, TableSize, s)
  <2>1. PICK s \in Matched(u, addr) : /\ TableLookup(u, addr) = u[s]
                                      /\ FirstBest(u, addr, TableSize, s)
    BY <1>13
  <2> DEFINE k == s + 1
  <2>2. k \in 1 .. c /\ s = k - 1 /\ s \in Nat
    BY <1>10, <2>1
  <2>3. u[s] = t[f[k]] /\ f[k] \in Matched(t, addr) /\ LengthAt(u, s) = LengthAt(t, f[k])
    BY <1>6, <1>8, <1>9, <2>1, <2>2
  <2>4. ASSUME NEW q \in Matched(t, addr)
        PROVE  /\ LengthAt(t, q) <= LengthAt(t, f[k])
               /\ q < f[k] => LengthAt(t, q) < LengthAt(t, f[k])
    <3>1. PICK i \in 1 .. c : f[i] = q /\ i - 1 \in Matched(u, addr)
      BY <1>11
    <3>2. i - 1 < TableSize
      BY <1>2, <3>1
    <3>3. /\ LengthAt(u, i - 1) <= LengthAt(u, s)
          /\ i - 1 < s => LengthAt(u, i - 1) < LengthAt(u, s)
      BY <2>1, <3>1, <3>2 DEF FirstBest
    <3>4. LengthAt(u, i - 1) = LengthAt(t, q)
      BY <1>9, <3>1
    <3>5. ASSUME q < f[k] PROVE i - 1 < s
      <4>1. q \in Nat /\ f[k] \in Nat
        BY <1>6, <2>2, <3>1
      <4>2. k < i => f[k] < f[i]
        <5>1. DOMAIN f = 1 .. c
          BY <1>1
        <5>2. QED
          BY <1>1, <2>2, <5>1 DEF Increasing
      <4>3. k # i /\ ~(k < i)
        BY <3>1, <3>5, <4>1, <4>2
      <4>4. QED
        BY <1>2, <2>2, <4>3
    <3>6. QED
      BY <2>3, <3>3, <3>4, <3>5
  <2>5. f[k] < TableSize
    BY <2>3, MatchedLength, TableSizeAssumption DEF Slots
  <2>6. FirstBest(t, addr, TableSize, f[k])
    BY <2>3, <2>4, <2>5 DEF FirstBest
  <2>7. PICK q \in Matched(t, addr) : /\ TableLookup(t, addr) = t[q]
                                      /\ FirstBest(t, addr, TableSize, q)
    BY <2>3, LookupIsBest
  <2>8. q = f[k]
    BY <2>6, <2>7, FirstBestUnique
  <2>9. QED
    BY <2>1, <2>3, <2>7, <2>8 DEF u
<1>14. QED
  BY <1>7, <1>12, <1>13, LookupIsBest

\* A table that is written to a file and read again routes as it did, however
\* many holes removes have left in it.
THEOREM WrittenRoutesAsBefore == Spec => []WrittenComesBack
<1>1. Counting => WrittenComesBack
  BY SameRouteComesBack DEF Counting, TypeOK, WrittenComesBack
<1>2. QED
  BY <1>1, InitCounting, NextCounting, PTL DEF Spec

=============================================================================
