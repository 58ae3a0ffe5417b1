------------------------------- MODULE Ipv4Routes -------------------------------
(***************************************************************************)
(* The life of an IPv4 route table: created empty, filled from a file by   *)
(* ipv4_route_table_read, changed by the add and remove of its interface,  *)
(* and searched, or written to a file, at any moment (the invariants below *)
(* quantify over the address that is looked up; writing leaves the table   *)
(* alone).                                                                 *)
(***************************************************************************)
EXTENDS Ipv4RouteTable, Sequences

CONSTANTS
    Files,     \* the possible contents of a route file
    BadLine,   \* a line that is no route
    Routes     \* the routes a caller may add

ASSUME FilesAssumption   == Files \subseteq Seq(Route \cup {BadLine})
ASSUME RoutesAssumption  == Routes \subseteq Route
ASSUME BadLineAssumption == BadLine \notin Route

VARIABLES
    lines,       \* what is left of the file
    reading,     \* ipv4_route_table_read has not returned yet
    readRoutes,  \* read_routes, then the value returned
    table

vars == <<lines, reading, readRoutes, table>>

TypeOK ==
    /\ lines \in Seq(Route \cup {BadLine})
    /\ reading \in BOOLEAN
    /\ readRoutes \in -1 .. TableSize
    /\ table \in Tables

\* ipv4_route_table_create and the call of ipv4_route_table_read.
Init ==
    /\ lines \in Files
    /\ reading = TRUE
    /\ readRoutes = 0
    /\ table = EmptyTable

\* Mutant: a full table not noticed.
ReadRouteUnchecked ==
    /\ reading /\ lines # <<>>
    /\ Head(lines) # BadLine
    /\ table' = Add(table, Head(lines))
    /\ readRoutes' = readRoutes + 1
    /\ lines' = Tail(lines)
    /\ UNCHANGED reading

ReadRoute ==
    /\ reading /\ lines # <<>>
    /\ Head(lines) # BadLine
    /\ Free(table) # {}
    /\ table' = Add(table, Head(lines))
    /\ readRoutes' = readRoutes + 1
    /\ lines' = Tail(lines)
    /\ UNCHANGED reading

\* A bad line, or no slot left: the loop ends, the result is -1, and the
\* routes read before stay in the table.
ReadFails ==
    /\ reading /\ lines # <<>>
    /\ Head(lines) = BadLine \/ Free(table) = {}
    /\ readRoutes' = -1
    /\ lines' = <<>>
    /\ reading' = FALSE
    /\ UNCHANGED table

ReadDone ==
    /\ reading /\ lines = <<>>
    /\ reading' = FALSE
    /\ UNCHANGED <<lines, readRoutes, table>>

AddRoute ==
    /\ ~reading
    /\ \E r \in Routes : table' = Add(table, r)
    /\ UNCHANGED <<lines, reading, readRoutes>>

\* A caller may name any index, one below and one above the table included.
RemoveRoute ==
    /\ ~reading
    /\ \E i \in -1 .. TableSize : table' = Remove(table, i)
    /\ UNCHANGED <<lines, reading, readRoutes>>

\* A caller looks for a subnet first, and removes what was found, if anything.
RemoveFound ==
    /\ ~reading
    /\ \E r \in Routes : table' = Remove(table, Find(table, r.subnet, r.mask))
    /\ UNCHANGED <<lines, reading, readRoutes>>

---------------------------------------------------------------------------
(* ipv4_route_table_write and a later ipv4_route_table_read of its file.   *)

\* The order in which the loop comes to some of the slots.
InOrder(slots) ==
    CHOOSE f \in [1 .. Cardinality(slots) -> slots] :
        \A i, j \in DOMAIN f : i < j => f[i] < f[j]

\* Mutant: the loop over the slots ends at the first one that is empty.
OutputToFirstHole(t) ==
    LET before == {s \in Slots : \A q \in 0 .. s : t[q] # NoRoute} IN
    [i \in 1 .. Cardinality(before) |-> t[InOrder(before)[i]]]

\* ipv4_route_table_output: one line for each route, slot after slot.
Output(t) ==
    [i \in 1 .. Cardinality(Occupied(t)) |-> t[InOrder(Occupied(t))[i]]]

\* What a table holds that has read so many lines of such a file, in which no
\* line is bad.
LoadedAfter(routes) ==
    LET load[n \in 0 .. Len(routes)] ==
            IF n = 0 THEN EmptyTable ELSE Add(load[n - 1], routes[n])
    IN  load

Loaded(routes) == LoadedAfter(routes)[Len(routes)]

---------------------------------------------------------------------------
Next == RemoveFound \/ ReadRoute \/ ReadFails \/ ReadDone \/ AddRoute \/ RemoveRoute

Spec == Init /\ [][Next]_vars

---------------------------------------------------------------------------
(* Properties.                                                             *)

\* The routes whose subnet the address belongs to.
Matching(addr) == {s \in Occupied(table) : addr \cap table[s].mask = table[s].subnet}

\* The search finds a route whenever one matches, and then "the most specific
\* one, that with the greatest mask" (ipv4_route_table.c:395-397), whatever
\* the order of the slots: every matching route is for a larger subnet.  For
\* masks that are prefixes, as those of the switch (118-146).
LookupMostSpecific ==
    \A addr \in Address :
        LET r == TableLookup(table, addr) IN
        /\ r = NoRoute <=> Matching(addr) = {}
        /\ r # NoRoute =>
              /\ \E s \in Matching(addr) : table[s] = r
              /\ \A s \in Matching(addr) : table[s].mask \subseteq r.mask

\* Of equally specific routes the first slot wins, and add fills the first
\* hole: a route added later takes the traffic of an older one only if it is
\* at least as specific, and an address served by a strictly more specific
\* route is never diverted (ipv4_route_table.c:257-263, 423).
AddNeverDivertsSpecific ==
    [][ \A addr \in Address, r \in Routes :
          (table' = Add(table, r) /\ table' # table) =>
             LET old == TableLookup(table, addr)
                 new == TableLookup(table', addr)
             IN  /\ new \in {old, r}
                 /\ (old # NoRoute /\ old.mask \ r.mask # {}) => new = old ]_vars

\* A table that is written and read again routes every address as before: the
\* holes that remove left are gone, but of equally specific routes the same one
\* still comes first (ipv4_route_table.c:604-697, read at 479-582).
WrittenComesBack ==
    \A addr \in Address :
        TableLookup(Loaded(Output(table)), addr) = TableLookup(table, addr)

\* "Esta implementacion no permite rutas duplicadas": before a route is added
\* it must have been looked for (ipv4_route_table.h:123-126).  This asks it of
\* the reader of the table's own file.
NoDuplicatesRead ==
    reading => \A s, q \in Occupied(table) :
                  (table[s].subnet = table[q].subnet /\ table[s].mask = table[q].mask)
                      => s = q

=============================================================================
