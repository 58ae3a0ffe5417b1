------------------------------ MODULE RipRouteTable ------------------------------
(***************************************************************************)
(* The RIPv2 route table of ripv2_route_table.c: a fixed array of slots,   *)
(* each NULL or a route, and the operations the RIP daemon performs on it. *)
(*                                                                         *)
(* A subnet and its mask are one member of Prefix (the code only ever      *)
(* compares both together); the interface name is left out (the daemon has *)
(* one interface and never reads the field).  The timer of a route is what *)
(* timerms_left() would return for it: InfiniteTimeout, 0 when it has      *)
(* expired, or the time that remains.                                      *)
(***************************************************************************)
EXTENDS Integers, FiniteSets, FiniteSetsExt

CONSTANTS
    Prefix,        \* (subnet, mask) pairs
    Addr,          \* IPv4 addresses of the neighbours
    TableSize,     \* RIPv2_ROUTE_TABLE_SIZE (256 in the code)
    Unreachable,   \* the metric that means unreachable (16 in the code)
    RouteTimeout,  \* RIP_TIMEOUT * 1000, in ticks of the model's clock
    NoRoute        \* the NULL pointer of an empty slot

InfiniteTimeout == -1

Timers  == InfiniteTimeout .. RouteTimeout

Route == [prefix : Prefix, nextHop : Addr, metric : Nat, timer : Timers]

Slots == 0 .. TableSize - 1

Tables == [Slots -> Route \cup {NoRoute}]

ASSUME TableSizeAssumption    == TableSize \in Nat \ {0}
ASSUME UnreachableAssumption  == Unreachable \in Nat \ {0}
ASSUME RouteTimeoutAssumption == RouteTimeout \in Nat \ {0}
ASSUME NoRouteAssumption      == NoRoute \notin Route

(***************************************************************************)
(* ripv2_route_table_create: every slot empty.                             *)
(***************************************************************************)
EmptyTable == [s \in Slots |-> NoRoute]

Occupied(t) == {s \in Slots : t[s] # NoRoute}
Free(t)     == {s \in Slots : t[s] = NoRoute}

\* The slots whose route has exactly this subnet and this mask.
Matching(t, p) == {s \in Occupied(t) : t[s].prefix = p}

(***************************************************************************)
(* ripv2_route_table_find: the first matching slot, or -1.                 *)
(***************************************************************************)
Find(t, p) == IF Matching(t, p) = {} THEN -1 ELSE Min(Matching(t, p))

(***************************************************************************)
(* ripv2_route_table_get: NULL outside the table.                          *)
(***************************************************************************)
Get(t, i) == IF i \in Slots THEN t[i] ELSE NoRoute

(***************************************************************************)
(* ripv2_route_create.                                                     *)
(***************************************************************************)
NewRoute(p, hop, m, timeout) ==
    [prefix |-> p, nextHop |-> hop, metric |-> m, timer |-> timeout]

(***************************************************************************)
(* ripv2_route_table_add: the first empty slot takes the route; a full     *)
(* table returns -1 and is left as it was.                                 *)
(***************************************************************************)
Add(t, r) == IF Free(t) = {} THEN t ELSE [t EXCEPT ![Min(Free(t))] = r]

Finite(r)  == r.timer # InfiniteTimeout
Expired(r) == r.timer = 0

\* Mutant: a route without timeout taken for an expired one.
RemoveInfiniteToo(t) ==
    [s \in Slots |-> IF t[s] # NoRoute /\ t[s].timer <= 0 THEN NoRoute ELSE t[s]]

(***************************************************************************)
(* review_table_timers: every expired route is removed.                    *)
(***************************************************************************)
RemoveExpired(t) ==
    [s \in Slots |-> IF t[s] # NoRoute /\ Expired(t[s]) THEN NoRoute ELSE t[s]]

(***************************************************************************)
(* The loop of main that picks the timeout of udp_recv: the least time     *)
(* left of the routes that do expire, or no timeout.                       *)
(***************************************************************************)
FiniteTimers(t) == {t[s].timer : s \in {q \in Occupied(t) : Finite(t[q])}}

\* Mutant: the "time_left < 0" branch forgotten, any infinite timer wins.
InfiniteWins(t) ==
    IF FiniteTimers(t) = {} \/ \E s \in Occupied(t) : ~Finite(t[s])
    THEN InfiniteTimeout ELSE Min(FiniteTimers(t))

\* Mutant: the "timeout < 0" branch forgotten, no timer is ever taken.
NeverWakes(t) == InfiniteTimeout

NextTimeout(t) ==
    IF FiniteTimers(t) = {} THEN InfiniteTimeout ELSE Min(FiniteTimers(t))

\* timerms_left after one more tick of the clock.
Older(timer) == IF timer > 0 THEN timer - 1 ELSE timer

Aged(t) == [s \in Slots |-> IF t[s] = NoRoute THEN NoRoute
                            ELSE [t[s] EXCEPT !.timer = Older(@)]]

(***************************************************************************)
(* What send_table copies into a response: every route, the unreachable    *)
(* ones included, as (prefix, metric); next hops are sent as zero.         *)
(***************************************************************************)
Advertised(t) == {<<t[s].prefix, t[s].metric>> : s \in Occupied(t)}

(***************************************************************************)
(* What main makes of one entry of a response.                             *)
(***************************************************************************)

\* Mutant: a hop costs nothing.
NoHopMore(m) == m

\* Mutant: the test for 16 forgotten.
HopPastInfinity(m) == m + 1

\* current_metric: one more hop, 16 being kept.
OneHopMore(m) == IF m = Unreachable THEN m ELSE m + 1

\* Mutant: the time is added to what is left of the timer.
RefreshedOnTop(t, s, m) == [t EXCEPT ![s].metric = m, ![s].timer = @ + RouteTimeout]

\* The route's metric and timer take the entry's; its next hop is not among
\* what either branch assigns (the second one calls memcmp on it).
Refreshed(t, s, m) == [t EXCEPT ![s].metric = m, ![s].timer = RouteTimeout]

\* Mutant: the changed flag not raised for a better metric.
BranchBetterQuietly(st, src, e) ==
    LET m == OneHopMore(e.metric)
        s == Find(st.table, e.prefix)
        r == Get(st.table, s)
    IN  CASE s = -1 /\ m < Unreachable ->
               [st EXCEPT !.table = Add(@, NewRoute(e.prefix, src, e.metric + 1, RouteTimeout)),
                          !.changed = TRUE]
          [] s = -1 /\ m >= Unreachable -> [st EXCEPT !.alive = FALSE]
          [] s # -1 /\ src = r.nextHop ->
               [st EXCEPT !.table = Refreshed(@, s, m), !.changed = TRUE]
          [] s # -1 /\ src # r.nextHop /\ m < r.metric ->
               [st EXCEPT !.table = Refreshed(@, s, m)]
          [] OTHER -> st

\* A new route, a crash for an unknown subnet that cannot be reached, the word of
\* the next hop or a better one, or nothing.  st holds the table, the changed
\* flag, whether the process lives and whether an update is due.
Branch(st, src, e) ==
    LET m == OneHopMore(e.metric)
        s == Find(st.table, e.prefix)
        r == Get(st.table, s)
    IN  CASE s = -1 /\ m < Unreachable ->
               [st EXCEPT !.table = Add(@, NewRoute(e.prefix, src, e.metric + 1, RouteTimeout)),
                          !.changed = TRUE]
          [] s = -1 /\ m >= Unreachable -> [st EXCEPT !.alive = FALSE]
          [] s # -1 /\ (src = r.nextHop \/ m < r.metric) ->
               [st EXCEPT !.table = Refreshed(@, s, m), !.changed = TRUE]
          [] OTHER -> st

\* The body of the loop: one of the branches, and at its end, still inside the
\* loop, the test that sends an update after this entry if it or an earlier one
\* of the response has changed something.
AfterEntry(st, src, e) ==
    LET r == Branch(st, src, e) IN [r EXCEPT !.due = r.alive /\ r.changed]

=============================================================================
