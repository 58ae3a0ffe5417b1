----------------------------- MODULE RipDaemonProofs -----------------------------
(***************************************************************************)
(* Proofs about RipDaemon, for every set of subnets and neighbours, every  *)
(* table size, every file and every traffic; and, at the end, about its    *)
(* history in RipHistory: the metric of a route against the last word of   *)
(* its next hop.  There everything but the type invariant needs a route    *)
(* file that lists no subnet twice: of two lines of one subnet the second  *)
(* is hidden from find, so its next hop is not listened to until the first *)
(* has expired.                                                            *)
(***************************************************************************)
EXTENDS RipHistory, RipRouteTableProofs, SequenceTheorems

---------------------------------------------------------------------------
(* Lemmas.                                                                 *)

\* The entry the loop is at, and the slot and the route it finds for it.
LEMMA EntryFacts ==
    ASSUME TypeOK, HasEntry
    PROVE  /\ msg \in Datagram
           /\ msg.src \in Addr
           /\ ThisEntry \in Entry
           /\ ThisEntry.prefix \in Prefix
           /\ ThisMetric \in Nat
           /\ ThisEntry.metric + 1 \in Nat
           /\ [msg EXCEPT !.entries = Tail(@)] \in Datagram
           /\ \/ ThisSlot = -1 /\ Matching(table, ThisEntry.prefix) = {}
              \/ /\ ThisSlot \in Slots
                 /\ ThisRoute = table[ThisSlot]
                 /\ table[ThisSlot] \in Route
                 /\ table[ThisSlot] # NoRoute
                 /\ table[ThisSlot].prefix = ThisEntry.prefix
<1>1. msg \in Datagram /\ msg.entries # <<>>
  BY DEF TypeOK, HasEntry
<1>2. msg.src \in Addr /\ msg.entries \in Seq(Entry)
  BY <1>1 DEF Datagram
<1>3. ThisEntry \in Entry /\ Tail(msg.entries) \in Seq(Entry)
  BY <1>1, <1>2, HeadTailProperties DEF ThisEntry
<1>4. ThisEntry.prefix \in Prefix /\ ThisEntry.metric \in Nat
  BY <1>3, WireMetricsAssumption DEF Entry
<1>5. ThisMetric \in Nat /\ ThisEntry.metric + 1 \in Nat
  BY <1>4 DEF ThisMetric, OneHopMore
<1>6. [msg EXCEPT !.entries = Tail(@)] \in Datagram
  BY <1>1, <1>3 DEF Datagram
<1>7. table \in Tables
  BY DEF TypeOK
<1>8. QED
  BY <1>1, <1>2, <1>3, <1>4, <1>5, <1>6, <1>7, FindFinds DEF ThisSlot, ThisRoute, Get

\* Refreshing a route keeps the table in type, and changes nothing of the
\* table but the metric and the timer of one route.
LEMMA RefreshedTable ==
    ASSUME NEW t \in Tables, NEW s \in Slots, t[s] \in Route, NEW m \in Nat
    PROVE  /\ Refreshed(t, s, m) \in Tables
           /\ Refreshed(t, s, m)[s] \in Route
           /\ Refreshed(t, s, m)[s].prefix = t[s].prefix
           /\ Refreshed(t, s, m)[s].nextHop = t[s].nextHop
           /\ Refreshed(t, s, m)[s].metric = m
           /\ Refreshed(t, s, m)[s].timer = RouteTimeout
           /\ \A q \in Slots : q # s => Refreshed(t, s, m)[q] = t[q]
<1>1. RouteTimeout \in Timers
  BY RouteTimeoutAssumption DEF Timers, InfiniteTimeout
<1> DEFINE r == [t[s] EXCEPT !.metric = m, !.timer = RouteTimeout]
<1>2. /\ r \in Route
      /\ r.prefix = t[s].prefix /\ r.nextHop = t[s].nextHop
      /\ r.metric = m /\ r.timer = RouteTimeout
  BY <1>1 DEF Route
<1>3. Refreshed(t, s, m) = [t EXCEPT ![s] = r]
  BY DEF Refreshed, Tables, Route
<1> HIDE DEF r
<1>4. QED
  BY <1>2, <1>3 DEF Tables

\* The route AddRoute makes.
LEMMA NewRouteType ==
    ASSUME NEW p \in Prefix, NEW h \in Addr, NEW m \in Nat, NEW n \in Timers
    PROVE  NewRoute(p, h, m, n) \in Route
BY DEF NewRoute, Route

\* Receiving a datagram, dropping some, queueing one.
LEMMA InboxType ==
    ASSUME inbox \in Seq(Datagram)
    PROVE  /\ inbox # <<>> => Head(inbox) \in Datagram /\ Tail(inbox) \in Seq(Datagram)
           /\ Transmit => inbox' \in Seq(Datagram)
           /\ Arrives => inbox' \in Seq(Datagram)
<1>1. inbox # <<>> => Head(inbox) \in Datagram /\ Tail(inbox) \in Seq(Datagram)
  BY HeadTailProperties
<1>2. ASSUME Transmit PROVE inbox' \in Seq(Datagram)
  <2>1. PICK k \in 0 .. Len(inbox) : inbox' = SubSeq(inbox, k + 1, Len(inbox))
    BY <1>2 DEF Transmit
  <2>2. Len(inbox) \in Nat /\ k + 1 \in Int
    BY <2>1, LenProperties
  <2>3. \A i \in k + 1 .. Len(inbox) : inbox[i] \in Datagram
    BY <2>2, ElementOfSeq
  <2>4. QED
    BY <2>1, <2>2, <2>3, SubSeqProperties
<1>3. ASSUME Arrives PROVE inbox' \in Seq(Datagram)
  <2>1. PICK d \in Datagram : inbox' = Append(inbox, d)
    <3>1. \A n \in 0 .. MaxEntries : [1 .. n -> Entry] \subseteq Seq(Entry)
      BY MaxEntriesAssumption, SeqDef
    <3>2. <<>> \in Seq(Entry)
      BY EmptySeq
    <3>3. QED
      BY <1>3, <3>1, <3>2 DEF Arrives, Deliver, Datagram
  <2>2. QED
    BY <2>1
<1>4. QED
  BY <1>1, <1>2, <1>3

---------------------------------------------------------------------------
(* The type invariant.                                                     *)

\* The daemon starts with an empty table, an empty queue and no packet.
LEMMA InitType == Init => TypeOK
<1> SUFFICES ASSUME Init PROVE TypeOK
  OBVIOUS
<1>1. EmptyTable \in Tables
  BY DEF EmptyTable, Tables
<1>2. InfiniteTimeout \in Timers
  BY RouteTimeoutAssumption DEF Timers, InfiniteTimeout
<1>3. inbox \in Seq(Datagram)
  BY EmptySeq DEF Init
<1>4. QED
  BY <1>1, <1>2, <1>3, BootFilesAssumption DEF Init, TypeOK, PCs

\* Every step of the daemon, of its neighbours and of the clock keeps the table,
\* the timers and the queue in type, and a packet at hand where one is used.
LEMMA NextType == TypeOK /\ [Next]_vars => TypeOK'
<1> SUFFICES ASSUME TypeOK, [Next]_vars PROVE TypeOK'
  OBVIOUS
<1> USE DEF TypeOK, PCs
<1>0. InfiniteTimeout \in Timers /\ RouteTimeout \in Timers
  BY RouteTimeoutAssumption DEF Timers, InfiniteTimeout
<1>1. CASE LoadRoute
  <2> DEFINE l == Head(lines)
  <2>1. l \in FileRoute /\ Tail(lines) \in Seq(FileRoute \cup {BadLine})
    BY <1>1, HeadTailProperties DEF LoadRoute
  <2>2. NewRoute(l.prefix, l.nextHop, l.metric, InfiniteTimeout) \in Route
    BY <1>0, <2>1, NewRouteType DEF FileRoute
  <2>3. table' \in Tables
    BY <1>1, <2>2, AddType DEF LoadRoute
  <2>4. announced' \in SUBSET (Prefix \X Nat)
    BY <1>1, <2>3, AdvertisedType DEF LoadRoute
  <2>5. QED
    BY <1>1, <2>1, <2>3, <2>4 DEF LoadRoute
<1>2. CASE LoadFails
  BY <1>2, EmptySeq DEF LoadFails
<1>3. CASE LoadDone
  BY <1>3 DEF LoadDone
<1>4. CASE ChooseTimeout
  BY <1>4, NextTimeoutIsLeast DEF ChooseTimeout
<1>5. CASE RecvTimeout
  BY <1>0, <1>5, RemoveExpiredType DEF RecvTimeout, Review
<1>6. CASE RecvEmpty
  BY <1>0, <1>6, RemoveExpiredType, InboxType DEF RecvEmpty, Takes, Review
<1>7. CASE RecvRequest
  BY <1>0, <1>7, InboxType, NoMsgAssumption DEF RecvRequest, Takes
<1>8. CASE RecvResponse
  BY <1>0, <1>8, InboxType, NoMsgAssumption DEF RecvResponse, Takes
<1>9. CASE RecvOther
  BY <1>0, <1>9, InboxType DEF RecvOther, Takes
<1>10. CASE RecvError
  BY <1>10 DEF RecvError
<1>11. CASE AddRoute
  <2>1. NewRoute(ThisEntry.prefix, msg.src, ThisEntry.metric + 1, RouteTimeout) \in Route
    BY <1>0, <1>11, EntryFacts, NewRouteType DEF AddRoute
  <2>2. table' \in Tables
    BY <1>11, <2>1, AddType DEF AddRoute
  <2>3. msg' \in Datagram
    BY <1>11, EntryFacts DEF AddRoute, NextEntry
  <2>4. QED
    BY <1>11, <2>2, <2>3, NoMsgAssumption DEF AddRoute, NextEntry
<1>12. ASSUME HasEntry, ~IsNew, ThisRoute # NoRoute,
              table' = Refreshed(table, ThisSlot, ThisMetric),
              changed' = TRUE, NextEntry
       PROVE  TypeOK'
  <2>1. ThisSlot \in Slots /\ table[ThisSlot] \in Route /\ ThisMetric \in Nat
    BY <1>12, EntryFacts, TableSizeAssumption DEF ThisRoute, Get, Slots
  <2>2. table' \in Tables
    BY <1>12, <2>1, RefreshedTable
  <2>3. msg' \in Datagram
    BY <1>12, EntryFacts DEF NextEntry
  <2>4. QED
    BY <1>12, <2>2, <2>3, NoMsgAssumption DEF NextEntry
<1>13. CASE RefreshFromNextHop
  BY <1>12, <1>13 DEF RefreshFromNextHop
<1>14. CASE BetterMetric
  BY <1>12, <1>14 DEF BetterMetric
<1>15. CASE IgnoreEntry
  <2>1. msg' \in Datagram
    BY <1>15, EntryFacts DEF IgnoreEntry, NextEntry
  <2>2. QED
    BY <1>15, <2>1, NoMsgAssumption DEF IgnoreEntry, NextEntry
<1>16. CASE UnknownUnreachable
  BY <1>16 DEF UnknownUnreachable
<1>17. CASE EndOfEntries
  BY <1>17 DEF EndOfEntries
<1>18. CASE SendReply
  BY <1>18, InboxType DEF SendReply
<1>19. CASE SendUpdate
  BY <1>19, InboxType, AdvertisedType DEF SendUpdate
<1>20. CASE SendExits
  BY <1>20 DEF SendExits
<1>21. CASE SendOverrun
  BY <1>21 DEF SendOverrun
<1>22. CASE Arrives
  <2>1. inbox' \in Seq(Datagram)
    BY <1>22, InboxType
  <2>2. UNCHANGED <<pc, lines, table, timeout, msg, changed, announced>>
    BY <1>22 DEF Arrives, Deliver
  <2>3. QED
    BY <2>1, <2>2
<1>23. CASE Tick
  BY <1>23, AgedType, OlderType DEF Tick
<1>24. CASE UNCHANGED vars
  BY <1>24 DEF vars
<1>25. QED
  BY <1>1, <1>2, <1>3, <1>4, <1>5, <1>6, <1>7, <1>8, <1>9, <1>10, <1>11, <1>13, <1>14,
     <1>15, <1>16, <1>17, <1>18, <1>19, <1>20, <1>21, <1>22, <1>23, <1>24
     DEF Next, Daemon, Load, Receive, Process, Send

\* Every reachable state of the daemon is in type; in particular a packet is
\* at hand whenever the code is about to use one.
THEOREM TypeCorrect == Spec => []TypeOK
BY InitType, NextType, PTL DEF Spec

---------------------------------------------------------------------------
(* The wait ends in time.                                                  *)

\* The steps that leave the daemon in udp_recv: the one that enters it, a
\* tick, an arrival, or nothing.
LEMMA RecvSteps ==
    ASSUME [Next]_vars, pc' = "recv"
    PROVE  \/ ChooseTimeout
           \/ Tick
           \/ UNCHANGED <<pc, table, timeout>>
BY DEF Next, vars, Daemon, Load, LoadRoute, LoadFails, LoadDone, Receive, RecvTimeout,
       RecvEmpty, RecvRequest, RecvResponse, RecvOther, Takes, Review, RecvError, Process,
       AddRoute, RefreshFromNextHop, BetterMetric, IgnoreEntry, UnknownUnreachable,
       EndOfEntries, NextEntry, HasEntry, Send, SendReply, SendUpdate, SendExits,
       SendOverrun, Arrives, Deliver

\* WakesForEveryExpiry is inductive by itself: only ChooseTimeout enters the
\* wait, and a tick shortens the wait and the routes' timers alike.
LEMMA NextWakes ==
    TypeOK /\ WakesForEveryExpiry /\ [Next]_vars => WakesForEveryExpiry'
<1> SUFFICES ASSUME TypeOK, WakesForEveryExpiry, [Next]_vars, pc' = "recv",
                    NEW s \in Slots, table'[s] # NoRoute, Finite(table'[s])
             PROVE  timeout' # InfiniteTimeout /\ timeout' <= table'[s].timer
  BY DEF WakesForEveryExpiry
<1>1. table \in Tables /\ timeout \in Timers
  BY DEF TypeOK
<1>2. CASE ChooseTimeout
  BY <1>1, <1>2, NextTimeoutIsLeast DEF ChooseTimeout
<1>3. CASE Tick
  <2>1. pc = "recv" /\ table' = Aged(table) /\ timeout' = Older(timeout)
    BY <1>3 DEF Tick
  <2>2. table[s] # NoRoute /\ table[s] \in Route
    BY <1>1, <2>1, AgedRoute DEF Tables
  <2>3. table'[s].timer = Older(table[s].timer) /\ table[s].timer \in Timers
    BY <1>1, <2>1, <2>2, AgedRoute DEF Route
  <2>4. Finite(table[s])
    BY <2>3, OlderType DEF Finite
  <2>5. timeout # InfiniteTimeout /\ timeout <= table[s].timer
    BY <2>1, <2>2, <2>4 DEF WakesForEveryExpiry
  <2>6. QED
    BY <1>1, <2>1, <2>3, <2>5, RouteTimeoutAssumption
       DEF Timers, Older, InfiniteTimeout
<1>4. CASE UNCHANGED <<pc, table, timeout>>
  BY <1>4 DEF WakesForEveryExpiry
<1>5. QED
  BY <1>2, <1>3, <1>4, RecvSteps

\* However the table was filled and refreshed, the daemon's wait never
\* outlasts the timer of a route.
THEOREM WakesInTime == Spec => []WakesForEveryExpiry
<1>1. Init => WakesForEveryExpiry
  BY DEF Init, WakesForEveryExpiry
<1>2. QED
  BY <1>1, TypeCorrect, NextWakes, PTL DEF Spec

---------------------------------------------------------------------------
(* Nothing is left unannounced.                                            *)

\* The inductive invariant: the table says something new only where an update is
\* next, or the process is gone.
Unannounced ==
    pc \in {"load", "wait", "recv", "reply", "entries"} => Advertised(table) \subseteq announced

\* Every step keeps Unannounced: what changes the table raises the flag, and the
\* turn that has done so ends with an update, before the next entry is looked at.
LEMMA NextUnannounced == TypeOK /\ Unannounced /\ [Next]_vars => Unannounced'
<1> SUFFICES ASSUME TypeOK, Unannounced, [Next]_vars PROVE Unannounced'
  OBVIOUS
<1> USE DEF Unannounced
<1>0. table \in Tables /\ pc \in PCs /\ changed \in BOOLEAN
  BY DEF TypeOK
<1>1. CASE LoadRoute
  BY <1>1 DEF LoadRoute
<1>2. CASE LoadFails \/ LoadDone \/ ChooseTimeout
  BY <1>2 DEF LoadFails, LoadDone, ChooseTimeout
<1>3. CASE RecvTimeout \/ RecvEmpty
  <2>1. /\ pc = "recv" /\ table' = RemoveExpired(table)
        /\ pc' = "wait" /\ announced' = announced
    BY <1>3 DEF RecvTimeout, RecvEmpty, Takes, Review
  <2>2. Advertised(table') \subseteq Advertised(table)
    BY <1>0, <2>1, AdvertisedAfter
  <2>3. QED
    BY <2>1, <2>2
<1>4. CASE RecvRequest \/ RecvResponse \/ RecvOther \/ RecvError
  BY <1>4 DEF RecvRequest, RecvResponse, RecvOther, RecvError, Takes
<1>5. CASE AddRoute \/ RefreshFromNextHop \/ BetterMetric
  BY <1>5 DEF AddRoute, RefreshFromNextHop, BetterMetric, NextEntry, HasEntry
<1>6. CASE IgnoreEntry
  BY <1>6 DEF IgnoreEntry, NextEntry, HasEntry
<1>7. CASE UnknownUnreachable
  BY <1>7 DEF UnknownUnreachable
<1>8. CASE EndOfEntries
  BY <1>8 DEF EndOfEntries
<1>9. CASE SendReply \/ SendUpdate \/ SendExits \/ SendOverrun
  BY <1>9 DEF SendReply, SendUpdate, SendExits, SendOverrun
<1>10. CASE Arrives
  <2>1. UNCHANGED <<pc, table, changed, announced>>
    BY <1>10 DEF Arrives, Deliver
  <2>2. QED
    BY <2>1
<1>11. CASE Tick
  <2>1. Advertised(table') = Advertised(table)
    BY <1>0, <1>11, AdvertisedAfter DEF Tick
  <2>2. UNCHANGED <<pc, changed, announced>>
    BY <1>11 DEF Tick
  <2>3. QED
    BY <2>1, <2>2
<1>12. CASE UNCHANGED vars
  BY <1>12 DEF vars
<1>13. QED
  BY <1>1, <1>2, <1>3, <1>4, <1>5, <1>6, <1>7, <1>8, <1>9, <1>10, <1>11, <1>12
     DEF Next, Daemon, Load, Receive, Process, Send

\* No change of the table reaches the next entry, or the next wait, without an
\* update having been attempted since.
THEOREM AllAnnounced == Spec => []NothingUnannounced
<1>1. Init => Unannounced
  BY DEF Init, Unannounced, Advertised, Occupied, EmptyTable
<1>2. Unannounced => NothingUnannounced
  BY DEF Unannounced, NothingUnannounced
<1>3. QED
  BY <1>1, <1>2, TypeCorrect, NextUnannounced, PTL DEF Spec

---------------------------------------------------------------------------
(* What a step does to the routes.                                         *)

\* Every step treats the slots in one of six ways.
LEMMA TableSteps ==
    ASSUME TypeOK, [Next]_vars
    PROVE  \/ table' = table
           \/ pc = "load" /\ \E r \in Route : table' = Add(table, r)
           \/ table' = RemoveExpired(table)
           \/ table' = Aged(table)
           \/ /\ ThisEntry.prefix \in Prefix /\ Matching(table, ThisEntry.prefix) = {}
              /\ \E r \in Route : r.prefix = ThisEntry.prefix /\ table' = Add(table, r)
           \/ /\ ThisSlot \in Slots /\ table[ThisSlot] \in Route /\ ThisMetric \in Nat
              /\ table' = Refreshed(table, ThisSlot, ThisMetric)
<1>0. InfiniteTimeout \in Timers /\ RouteTimeout \in Timers
  BY RouteTimeoutAssumption DEF Timers, InfiniteTimeout
<1>1. CASE LoadRoute
  <2> DEFINE l == Head(lines)
  <2>1. l \in FileRoute
    BY <1>1, HeadTailProperties DEF LoadRoute, TypeOK
  <2>2. NewRoute(l.prefix, l.nextHop, l.metric, InfiniteTimeout) \in Route
    BY <1>0, <2>1, NewRouteType DEF FileRoute
  <2>3. QED
    BY <1>1, <2>2 DEF LoadRoute
<1>2. CASE AddRoute
  <2>1. NewRoute(ThisEntry.prefix, msg.src, ThisEntry.metric + 1, RouteTimeout) \in Route
    BY <1>0, <1>2, EntryFacts, NewRouteType DEF AddRoute
  <2>2. /\ ThisEntry.prefix \in Prefix
        /\ Matching(table, ThisEntry.prefix) = {}
    BY <1>2, EntryFacts, TableSizeAssumption DEF AddRoute, IsNew, Slots
  <2>3. NewRoute(ThisEntry.prefix, msg.src, ThisEntry.metric + 1, RouteTimeout).prefix
            = ThisEntry.prefix
    BY DEF NewRoute
  <2>4. QED
    BY <1>2, <2>1, <2>2, <2>3 DEF AddRoute
<1>3. CASE RefreshFromNextHop \/ BetterMetric
  <2>1. HasEntry /\ ThisRoute # NoRoute /\ table' = Refreshed(table, ThisSlot, ThisMetric)
    BY <1>3 DEF RefreshFromNextHop, BetterMetric
  <2>2. ThisSlot \in Slots /\ table[ThisSlot] \in Route /\ ThisMetric \in Nat
    BY <2>1, EntryFacts, TableSizeAssumption DEF ThisRoute, Get, Slots
  <2>3. QED
    BY <2>1, <2>2
<1>4. CASE RecvTimeout \/ RecvEmpty
  BY <1>4 DEF RecvTimeout, RecvEmpty, Review
<1>5. CASE Tick
  BY <1>5 DEF Tick
<1>6. CASE ~(\/ LoadRoute \/ AddRoute \/ RefreshFromNextHop \/ BetterMetric
             \/ RecvTimeout \/ RecvEmpty \/ Tick)
  BY <1>6 DEF Next, vars, Daemon, Load, LoadFails, LoadDone, Receive, ChooseTimeout,
       RecvRequest, RecvResponse, RecvOther, RecvError, Process, IgnoreEntry,
       UnknownUnreachable, EndOfEntries, Send, SendReply, SendUpdate, SendExits,
       SendOverrun, Arrives, Deliver
<1>7. QED
  BY <1>1, <1>2, <1>3, <1>4, <1>5, <1>6

\* A step of the serving daemon gives no subnet a second slot: what it adds, it
\* has looked for in the whole table and not found.
LEMMA NoSecondSlot ==
    ASSUME TypeOK, [Next]_vars, pc # "load",
           NEW s \in Slots, NEW q \in Slots, s # q,
           table'[s] # NoRoute, table'[q] # NoRoute,
           table'[s].prefix = table'[q].prefix
    PROVE  /\ table[s] # NoRoute /\ table[q] # NoRoute
           /\ table[s].prefix = table[q].prefix
<1>0. table \in Tables
  BY DEF TypeOK
<1>1. CASE table' = table
  BY <1>1
<1>2. CASE table' = RemoveExpired(table)
  BY <1>2 DEF RemoveExpired
<1>3. CASE table' = Aged(table)
  BY <1>0, <1>3, AgedRoute
<1>4. CASE /\ ThisEntry.prefix \in Prefix /\ Matching(table, ThisEntry.prefix) = {}
           /\ \E r \in Route : r.prefix = ThisEntry.prefix /\ table' = Add(table, r)
  <2>1. PICK r \in Route : r.prefix = ThisEntry.prefix /\ table' = Add(table, r)
    BY <1>4
  <2>2. CASE table' = table
    BY <2>2
  <2>3. CASE \E f \in Slots : table[f] = NoRoute /\ table' = [table EXCEPT ![f] = r]
    <3>1. PICK f \in Slots : table[f] = NoRoute /\ table' = [table EXCEPT ![f] = r]
      BY <2>3
    <3>2. \A i \in Slots : i # f => table'[i] = table[i]
      BY <1>0, <3>1 DEF Tables
    <3>3. table'[f].prefix = ThisEntry.prefix
      BY <1>0, <2>1, <3>1 DEF Tables
    <3>4. \A i \in Slots : table[i] # NoRoute => table[i].prefix # ThisEntry.prefix
      BY <1>4 DEF Matching, Occupied
    <3>5. s # f /\ q # f
      BY <3>2, <3>3, <3>4
    <3>6. QED
      BY <3>2, <3>5
  <2>4. QED
    BY <1>0, <2>1, <2>2, <2>3, AddAdds
<1>5. CASE /\ ThisSlot \in Slots /\ table[ThisSlot] \in Route /\ ThisMetric \in Nat
           /\ table' = Refreshed(table, ThisSlot, ThisMetric)
  <2>1. \A i \in Slots : table'[i] # NoRoute =>
           table[i] # NoRoute /\ table'[i].prefix = table[i].prefix
    BY <1>0, <1>5, RefreshedTable, NoRouteAssumption
  <2>2. QED
    BY <2>1
<1>6. QED
  BY <1>1, <1>2, <1>3, <1>4, <1>5, TableSteps

\* Once serving, the daemon gives no subnet a second slot, whatever the file
\* and the neighbours have put into its table.
THEOREM NoDuplicatesAdded == Spec => NoNewDuplicates
<1> DEFINE A == pc # "load" =>
        \A s, q \in Slots :
            /\ s # q
            /\ table'[s] # NoRoute /\ table'[q] # NoRoute
            /\ table'[s].prefix = table'[q].prefix
            => /\ table[s] # NoRoute /\ table[q] # NoRoute
               /\ table[s].prefix = table[q].prefix
<1>1. ASSUME TypeOK, [Next]_vars PROVE A
  BY <1>1, NoSecondSlot
<1> HIDE DEF A
<1>2. TypeOK /\ [Next]_vars => [A]_vars
  BY <1>1
<1>3. Spec => [][A]_vars
  BY <1>2, TypeCorrect, PTL DEF Spec
<1>4. QED
  BY <1>3 DEF NoNewDuplicates, A

\* Only the review takes a route out of its slot, and only once its timer has
\* run out; nothing is ever put over a route.
THEOREM OnlyExpiredGo == Spec => OnlyExpiredRoutesGo
<1> DEFINE A == \A s \in Slots : table[s] # NoRoute /\
           (table'[s] = NoRoute \/ table'[s].prefix # table[s].prefix)
           => table[s].timer = 0 /\ table'[s] = NoRoute
<1>1. ASSUME TypeOK, [Next]_vars PROVE A
  <2> SUFFICES ASSUME NEW s \in Slots, table[s] # NoRoute,
                      table'[s] = NoRoute \/ table'[s].prefix # table[s].prefix
               PROVE  table[s].timer = 0 /\ table'[s] = NoRoute
    OBVIOUS
  <2>0. table \in Tables
    BY <1>1 DEF TypeOK
  <2>1. CASE table' = table
    BY <2>1
  <2>2. CASE table' = RemoveExpired(table)
    BY <2>2 DEF RemoveExpired, Expired
  <2>3. CASE table' = Aged(table)
    BY <2>0, <2>3, AgedRoute
  <2>4. CASE \E r \in Route : table' = Add(table, r)
    <3>1. table'[s] = table[s]
      BY <2>0, <2>4, AddAdds DEF Tables
    <3>2. QED
      BY <3>1
  <2>5. CASE /\ ThisSlot \in Slots /\ table[ThisSlot] \in Route /\ ThisMetric \in Nat
             /\ table' = Refreshed(table, ThisSlot, ThisMetric)
    <3>1. table'[s] # NoRoute /\ table'[s].prefix = table[s].prefix
      BY <2>0, <2>5, RefreshedTable, NoRouteAssumption
    <3>2. QED
      BY <3>1
  <2>6. QED
    BY <1>1, <2>1, <2>2, <2>3, <2>4, <2>5, TableSteps
<1> HIDE DEF A
<1>2. TypeOK /\ [Next]_vars => [A]_vars
  BY <1>1
<1>3. Spec => [][A]_vars
  BY <1>2, TypeCorrect, PTL DEF Spec
<1>4. QED
  BY <1>3 DEF OnlyExpiredRoutesGo, A

---------------------------------------------------------------------------
(* The loop on the entries, and what RipNetwork takes it for.              *)

\* The daemon's steps on an entry do to the table, to the changed flag, to the
\* process and to the update that ends the turn what AfterEntry says, which
\* RipNetwork works with: the two modules have the same loop, the send inside it
\* included (rip2_server.c:229-280).
THEOREM EntryStepIsAfterEntry ==
    ASSUME TypeOK, HasEntry,
           \/ AddRoute \/ RefreshFromNextHop \/ BetterMetric
           \/ IgnoreEntry \/ UnknownUnreachable
    PROVE  [table |-> table', changed |-> changed', alive |-> pc' # "crashed",
            due |-> pc' = "update"]
             = AfterEntry([table |-> table, changed |-> changed, alive |-> TRUE,
                           due |-> FALSE], msg.src, ThisEntry)
<1> DEFINE st == [table |-> table, changed |-> changed, alive |-> TRUE, due |-> FALSE]
           m  == ThisMetric
           s  == ThisSlot
           r  == ThisRoute
           nw == NewRoute(ThisEntry.prefix, msg.src, ThisEntry.metric + 1, RouteTimeout)
           b  == Branch(st, msg.src, ThisEntry)
<1>1. /\ m \in Nat /\ Unreachable \in Nat
      /\ \/ s = -1
         \/ s \in Slots /\ r = table[s] /\ table[s] \in Route /\ table[s] # NoRoute
  BY EntryFacts, UnreachableAssumption
<1>2. s \in Slots => s # -1
  BY TableSizeAssumption DEF Slots
<1>3. s = -1 => r = NoRoute
  BY <1>2 DEF ThisRoute, Get
<1>4. r # NoRoute => r.metric \in Nat
  BY <1>1, <1>3 DEF Route
<1>5. pc = "entries"
  BY DEF HasEntry
<1>6. b = CASE s = -1 /\ m < Unreachable ->
               [st EXCEPT !.table = Add(table, nw), !.changed = TRUE]
            [] s = -1 /\ m >= Unreachable -> [st EXCEPT !.alive = FALSE]
            [] s # -1 /\ (msg.src = r.nextHop \/ m < r.metric) ->
               [st EXCEPT !.table = Refreshed(table, s, m), !.changed = TRUE]
            [] OTHER -> st
  BY DEF Branch, ThisMetric, ThisSlot, ThisRoute
<1>7. AfterEntry(st, msg.src, ThisEntry) = [b EXCEPT !.due = b.alive /\ b.changed]
  BY DEF AfterEntry
<1>8. changed \in BOOLEAN
  BY DEF TypeOK
<1>9. CASE AddRoute
  <2>1. s = -1 /\ m < Unreachable
    BY <1>9 DEF AddRoute, IsNew
  <2>2. table' = Add(table, nw) /\ changed' = TRUE /\ pc' = "update"
    BY <1>9 DEF AddRoute, NextEntry
  <2> HIDE DEF m, s, r, nw, b
  <2>3. b = [st EXCEPT !.table = Add(table, nw), !.changed = TRUE]
    BY <1>1, <1>6, <2>1
  <2>4. QED
    BY <1>7, <2>2, <2>3
<1>10. CASE RefreshFromNextHop \/ BetterMetric
  <2>1. s # -1 /\ (msg.src = r.nextHop \/ m < r.metric)
    BY <1>3, <1>10 DEF RefreshFromNextHop, BetterMetric
  <2>2. table' = Refreshed(table, s, m) /\ changed' = TRUE /\ pc' = "update"
    BY <1>10 DEF RefreshFromNextHop, BetterMetric, NextEntry
  <2> HIDE DEF m, s, r, nw, b
  <2>3. b = [st EXCEPT !.table = Refreshed(table, s, m), !.changed = TRUE]
    BY <1>1, <1>6, <2>1
  <2>4. QED
    BY <1>7, <2>2, <2>3
<1>11. CASE IgnoreEntry
  <2>1. s # -1 /\ ~(msg.src = r.nextHop \/ m < r.metric)
    BY <1>1, <1>3, <1>4, <1>11 DEF IgnoreEntry
  <2>2. table' = table /\ changed' = changed
    BY <1>11 DEF IgnoreEntry
  <2>3. pc' = IF changed THEN "update" ELSE "entries"
    BY <1>11 DEF IgnoreEntry, NextEntry
  <2> HIDE DEF m, s, r, nw, b
  <2>4. b = st
    BY <1>1, <1>6, <2>1
  <2>5. pc' # "crashed" /\ (pc' = "update" <=> changed)
    BY <2>3
  <2>6. QED
    BY <1>7, <1>8, <2>2, <2>4, <2>5
<1>12. CASE UnknownUnreachable
  <2>1. s = -1 /\ m >= Unreachable
    BY <1>1, <1>12 DEF UnknownUnreachable, IsNew
  <2>2. table' = table /\ changed' = changed /\ pc' = "crashed"
    BY <1>12 DEF UnknownUnreachable
  <2> HIDE DEF m, s, r, nw, b
  <2>3. b = [st EXCEPT !.alive = FALSE]
    BY <1>1, <1>6, <2>1
  <2>4. QED
    BY <1>7, <2>2, <2>3
<1>13. QED
  BY <1>9, <1>10, <1>11, <1>12

---------------------------------------------------------------------------
(* The daemon with its history.  Its route files.                          *)

Distinct(file) ==
    \A i, j \in 1 .. Len(file) :
        /\ file[i] # BadLine /\ file[j] # BadLine
        /\ file[i].prefix = file[j].prefix
        => i = j

FilesAreDistinct == \A file \in BootFiles : Distinct(file)

\* The watched daemon in type.
HTypeOK == /\ TypeOK
           /\ heard \in [Addr -> [Prefix -> Nat \cup {Silent}]]

---------------------------------------------------------------------------
(* The steps of the watched daemon.                                        *)

\* They are those of the daemon, the history following.
LEMMA WatchedStep ==
    ASSUME [HNext]_<<vars, heard>>
    PROVE  [Next]_vars /\ Listens
<1>1. CASE HNext
  BY <1>1 DEF HNext
<1>2. CASE UNCHANGED <<vars, heard>>
  BY <1>2 DEF vars, Listens
<1>3. QED
  BY <1>1, <1>2

\* Taking the next entry is seen by the history.
LEMMA EntryIsHeard ==
    ASSUME TypeOK, HasEntry, NextEntry
    PROVE  msg' # msg
<1>1. msg.entries \in Seq(Entry) /\ msg.entries # <<>>
  BY EntryFacts DEF HasEntry, Datagram
<1>2. Tail(msg.entries) # msg.entries
  <2>1. Len(Tail(msg.entries)) = Len(msg.entries) - 1 /\ Len(msg.entries) \in Nat
    BY <1>1, HeadTailProperties, LenProperties
  <2>2. Len(msg.entries) - 1 # Len(msg.entries)
    BY <2>1
  <2>3. QED
    BY <2>1, <2>2, Zenon
<1>3. msg \in Datagram
  BY EntryFacts
<1>4. msg'.entries = Tail(msg.entries)
  BY <1>3 DEF NextEntry, Datagram
<1>5. QED
  BY <1>2, <1>4

\* A step either takes the entry the loop is at, and the history takes its
\* metric, or it leaves the history as it was.
LEMMA HeardSteps ==
    ASSUME HTypeOK, Listens
    PROVE  \/ /\ HasEntry /\ msg' # msg
              /\ heard' = [heard EXCEPT ![msg.src][ThisEntry.prefix] = ThisMetric]
              /\ heard'[msg.src][ThisEntry.prefix] = ThisMetric
              /\ \A n \in Addr, p \in Prefix :
                    ~(n = msg.src /\ p = ThisEntry.prefix) => heard'[n][p] = heard[n][p]
           \/ ~(HasEntry /\ msg' # msg) /\ heard' = heard
<1>1. CASE HasEntry /\ msg' # msg
  <2>1. msg.src \in Addr /\ ThisEntry.prefix \in Prefix
    BY <1>1, EntryFacts DEF HTypeOK
  <2>2. heard' = [heard EXCEPT ![msg.src][ThisEntry.prefix] = ThisMetric]
    BY <1>1 DEF Listens
  <2>3. QED
    BY <1>1, <2>1, <2>2 DEF HTypeOK
<1>2. CASE ~(HasEntry /\ msg' # msg)
  BY <1>2 DEF Listens
<1>3. QED
  BY <1>1, <1>2

---------------------------------------------------------------------------
(* The type invariant.                                                     *)

\* The history stays in type, and so does the daemon.
LEMMA NextHType == HTypeOK /\ [HNext]_<<vars, heard>> => HTypeOK'
<1> SUFFICES ASSUME HTypeOK, [HNext]_<<vars, heard>> PROVE HTypeOK'
  OBVIOUS
<1>1. [Next]_vars /\ Listens
  BY WatchedStep
<1>2. TypeOK'
  BY <1>1, NextType DEF HTypeOK
<1>3. heard' \in [Addr -> [Prefix -> Nat \cup {Silent}]]
  <2>1. CASE HasEntry /\ msg' # msg
    <3>1. msg.src \in Addr /\ ThisEntry.prefix \in Prefix /\ ThisMetric \in Nat
      BY <2>1, EntryFacts DEF HTypeOK
    <3>2. heard' = [heard EXCEPT ![msg.src][ThisEntry.prefix] = ThisMetric]
      BY <1>1, <2>1 DEF Listens
    <3>3. QED
      BY <3>1, <3>2 DEF HTypeOK
  <2>2. CASE ~(HasEntry /\ msg' # msg)
    BY <1>1, <2>2 DEF Listens, HTypeOK
  <2>3. QED
    BY <2>1, <2>2
<1>4. QED
  BY <1>2, <1>3 DEF HTypeOK

---------------------------------------------------------------------------
(* The inductive invariant.                                                *)

\* While the file is read nobody has been heard, and the lines to come are of
\* subnets the table does not have.
Loading ==
    pc = "load" =>
        /\ Distinct(lines)
        /\ \A i \in 1 .. Len(lines), s \in Slots :
              lines[i] # BadLine /\ table[s] # NoRoute => table[s].prefix # lines[i].prefix
        /\ \A n \in Addr, p \in Prefix : heard[n][p] = Silent

\* No subnet has two slots, so that every route is one find returns.
OneSlotEach ==
    \A s, q \in Slots :
        table[s] # NoRoute /\ table[q] # NoRoute /\ table[s].prefix = table[q].prefix
            => s = q

\* What NoWorseThanNextHop says, and why: the next hop of a route without a
\* timer has never been heard, for its word would have given it one.
Believed(t, h) ==
    \A s \in Slots :
        LET r == t[s] IN
        r # NoRoute => \/ h[r.nextHop][r.prefix] = Silent
                       \/ Finite(r) /\ r.metric <= h[r.nextHop][r.prefix]

HInv == HTypeOK /\ Loading /\ OneSlotEach /\ Believed(table, heard)

\* The steps that may leave the daemon reading its file, and what they do.
LEMMA LoadSteps ==
    ASSUME [Next]_vars, pc = "load"
    PROVE  \/ LoadRoute
           \/ LoadFails
           \/ UNCHANGED lines /\ (table' = table \/ table' = Aged(table))
BY DEF Next, vars, Daemon, Load, LoadDone, Receive, ChooseTimeout, RecvTimeout,
       RecvEmpty, RecvRequest, RecvResponse, RecvOther, Takes, Review, RecvError, Process,
       AddRoute, RefreshFromNextHop, BetterMetric, IgnoreEntry, UnknownUnreachable,
       EndOfEntries, HasEntry, Send, SendReply, SendUpdate, SendExits,
       SendOverrun, Arrives, Deliver, Tick

\* The route LoadRoute makes of the first line.
LEMMA FirstLine ==
    ASSUME TypeOK, LoadRoute
    PROVE  /\ lines \in Seq(FileRoute \cup {BadLine}) /\ lines # <<>>
           /\ Len(lines) \in Nat \ {0} /\ Len(lines') = Len(lines) - 1
           /\ \A i \in 1 .. Len(lines') : i + 1 \in 1 .. Len(lines) /\ lines'[i] = lines[i + 1]
           /\ lines[1] # BadLine
           /\ \E r \in Route : r.prefix = lines[1].prefix /\ table' = Add(table, r)
<1>1. lines \in Seq(FileRoute \cup {BadLine}) /\ lines # <<>>
  BY DEF TypeOK, LoadRoute
<1>2. /\ Head(lines) = lines[1] /\ lines' = Tail(lines)
      /\ Head(lines) \in FileRoute /\ lines[1] # BadLine
  BY <1>1, HeadTailProperties DEF LoadRoute
<1>3. Len(lines) \in Nat \ {0} /\ Len(lines') = Len(lines) - 1
  BY <1>1, <1>2, HeadTailProperties, LenProperties, EmptySeq
<1>4. \A i \in 1 .. Len(lines') : i + 1 \in 1 .. Len(lines) /\ lines'[i] = lines[i + 1]
  BY <1>1, <1>2, <1>3, HeadTailProperties
<1>5. InfiniteTimeout \in Timers
  BY RouteTimeoutAssumption DEF Timers, InfiniteTimeout
<1> DEFINE r == NewRoute(lines[1].prefix, lines[1].nextHop, lines[1].metric, InfiniteTimeout)
<1>6. r \in Route
  BY <1>2, <1>5, NewRouteType DEF FileRoute
<1>7. r.prefix = lines[1].prefix
  BY DEF NewRoute
<1>8. table' = Add(table, r)
  BY <1>2 DEF LoadRoute
<1> HIDE DEF r
<1>9. QED
  BY <1>1, <1>2, <1>3, <1>4, <1>6, <1>7, <1>8

\* A route added to a table is that of one slot, and the others are as before.
LEMMA AddedSlot ==
    ASSUME NEW t \in Tables, NEW r \in Route, NEW s \in Slots, Add(t, r)[s] # NoRoute
    PROVE  \/ t[s] # NoRoute /\ Add(t, r)[s] = t[s]
           \/ /\ Add(t, r)[s] = r
              /\ \A q \in Slots : q # s => Add(t, r)[q] = t[q]
<1>1. CASE Add(t, r) = t
  BY <1>1
<1>2. CASE \E f \in Slots : t[f] = NoRoute /\ Add(t, r) = [t EXCEPT ![f] = r]
  BY <1>2 DEF Tables
<1>3. QED
  BY <1>1, <1>2, AddAdds

\* Reading a line keeps Loading: the file's own lines are distinct.
LEMMA NextLoading == HInv /\ [HNext]_<<vars, heard>> => Loading'
<1> SUFFICES ASSUME HInv, [HNext]_<<vars, heard>>, pc' = "load" PROVE Loading'
  BY DEF Loading
<1>0. [Next]_vars /\ Listens /\ TypeOK /\ table \in Tables
  BY WatchedStep DEF HInv, HTypeOK, TypeOK
<1>1. pc = "load"
  BY <1>0 DEF Next, vars, Daemon, Load, LoadRoute, LoadFails, LoadDone, Receive,
       ChooseTimeout, RecvTimeout, RecvEmpty, RecvRequest, RecvResponse, RecvOther, Takes,
       Review, RecvError, Process, AddRoute, RefreshFromNextHop, BetterMetric, IgnoreEntry,
       UnknownUnreachable, EndOfEntries, NextEntry, HasEntry, Send, SendReply, SendUpdate,
       SendExits, SendOverrun, Arrives, Deliver, Tick
<1>2. heard' = heard
  BY <1>0, <1>1 DEF Listens, HasEntry
<1>3. CASE LoadRoute
  <2>1. PICK r \in Route : r.prefix = lines[1].prefix /\ table' = Add(table, r)
    BY <1>0, <1>3, FirstLine
  <2>2. Distinct(lines')
    BY <1>0, <1>1, <1>3, FirstLine DEF HInv, Loading, Distinct
  <2>3. ASSUME NEW i \in 1 .. Len(lines'), NEW s \in Slots,
               lines'[i] # BadLine, table'[s] # NoRoute
        PROVE  table'[s].prefix # lines'[i].prefix
    <3>1. i + 1 \in 1 .. Len(lines) /\ lines'[i] = lines[i + 1] /\ 1 \in 1 .. Len(lines)
      BY <1>0, <1>3, FirstLine
    <3>2. CASE table[s] # NoRoute /\ table'[s] = table[s]
      BY <1>1, <2>3, <3>1, <3>2 DEF HInv, Loading
    <3>3. CASE table'[s] = r
      <4>1. lines[1].prefix # lines[i + 1].prefix
        BY <1>0, <1>1, <1>3, <2>3, <3>1, FirstLine DEF HInv, Loading, Distinct
      <4>2. QED
        BY <2>1, <3>1, <3>3, <4>1
    <3>4. QED
      BY <1>0, <2>1, <2>3, <3>2, <3>3, AddedSlot
  <2>4. QED
    BY <1>1, <1>2, <2>2, <2>3 DEF HInv, Loading
<1>4. CASE LoadFails
  BY <1>1, <1>2, <1>4 DEF LoadFails, HInv, Loading, Distinct
<1>5. CASE UNCHANGED lines /\ (table' = table \/ table' = Aged(table))
  <2>1. \A s \in Slots : table'[s] # NoRoute =>
           table[s] # NoRoute /\ table'[s].prefix = table[s].prefix
    BY <1>0, <1>5, AgedRoute
  <2>2. QED
    BY <1>1, <1>2, <1>5, <2>1 DEF HInv, Loading
<1>6. QED
  BY <1>0, <1>1, <1>3, <1>4, <1>5, LoadSteps

\* A distinct file gives no subnet two slots, and the serving daemon adds none.
LEMMA NextOneSlotEach == HInv /\ [HNext]_<<vars, heard>> => OneSlotEach'
<1> SUFFICES ASSUME HInv, [HNext]_<<vars, heard>>, NEW s \in Slots, NEW q \in Slots,
                    table'[s] # NoRoute, table'[q] # NoRoute,
                    table'[s].prefix = table'[q].prefix, s # q
             PROVE  FALSE
  BY DEF OneSlotEach
<1>0. [Next]_vars /\ TypeOK /\ table \in Tables
  BY WatchedStep DEF HInv, HTypeOK, TypeOK
<1>1. CASE pc # "load"
  BY <1>0, <1>1, NoSecondSlot DEF HInv, OneSlotEach
<1>2. CASE LoadRoute
  <2>1. PICK r \in Route : r.prefix = lines[1].prefix /\ table' = Add(table, r)
    BY <1>0, <1>2, FirstLine
  <2>2. \A x \in Slots : table[x] # NoRoute => table[x].prefix # lines[1].prefix
    BY <1>0, <1>2, FirstLine DEF HInv, Loading, LoadRoute
  <2>3. ASSUME NEW x \in Slots, NEW y \in Slots, x # y, table'[x] = r,
               \A z \in Slots : z # x => table'[z] = table[z],
               table'[y] # NoRoute, table'[y].prefix = table'[x].prefix
        PROVE  FALSE
    BY <2>1, <2>2, <2>3
  <2>4. \/ table[s] # NoRoute /\ table'[s] = table[s]
        \/ table'[s] = r /\ \A z \in Slots : z # s => table'[z] = table[z]
    BY <1>0, <2>1, AddedSlot
  <2>5. \/ table[q] # NoRoute /\ table'[q] = table[q]
        \/ table'[q] = r /\ \A z \in Slots : z # q => table'[z] = table[z]
    BY <1>0, <2>1, AddedSlot
  <2>6. QED
    BY <2>3, <2>4, <2>5 DEF HInv, OneSlotEach
<1>3. CASE LoadFails \/ table' = table \/ table' = Aged(table)
  <2>1. \A x \in Slots : table'[x] # NoRoute =>
           table[x] # NoRoute /\ table'[x].prefix = table[x].prefix
    BY <1>0, <1>3, AgedRoute DEF LoadFails
  <2>2. QED
    BY <2>1 DEF HInv, OneSlotEach
<1>4. QED
  BY <1>0, <1>1, <1>2, <1>3, LoadSteps

---------------------------------------------------------------------------
(* The next hop is believed.                                               *)

\* A step takes an entry in one of four ways, or it is none of the history's
\* business and at most drops or ages routes.
LEMMA EntrySteps ==
    ASSUME TypeOK, [Next]_vars, pc # "load"
    PROVE  \/ AddRoute \/ RefreshFromNextHop \/ BetterMetric \/ IgnoreEntry
           \/ /\ ~(HasEntry /\ msg' # msg)
              /\ table' \in {table, RemoveExpired(table), Aged(table)}
BY DEF Next, vars, Daemon, Load, LoadRoute, LoadFails, LoadDone, Receive, ChooseTimeout,
       RecvTimeout, RecvEmpty, RecvRequest, RecvResponse, RecvOther, Takes, Review, RecvError,
       Process, UnknownUnreachable, EndOfEntries, HasEntry, Send, SendReply, SendUpdate,
       SendExits, SendOverrun, Arrives, Deliver, Tick

\* Routes only lost or aged are as believable as they were.
LEMMA LessToBelieve ==
    ASSUME table \in Tables, Believed(table, heard),
           NEW t \in {table, RemoveExpired(table), Aged(table)}
    PROVE  Believed(t, heard)
<1>1. CASE t = table
  BY <1>1
<1>2. CASE t = RemoveExpired(table)
  BY <1>2 DEF RemoveExpired, Believed
<1>3. CASE t = Aged(table)
  <2>1. ASSUME NEW s \in Slots, t[s] # NoRoute
        PROVE  /\ table[s] # NoRoute
               /\ t[s].nextHop = table[s].nextHop /\ t[s].prefix = table[s].prefix
               /\ t[s].metric = table[s].metric
               /\ Finite(table[s]) => Finite(t[s])
    <3>1. table[s] # NoRoute /\ table[s] \in Route
      BY <1>3, <2>1, AgedRoute DEF Tables
    <3>2. t[s].timer = Older(table[s].timer) /\ table[s].timer \in Timers
      BY <1>3, <3>1, AgedRoute DEF Route
    <3>3. Finite(table[s]) => Finite(t[s])
      BY <3>2, OlderType DEF Finite
    <3>4. QED
      BY <1>3, <3>1, <3>3, AgedRoute
  <2>2. QED
    BY <2>1 DEF Believed
<1>4. QED
  BY <1>1, <1>2, <1>3

\* An entry touches the one route of its subnet and what is heard of that
\* subnet: the other routes are believed as before.
LEMMA OtherSubnets ==
    ASSUME HInv, HasEntry, NEW s \in Slots, table[s] # NoRoute,
           table[s].prefix # ThisEntry.prefix,
           \A n \in Addr, p \in Prefix :
              ~(n = msg.src /\ p = ThisEntry.prefix) => heard'[n][p] = heard[n][p]
    PROVE  \/ heard'[table[s].nextHop][table[s].prefix] = Silent
           \/ /\ Finite(table[s])
              /\ table[s].metric <= heard'[table[s].nextHop][table[s].prefix]
<1>1. table[s] \in Route
  BY DEF HInv, HTypeOK, TypeOK, Tables
<1>2. table[s].nextHop \in Addr /\ table[s].prefix \in Prefix
  BY <1>1 DEF Route
<1>3. heard'[table[s].nextHop][table[s].prefix] = heard[table[s].nextHop][table[s].prefix]
  BY <1>2
<1>4. QED
  BY <1>3 DEF HInv, Believed

\* Each branch of the loop on the entries, and every other step, keeps the
\* routes believable.
LEMMA NextBelieved == HInv /\ [HNext]_<<vars, heard>> => Believed(table, heard)'
<1> SUFFICES ASSUME HInv, [HNext]_<<vars, heard>>
             PROVE  Believed(table', heard')
  BY DEF Believed
<1>0. /\ [Next]_vars /\ Listens /\ HTypeOK /\ TypeOK /\ table \in Tables
      /\ Believed(table, heard)
  BY WatchedStep DEF HInv, HTypeOK, TypeOK
<1>1. CASE pc = "load"
  <2>1. heard' = heard
    BY <1>0, <1>1 DEF Listens, HasEntry
  <2>2. table' \in Tables
    BY <1>0, NextType DEF TypeOK
  <2>3. \A s \in Slots : table'[s] # NoRoute =>
           heard'[table'[s].nextHop][table'[s].prefix] = Silent
    BY <1>1, <2>1, <2>2 DEF HInv, Loading, Tables, Route
  <2>4. QED
    BY <2>3 DEF Believed
<1> DEFINE slot  == ThisSlot
           entry == ThisEntry
           now   == ThisMetric
<1>2. ASSUME HasEntry, NextEntry
      PROVE  /\ msg.src \in Addr /\ entry.prefix \in Prefix /\ now \in Nat
             /\ heard'[msg.src][entry.prefix] = now
             /\ \A n \in Addr, p \in Prefix :
                  ~(n = msg.src /\ p = entry.prefix) => heard'[n][p] = heard[n][p]
  BY <1>0, <1>2, EntryFacts, EntryIsHeard, HeardSteps
<1>3. ASSUME HasEntry, ThisRoute # NoRoute
      PROVE  /\ slot \in Slots /\ table[slot] \in Route /\ table[slot] # NoRoute
             /\ ThisRoute = table[slot] /\ table[slot].prefix = entry.prefix
             /\ table[slot].nextHop \in Addr /\ table[slot].metric \in Nat
             /\ \A q \in Slots : q # slot /\ table[q] # NoRoute
                                  => table[q].prefix # entry.prefix
  <2>1. /\ slot \in Slots /\ table[slot] \in Route /\ table[slot] # NoRoute
        /\ ThisRoute = table[slot] /\ table[slot].prefix = entry.prefix
    BY <1>0, <1>3, EntryFacts, TableSizeAssumption DEF ThisRoute, Get, Slots
  <2>2. QED
    BY <2>1 DEF HInv, OneSlotEach, Route
<1>4. CASE AddRoute
  <2> DEFINE r == NewRoute(entry.prefix, msg.src, entry.metric + 1, RouteTimeout)
  <2>1. HasEntry /\ NextEntry /\ table' = Add(table, r)
    BY <1>4 DEF AddRoute
  <2>2. r \in Route
    BY <1>0, <2>1, EntryFacts, NewRouteType, RouteTimeoutAssumption
       DEF Timers, InfiniteTimeout
  <2>3. \A s \in Slots : table[s] # NoRoute => table[s].prefix # entry.prefix
    BY <1>0, <1>4, <2>1, EntryFacts, TableSizeAssumption
       DEF AddRoute, IsNew, Slots, Matching, Occupied
  <2>4. r.nextHop = msg.src /\ r.prefix = entry.prefix /\ Finite(r) /\ r.metric = now
    <3>1. entry.metric # Unreachable
      BY <1>0, <1>4, <2>1, EntryFacts, UnreachableAssumption
         DEF AddRoute, IsNew, ThisMetric, OneHopMore
    <3>2. now = entry.metric + 1
      BY <3>1 DEF ThisMetric, OneHopMore
    <3>3. Finite(r)
      BY RouteTimeoutAssumption DEF NewRoute, Finite, InfiniteTimeout
    <3>4. QED
      BY <3>2, <3>3 DEF NewRoute
  <2> HIDE DEF r, entry, now
  <2>5. ASSUME NEW s \in Slots, table'[s] # NoRoute
        PROVE  \/ heard'[table'[s].nextHop][table'[s].prefix] = Silent
               \/ /\ Finite(table'[s])
                  /\ table'[s].metric <= heard'[table'[s].nextHop][table'[s].prefix]
    <3>1. CASE table[s] # NoRoute /\ table'[s] = table[s]
      BY <1>2, <2>1, <2>3, <3>1, OtherSubnets DEF entry
    <3>2. CASE table'[s] = r
      BY <1>2, <2>1, <2>4, <3>2
    <3>3. QED
      BY <1>0, <2>1, <2>2, <2>5, <3>1, <3>2, AddedSlot
  <2>6. QED
    BY <2>5 DEF Believed
<1>5. ASSUME HasEntry, ThisRoute # NoRoute, NextEntry,
             table' = Refreshed(table, slot, now),
             msg.src = table[slot].nextHop \/ now < table[slot].metric
      PROVE  Believed(table', heard')
  <2>1. /\ table'[slot].prefix = entry.prefix
        /\ table'[slot].nextHop = table[slot].nextHop
        /\ table'[slot].metric = now
        /\ Finite(table'[slot])
        /\ \A q \in Slots : q # slot => table'[q] = table[q]
    BY <1>0, <1>2, <1>3, <1>5, RefreshedTable, RouteTimeoutAssumption
       DEF Finite, InfiniteTimeout
  <2> HIDE DEF slot, entry, now
  <2>2. \/ heard'[table'[slot].nextHop][table'[slot].prefix] = Silent
        \/ table'[slot].metric <= heard'[table'[slot].nextHop][table'[slot].prefix]
    <3>1. CASE msg.src = table[slot].nextHop
      BY <1>2, <1>5, <2>1, <3>1
    <3>2. CASE msg.src # table[slot].nextHop
      <4>1. heard'[table[slot].nextHop][entry.prefix] = heard[table[slot].nextHop][entry.prefix]
        BY <1>2, <1>3, <1>5, <3>2
      <4>2. \/ heard[table[slot].nextHop][entry.prefix] = Silent
            \/ /\ heard[table[slot].nextHop][entry.prefix] \in Nat
               /\ table[slot].metric <= heard[table[slot].nextHop][entry.prefix]
        BY <1>0, <1>2, <1>3, <1>5 DEF Believed, HTypeOK
      <4>3. now < table[slot].metric /\ now \in Nat /\ table[slot].metric \in Nat
        BY <1>2, <1>3, <1>5, <3>2
      <4>4. QED
        BY <2>1, <4>1, <4>2, <4>3
    <3>3. QED
      BY <3>1, <3>2
  <2>3. ASSUME NEW s \in Slots, s # slot, table'[s] # NoRoute
        PROVE  \/ heard'[table'[s].nextHop][table'[s].prefix] = Silent
               \/ /\ Finite(table'[s])
                  /\ table'[s].metric <= heard'[table'[s].nextHop][table'[s].prefix]
    BY <1>2, <1>3, <1>5, <2>1, <2>3, OtherSubnets DEF entry
  <2>4. QED
    BY <2>1, <2>2, <2>3 DEF Believed
<1>6. CASE RefreshFromNextHop \/ BetterMetric
  BY <1>0, <1>3, <1>5, <1>6 DEF RefreshFromNextHop, BetterMetric
<1>7. CASE IgnoreEntry
  <2>1. /\ HasEntry /\ NextEntry /\ table' = table /\ ThisRoute # NoRoute
        /\ msg.src # table[slot].nextHop
    BY <1>3, <1>7 DEF IgnoreEntry
  <2> HIDE DEF slot, entry, now
  <2>2. heard'[table[slot].nextHop][table[slot].prefix]
            = heard[table[slot].nextHop][table[slot].prefix]
    BY <1>2, <1>3, <2>1
  <2>3. ASSUME NEW s \in Slots, s # slot, table[s] # NoRoute
        PROVE  \/ heard'[table[s].nextHop][table[s].prefix] = Silent
               \/ /\ Finite(table[s])
                  /\ table[s].metric <= heard'[table[s].nextHop][table[s].prefix]
    BY <1>2, <1>3, <2>1, <2>3, OtherSubnets DEF entry
  <2>4. QED
    BY <1>0, <2>1, <2>2, <2>3 DEF Believed
<1>8. CASE ~(HasEntry /\ msg' # msg) /\ table' \in {table, RemoveExpired(table), Aged(table)}
  <2>1. heard' = heard
    BY <1>0, <1>8 DEF Listens
  <2>2. QED
    BY <1>0, <1>8, <2>1, LessToBelieve
<1>9. QED
  BY <1>0, <1>1, <1>4, <1>6, <1>7, <1>8, EntrySteps

\* With a route file that lists no subnet twice, a route with a timer never
\* claims a longer way than its next hop last reported.
THEOREM BelievesNextHop == FilesAreDistinct => (HSpec => []NoWorseThanNextHop)
<1> SUFFICES ASSUME FilesAreDistinct PROVE HSpec => []NoWorseThanNextHop
  OBVIOUS
<1>1. HInit => HInv
  <2> SUFFICES ASSUME HInit PROVE HInv
    OBVIOUS
  <2>1. HTypeOK
    BY InitType DEF HInit, HTypeOK
  <2>2. \A s \in Slots : table[s] = NoRoute
    BY DEF HInit, Init, EmptyTable
  <2>3. QED
    BY <2>1, <2>2 DEF HInit, Init, HInv, Loading, OneSlotEach, Believed, FilesAreDistinct
<1>2. HInv /\ [HNext]_<<vars, heard>> => HInv'
  BY NextHType, NextLoading, NextOneSlotEach, NextBelieved DEF HInv
<1>3. HInv => NoWorseThanNextHop
  BY DEF HInv, Believed, NoWorseThanNextHop
<1>4. QED
  BY <1>1, <1>2, <1>3, PTL DEF HSpec

=============================================================================
