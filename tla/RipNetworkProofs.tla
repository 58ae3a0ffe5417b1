---------------------------- MODULE RipNetworkProofs ----------------------------
(***************************************************************************)
(* Proofs about RipNetwork, for every set of daemons and subnets, every    *)
(* table size, every content of the files and every loss.                  *)
(*                                                                         *)
(* Three theorems say that routes and entries stay in some sets: those of  *)
(* their type, those with an origin, those with a metric of at most 16.    *)
(* The steps of the daemons are examined once, for any two sets that what  *)
(* a daemon makes of routes and entries does not leave.                    *)
(*                                                                         *)
(* The fourth follows the last word of a daemon from the queue of the one  *)
(* that hears it, through its job, into its table.                         *)
(***************************************************************************)
EXTENDS RipNetwork, RipRouteTableProofs, SequenceTheorems, FiniteSetTheorems

---------------------------------------------------------------------------
(* The order in which send_table takes the slots.                          *)

\* send_table sends entries of routes of the table, and of nothing else.
LEMMA EntriesOfTable ==
    ASSUME NEW t \in Tables
    PROVE  /\ Cardinality(Occupied(t)) \in Nat
           /\ DOMAIN EntriesOf(t) = 1 .. Cardinality(Occupied(t))
           /\ EntriesOf(t) = [i \in 1 .. Cardinality(Occupied(t)) |-> EntriesOf(t)[i]]
           /\ \A i \in DOMAIN EntriesOf(t) :
                 \E s \in Occupied(t) : EntriesOf(t)[i] = EntryOf(t[s])
<1>1. Occupied(t) \subseteq 0 .. TableSize - 1
  BY DEF Occupied, Slots
<1>2. Enumerable(Occupied(t))
  BY <1>1, SlotsEnumerable, TableSizeAssumption
<1>3. SlotsInOrder(t) \in [1 .. Cardinality(Occupied(t)) -> Occupied(t)]
  BY <1>2 DEF SlotsInOrder, Enumerable, Increasing
<1>4. Cardinality(Occupied(t)) \in Nat
  <2>1. IsFiniteSet(0 .. TableSize - 1)
    BY FS_Interval, TableSizeAssumption
  <2>2. IsFiniteSet(Occupied(t))
    BY <1>1, <2>1, FS_Subset
  <2>3. QED
    BY <2>2, FS_CardinalityType
<1>5. QED
  BY <1>3, <1>4 DEF EntriesOf

---------------------------------------------------------------------------
(* Sets of entries and routes that the steps of the network do not leave.  *)

TablesOf(R)   == [Slots -> R \cup {NoRoute}]
DatagramOf(E) == [kind : {"request", "response"}, src : Hosts, entries : Seq(E)]
JobOf(E)      == [src : Hosts, entries : Seq(E), changed : BOOLEAN, due : BOOLEAN]

\* What the daemon makes of an entry of E and a route of R is in R, what it sends
\* of a route of R is in E, and what the files hold is in R and E.
Closed(E, R) ==
    /\ E \subseteq Entry /\ R \subseteq Route
    /\ \A r \in R : EntryOf(r) \in E
    /\ \A e \in E, h \in Hosts :
          OneHopMore(e.metric) < Unreachable =>
              NewRoute(e.prefix, h, e.metric + 1, RouteTimeout) \in R
    /\ \A r \in R, e \in E :
          e.prefix = r.prefix =>
              [r EXCEPT !.metric = OneHopMore(e.metric), !.timer = RouteTimeout] \in R
    /\ \A r \in R : [r EXCEPT !.timer = Older(@)] \in R
    /\ \A d \in Daemons : BootTables[d] \subseteq TablesOf(R)
    /\ ClientEntries \subseteq Seq(E)

\* The type invariant with E for the entries and R for the routes.
Within(E, R) ==
    /\ alive \subseteq Daemons
    /\ table \in [Daemons -> TablesOf(R)]
    /\ job \in [Daemons -> JobOf(E) \cup {Idle}]
    /\ inbox \in [Hosts -> Seq(DatagramOf(E))]
    /\ client \in {"off", "wait"}
    /\ target \in Daemons
    /\ told \subseteq Daemons \X Daemons
    /\ lost \in BOOLEAN
    /\ restarts \in 0 .. MaxRestarts /\ asks \in 0 .. MaxAsks

\* What a send does to the queues: it drops from the sender's own, and adds to
\* that of a host that listens.
LEMMA QueuesWithin ==
    ASSUME NEW E, NEW boxes \in [Hosts -> Seq(DatagramOf(E))]
    PROVE  /\ \A d \in Hosts : \A n \in 0 .. Len(boxes[d]) :
                 [boxes EXCEPT ![d] = SubSeq(@, n + 1, Len(@))]
                     \in [Hosts -> Seq(DatagramOf(E))]
           /\ \A d \in Hosts : boxes[d] # <<>> =>
                 /\ Head(boxes[d]) \in DatagramOf(E)
                 /\ [boxes EXCEPT ![d] = Tail(@)] \in [Hosts -> Seq(DatagramOf(E))]
           /\ \A d \in Hosts : [boxes EXCEPT ![d] = <<>>] \in [Hosts -> Seq(DatagramOf(E))]
           /\ \A to : \A m \in DatagramOf(E) :
                 Queued(to, m, boxes) \in [Hosts -> Seq(DatagramOf(E))]
<1> DEFINE D == DatagramOf(E)
<1> HIDE DEF D
<1>0. boxes \in [Hosts -> Seq(D)]
  BY DEF D
<1>1. ASSUME NEW d \in Hosts, NEW n \in 0 .. Len(boxes[d])
      PROVE  SubSeq(boxes[d], n + 1, Len(boxes[d])) \in Seq(D)
  <2>1. boxes[d] \in Seq(D) /\ Len(boxes[d]) \in Nat /\ n + 1 \in Int
    BY <1>0, <1>1, LenProperties
  <2>2. \A i \in n + 1 .. Len(boxes[d]) : boxes[d][i] \in D
    BY <2>1, ElementOfSeq
  <2>3. QED
    BY <2>1, <2>2, SubSeqProperties
<1>2. ASSUME NEW d \in Hosts, boxes[d] # <<>>
      PROVE  Head(boxes[d]) \in D /\ Tail(boxes[d]) \in Seq(D)
  BY <1>0, <1>2, HeadTailProperties
<1>3. <<>> \in Seq(D)
  BY EmptySeq
<1>4. ASSUME NEW h \in Hosts, NEW m \in D
      PROVE  Append(boxes[h], m) \in Seq(D)
  BY <1>0, <1>4, AppendProperties
<1>5. QED
  BY <1>0, <1>1, <1>2, <1>3, <1>4 DEF Queued, D

\* A response made of a table within R is within E.
LEMMA ResponseWithin ==
    ASSUME NEW E, NEW R, Closed(E, R), NEW t \in TablesOf(R), NEW h \in Hosts
    PROVE  Response(h, EntriesOf(t)) \in DatagramOf(E)
<1>1. t \in Tables /\ \A s \in Occupied(t) : t[s] \in R
  BY DEF TablesOf, Tables, Occupied, Closed
<1>2. \A i \in DOMAIN EntriesOf(t) : EntriesOf(t)[i] \in E
  BY <1>1, EntriesOfTable DEF Closed
<1>3. EntriesOf(t) \in Seq(E)
  BY <1>1, <1>2, EntriesOfTable, SeqDef
<1>4. QED
  BY <1>3 DEF Response, DatagramOf

\* What the daemon makes of one entry.
LEMMA EntryWithin ==
    ASSUME NEW E, NEW R, Closed(E, R),
           NEW t \in TablesOf(R), NEW ch \in BOOLEAN, NEW src \in Hosts, NEW e \in E
    PROVE  LET st == AfterEntry([table |-> t, changed |-> ch, alive |-> TRUE, due |-> FALSE],
                                src, e)
           IN  /\ st.table \in TablesOf(R)
               /\ st.changed \in BOOLEAN
               /\ st.due \in BOOLEAN
<1> DEFINE m  == OneHopMore(e.metric)
           s  == Find(t, e.prefix)
           r  == Get(t, s)
           st == [table |-> t, changed |-> ch, alive |-> TRUE, due |-> FALSE]
           nw == NewRoute(e.prefix, src, e.metric + 1, RouteTimeout)
<1>1. t \in Tables /\ e \in Entry /\ e.prefix \in Prefix
  BY DEF TablesOf, Tables, Closed, Entry
<1>2. \/ s = -1
      \/ s \in Slots /\ s # -1 /\ r = t[s] /\ t[s] \in R /\ t[s].prefix = e.prefix
  <2>1. \/ s = -1
        \/ s \in Slots /\ t[s] # NoRoute /\ t[s].prefix = e.prefix
    BY <1>1, FindFinds
  <2>2. s \in Slots => s # -1
    BY TableSizeAssumption DEF Slots
  <2> HIDE DEF s
  <2>3. QED
    BY <2>1, <2>2 DEF Get, TablesOf
<1>3. ASSUME m < Unreachable
      PROVE  Add(t, nw) \in TablesOf(R)
  <2>1. nw \in R
    BY <1>3 DEF Closed
  <2>2. nw \in Route
    BY <2>1 DEF Closed
  <2> HIDE DEF nw
  <2>3. QED
    BY <1>1, <2>1, <2>2, AddAdds DEF TablesOf
<1>4. ASSUME s # -1
      PROVE  Refreshed(t, s, m) \in TablesOf(R)
  <2>1. s \in Slots /\ t[s] \in R /\ t[s].prefix = e.prefix
    BY <1>2, <1>4
  <2>2. [t[s] EXCEPT !.metric = m, !.timer = RouteTimeout] \in R
    BY <2>1 DEF Closed
  <2>3. t[s] \in Route
    BY <2>1 DEF Closed
  <2> HIDE DEF s, m
  <2>4. Refreshed(t, s, m) =
            [t EXCEPT ![s] = [t[s] EXCEPT !.metric = m, !.timer = RouteTimeout]]
    BY <2>1, <2>3 DEF Refreshed, TablesOf, Route
  <2>5. QED
    BY <2>1, <2>2, <2>4 DEF TablesOf
<1> DEFINE b == Branch(st, src, e)
<1>5. \/ m < Unreachable /\ b = [st EXCEPT !.table = Add(t, nw), !.changed = TRUE]
      \/ b = [st EXCEPT !.alive = FALSE]
      \/ s # -1 /\ b = [st EXCEPT !.table = Refreshed(t, s, m), !.changed = TRUE]
      \/ b = st
  BY DEF Branch
<1>6. /\ b.table \in TablesOf(R) /\ b.changed \in BOOLEAN /\ b.alive \in BOOLEAN
      /\ [b EXCEPT !.due = b.alive /\ b.changed].table = b.table
      /\ [b EXCEPT !.due = b.alive /\ b.changed].changed = b.changed
      /\ [b EXCEPT !.due = b.alive /\ b.changed].due = (b.alive /\ b.changed)
  <2> HIDE DEF m, s, nw, b
  <2>1. CASE m < Unreachable /\ b = [st EXCEPT !.table = Add(t, nw), !.changed = TRUE]
    BY <1>3, <2>1
  <2>2. CASE b = [st EXCEPT !.alive = FALSE]
    BY <2>2
  <2>3. CASE s # -1 /\ b = [st EXCEPT !.table = Refreshed(t, s, m), !.changed = TRUE]
    BY <1>4, <2>3
  <2>4. CASE b = st
    BY <2>4
  <2>5. QED
    BY <1>5, <2>1, <2>2, <2>3, <2>4
<1>7. AfterEntry(st, src, e) = [b EXCEPT !.due = b.alive /\ b.changed]
  BY DEF AfterEntry
<1> HIDE DEF b
<1>8. QED
  BY <1>6, <1>7

\* A tick, a review and the death of a daemon keep its table within R.
LEMMA TableWithin ==
    ASSUME NEW E, NEW R, Closed(E, R), NEW t \in TablesOf(R)
    PROVE  /\ Aged(t) \in TablesOf(R)
           /\ RemoveExpired(t) \in TablesOf(R)
           /\ EmptyTable \in TablesOf(R)
BY DEF Aged, RemoveExpired, EmptyTable, TablesOf, Closed

\* The daemons start with what their files hold.
LEMMA InitWithin ==
    ASSUME NEW E, NEW R, Closed(E, R), Init
    PROVE  Within(E, R)
<1>1. table \in [Daemons -> TablesOf(R)]
  BY DEF Init, Closed
<1>2. \A d \in Hosts : inbox[d] \in Seq(DatagramOf(E))
  BY EmptySeq DEF Init
<1>3. inbox \in [Hosts -> Seq(DatagramOf(E))]
  BY <1>2 DEF Init
<1>4. 0 \in 0 .. MaxRestarts /\ 0 \in 0 .. MaxAsks
  BY BoundsAssumption
<1>5. QED
  BY <1>1, <1>3, <1>4 DEF Init, Within

\* The death of a daemon.
LEMMA DiesWithin ==
    ASSUME NEW E, NEW R, Closed(E, R), Within(E, R), NEW d \in Daemons, Dies(d),
           UNCHANGED <<client, target, restarts, asks>>
    PROVE  Within(E, R)'
<1>1. table' \in [Daemons -> TablesOf(R)]
  <2>1. EmptyTable \in TablesOf(R)
    BY DEF EmptyTable, TablesOf
  <2>2. QED
    BY <2>1 DEF Dies, Within
<1>2. inbox' \in [Hosts -> Seq(DatagramOf(E))]
  BY QueuesWithin DEF Dies, Within, Hosts
<1>3. job' \in [Daemons -> JobOf(E) \cup {Idle}]
  BY DEF Dies, Within
<1>4. lost' \in BOOLEAN
  BY DEF Dies, Within
<1>5. told' \subseteq Daemons \X Daemons /\ alive' \subseteq Daemons
  BY DEF Dies, Within
<1>6. QED
  BY <1>1, <1>2, <1>3, <1>4, <1>5 DEF Within

\* Who may read an update, and listens, is a daemon.
LEMMA HearersAreDaemons ==
    ASSUME alive \subseteq Daemons, NEW d \in Daemons, NEW to \in SUBSET Hearers(d),
           NEW boxes, \A h \in to : CanQueue(h, boxes)
    PROVE  to \subseteq Daemons
<1>1. Hearers(d) \subseteq Daemons \cup {Nobody}
  BY HopAssumption DEF Hearers
<1>2. ~Listens(Nobody)
  BY HostsAssumption DEF Listens, Hosts
<1>3. QED
  BY <1>1, <1>2 DEF CanQueue

\* Every step of a daemon keeps entries and routes where they were.
LEMMA DaemonWithin ==
    ASSUME NEW E, NEW R, Closed(E, R), Within(E, R),
           NEW d \in Daemons, Daemon(d)
    PROVE  Within(E, R)'
<1>0. d \in Hosts
  BY DEF Hosts
<1>1. CASE AnswerRequest(d)
  <2>1. PICK n \in 1 .. Len(inbox[d]) :
          LET to == Head(inbox[d]).src
              boxes == AfterDrop(d, n)
          IN  /\ told' = StillTold(d, n)
              /\ \/ inbox' = boxes /\ lost' = TRUE
                 \/ /\ CanQueue(to, boxes)
                    /\ inbox' = Queued({to}, Response(d, EntriesOf(table[d])), boxes)
                    /\ UNCHANGED lost
    BY <1>1 DEF AnswerRequest
  <2>2. AfterDrop(d, n) \in [Hosts -> Seq(DatagramOf(E))]
    BY <1>0, QueuesWithin DEF AfterDrop, Within
  <2>3. Response(d, EntriesOf(table[d])) \in DatagramOf(E)
    BY <1>0, ResponseWithin DEF Within
  <2>4. inbox' \in [Hosts -> Seq(DatagramOf(E))]
    BY <2>1, <2>2, <2>3, QueuesWithin DEF Within
  <2>5. lost' \in BOOLEAN /\ told' \subseteq Daemons \X Daemons
    BY <2>1 DEF Within, StillTold
  <2>6. QED
    BY <1>1, <2>4, <2>5 DEF AnswerRequest, Within
<1>2. CASE TakeResponse(d)
  <2>1. /\ Head(inbox[d]) \in DatagramOf(E)
        /\ inbox' \in [Hosts -> Seq(DatagramOf(E))]
    BY <1>0, <1>2, QueuesWithin DEF TakeResponse, Within
  <2>2. [src |-> Head(inbox[d]).src, entries |-> Head(inbox[d]).entries,
         changed |-> FALSE, due |-> FALSE] \in JobOf(E)
    BY <2>1 DEF JobOf, DatagramOf
  <2>3. job' \in [Daemons -> JobOf(E) \cup {Idle}]
    BY <1>2, <2>2 DEF TakeResponse, Within
  <2>4. QED
    BY <1>2, <2>1, <2>3 DEF TakeResponse, Within
<1>3. CASE StepEntry(d)
  <2> DEFINE st == AfterNextEntry(d)
  <2>1. /\ job[d] \in JobOf(E)
        /\ job[d].src \in Hosts /\ job[d].changed \in BOOLEAN
        /\ job[d].entries \in Seq(E) /\ job[d].entries # <<>>
    BY <1>3 DEF StepEntry, Looping, Within, JobOf
  <2>2. Head(job[d].entries) \in E /\ Tail(job[d].entries) \in Seq(E)
    BY <2>1, HeadTailProperties
  <2>3. st.table \in TablesOf(R) /\ st.changed \in BOOLEAN /\ st.due \in BOOLEAN
    BY <2>1, <2>2, EntryWithin DEF AfterNextEntry, Within
  <2>4. CASE st.alive
    <3>1. /\ table' = [table EXCEPT ![d] = st.table]
          /\ job' = [job EXCEPT ![d].entries = Tail(@), ![d].changed = st.changed,
                                ![d].due = st.due]
          /\ UNCHANGED <<alive, inbox, told, lost>>
      BY <1>3, <2>4 DEF StepEntry
    <3> HIDE DEF st
    <3>2. table' \in [Daemons -> TablesOf(R)]
      BY <2>3, <3>1 DEF Within
    <3> DEFINE j == [job[d] EXCEPT !.entries = Tail(job[d].entries), !.changed = st.changed,
                                   !.due = st.due]
    <3>3. j \in JobOf(E)
      BY <2>1, <2>2, <2>3 DEF JobOf
    <3>4. job' = [job EXCEPT ![d] = j]
      BY <2>1, <3>1 DEF Within, JobOf
    <3> HIDE DEF j
    <3>5. job' \in [Daemons -> JobOf(E) \cup {Idle}]
      BY <3>3, <3>4 DEF Within
    <3>6. QED
      BY <1>3, <3>1, <3>2, <3>5 DEF StepEntry, Within
  <2>5. CASE ~st.alive
    <3>1. Dies(d) /\ UNCHANGED <<client, target, restarts, asks>>
      BY <1>3, <2>5 DEF StepEntry
    <3>2. QED
      BY <3>1, DiesWithin
  <2>6. QED
    BY <2>4, <2>5
<1>4. CASE EndOfEntries(d)
  BY <1>4 DEF EndOfEntries, Within
<1>5. CASE SendUpdate(d)
  <2>1. PICK n \in 0 .. Len(inbox[d]), to \in SUBSET Hearers(d) :
          LET boxes == AfterDrop(d, n)
          IN  /\ \A h \in to : CanQueue(h, boxes)
              /\ inbox' = Queued(to, Response(d, EntriesOf(table[d])), boxes)
              /\ told' = {p \in StillTold(d, n) : p[1] # d} \cup ({d} \X to)
              /\ lost' = (lost \/ LosesRequest(d, n))
    BY <1>5 DEF SendUpdate
  <2>2. AfterDrop(d, n) \in [Hosts -> Seq(DatagramOf(E))]
    BY <1>0, QueuesWithin DEF AfterDrop, Within
  <2>3. Response(d, EntriesOf(table[d])) \in DatagramOf(E)
    BY <1>0, ResponseWithin DEF Within
  <2>4. inbox' \in [Hosts -> Seq(DatagramOf(E))]
    BY <2>1, <2>2, <2>3, QueuesWithin DEF Within
  <2>5. told' \subseteq Daemons \X Daemons
    <3>1. to \subseteq Daemons
      BY <2>1, HearersAreDaemons DEF Within
    <3>2. QED
      BY <2>1, <3>1 DEF Within, StillTold
  <2>6. lost' \in BOOLEAN
    BY <2>1
  <2>7. job' \in [Daemons -> JobOf(E) \cup {Idle}]
    <3>1. job[d] \in JobOf(E)
      BY <1>5 DEF SendUpdate, Due, Within
    <3>2. [job[d] EXCEPT !.due = FALSE] \in JobOf(E)
      BY <3>1 DEF JobOf
    <3>3. job' = [job EXCEPT ![d] = [job[d] EXCEPT !.due = FALSE]]
      BY <1>5, <3>1 DEF SendUpdate, Within, JobOf
    <3>4. QED
      BY <3>2, <3>3 DEF Within
  <2>8. QED
    BY <1>5, <2>4, <2>5, <2>6, <2>7 DEF SendUpdate, Within
<1>6. CASE Review(d)
  <2>1. table' \in [Daemons -> TablesOf(R)]
    BY <1>6, TableWithin DEF Review, Within
  <2>2. QED
    BY <1>6, <2>1 DEF Review, Within
<1>7. CASE SendEnds(d)
  BY <1>7, DiesWithin DEF SendEnds
<1>8. QED
  BY <1>1, <1>2, <1>3, <1>4, <1>5, <1>6, <1>7 DEF Daemon

\* Every step of the client, of the operator and of the clock does so too.
LEMMA OthersWithin ==
    ASSUME NEW E, NEW R, Closed(E, R), Within(E, R),
           \/ \E d \in Daemons : Kill(d) \/ Restart(d)
           \/ ClientAsks \/ ClientAnnounces \/ Tick
    PROVE  Within(E, R)'
<1>0. Client \in Hosts /\ Daemons \subseteq Hosts
  BY DEF Hosts
<1>1. ASSUME NEW d \in Daemons, Kill(d) PROVE Within(E, R)'
  BY <1>1, DiesWithin DEF Kill
<1>2. ASSUME NEW d \in Daemons, Restart(d) PROVE Within(E, R)'
  <2>1. PICK t \in BootTables[d] : table' = [table EXCEPT ![d] = t]
    BY <1>2 DEF Restart
  <2>2. table' \in [Daemons -> TablesOf(R)]
    BY <2>1 DEF Within, Closed
  <2>3. restarts' \in 0 .. MaxRestarts
    BY <1>2, BoundsAssumption DEF Restart, Within
  <2>4. QED
    BY <1>2, <2>2, <2>3 DEF Restart, Within
<1>3. CASE ClientAsks
  <2> DEFINE m == [kind |-> "request", src |-> Client, entries |-> <<>>]
  <2>1. m \in DatagramOf(E)
    BY <1>0, EmptySeq DEF DatagramOf
  <2>2. PICK d \in Daemons :
          /\ target' = d
          /\ \/ UNCHANGED inbox /\ lost' = TRUE
             \/ CanQueue(d, inbox) /\ inbox' = Queued({d}, m, inbox) /\ lost' = FALSE
    BY <1>3 DEF ClientAsks
  <2> HIDE DEF m
  <2>3. inbox' \in [Hosts -> Seq(DatagramOf(E))]
    BY <1>0, <2>1, <2>2, QueuesWithin DEF Within
  <2>4. asks' \in 0 .. MaxAsks
    BY <1>3, BoundsAssumption DEF ClientAsks, Within
  <2>5. target' \in Daemons /\ lost' \in BOOLEAN
    BY <2>2
  <2>6. QED
    BY <1>3, <2>3, <2>4, <2>5 DEF ClientAsks, Within
<1>4. CASE ClientAnnounces
  <2> DEFINE boxes == [inbox EXCEPT ![Client] = <<>>]
  <2>1. boxes \in [Hosts -> Seq(DatagramOf(E))]
    BY <1>0, QueuesWithin DEF Within
  <2>2. \A es \in ClientEntries : Response(Client, es) \in DatagramOf(E)
    BY <1>0 DEF Response, DatagramOf, Closed
  <2>3. \/ inbox' = boxes
        \/ \E es \in ClientEntries : inbox' = Queued({target}, Response(Client, es), boxes)
    BY <1>4 DEF ClientAnnounces
  <2> HIDE DEF boxes
  <2>5. inbox' \in [Hosts -> Seq(DatagramOf(E))]
    BY <2>1, <2>2, <2>3, QueuesWithin
  <2>6. QED
    BY <1>4, <2>5 DEF ClientAnnounces, Within
<1>5. CASE Tick
  <2>1. table' \in [Daemons -> TablesOf(R)]
    BY <1>5, TableWithin DEF Tick, Within
  <2>2. QED
    BY <1>5, <2>1 DEF Tick, Within
<1>6. QED
  BY <1>1, <1>2, <1>3, <1>4, <1>5

\* So closed sets are never left.
LEMMA NextWithin ==
    ASSUME NEW E, NEW R, Closed(E, R), Within(E, R), [Next]_vars
    PROVE  Within(E, R)'
<1>1. CASE UNCHANGED vars
  BY <1>1 DEF vars, Within
<1>2. CASE Next
  BY <1>2, DaemonWithin, OthersWithin DEF Next
<1>3. QED
  BY <1>1, <1>2

---------------------------------------------------------------------------
(* Three closed sets.                                                      *)

\* What a daemon makes of routes and entries is a route or an entry.
LEMMA MadeOfTypes ==
    /\ \A r \in Route : EntryOf(r) \in Entry
    /\ \A e \in Entry, h \in Hosts :
          NewRoute(e.prefix, h, e.metric + 1, RouteTimeout) \in Route
    /\ \A r \in Route, e \in Entry :
          [r EXCEPT !.metric = OneHopMore(e.metric), !.timer = RouteTimeout] \in Route
    /\ \A r \in Route : [r EXCEPT !.timer = Older(@)] \in Route
<1>1. RouteTimeout \in Timers
  BY RouteTimeoutAssumption DEF Timers, InfiniteTimeout
<1>2. \A e \in Entry : e.metric + 1 \in Nat /\ OneHopMore(e.metric) \in Nat
  BY DEF Entry, OneHopMore
<1>3. \A r \in Route : EntryOf(r) \in Entry
  BY DEF EntryOf, Entry, Route
<1>4. \A e \in Entry, h \in Hosts :
          NewRoute(e.prefix, h, e.metric + 1, RouteTimeout) \in Route
  BY <1>1, <1>2, HostsAssumption DEF NewRoute, Entry, Route
<1>5. \A r \in Route, e \in Entry :
          [r EXCEPT !.metric = OneHopMore(e.metric), !.timer = RouteTimeout] \in Route
  BY <1>1, <1>2 DEF Route
<1>6. \A r \in Route : [r EXCEPT !.timer = Older(@)] \in Route
  BY OlderType DEF Route
<1>7. QED
  BY <1>3, <1>4, <1>5, <1>6

\* What the files hold is in type.
LEMMA FilesInType ==
    ASSUME NEW d \in Daemons, NEW t \in BootTables[d]
    PROVE  t \in [Slots -> Route \cup {NoRoute}]
BY BootAssumption DEF Tables

\* The types are closed.
LEMMA TypesClosed == Closed(Entry, Route)
<1>1. \A d \in Daemons : BootTables[d] \subseteq TablesOf(Route)
  BY FilesInType DEF TablesOf
<1>2. QED
  BY <1>1, MadeOfTypes, ClientAssumption DEF Closed

\* Queues, tables and histories keep their types whatever the daemons, the client
\* and the wire do, for any number of daemons and subnets.
THEOREM NetworkTypeCorrect == Spec => []TypeOK
<1>a. Init => Within(Entry, Route)
  BY TypesClosed, InitWithin
<1>b. Within(Entry, Route) /\ [Next]_vars => Within(Entry, Route)'
  BY TypesClosed, NextWithin
<1>1. Spec => []Within(Entry, Route)
  BY <1>a, <1>b, PTL DEF Spec
<1>2. Within(Entry, Route) => TypeOK
  BY DEF Within, TypeOK, TablesOf, Tables, DatagramOf, Datagram, JobOf, Job
<1>3. QED
  BY <1>1, <1>2, PTL

HasOrigin(r) ==
    \E m \in OriginMetrics(r.prefix) :
        \/ r.metric > m
        \/ r.metric = m /\ (Learned(r) => m = Unreachable)

OriginEntries == {e \in Entry : \E m \in OriginMetrics(e.prefix) : e.metric >= m}
OriginRoutes  == {r \in Route : HasOrigin(r)}

\* The metrics of the files are naturals, and the origin of what is in them.
LEMMA OriginsOfFiles ==
    /\ \A p \in Prefix : OriginMetrics(p) \subseteq Nat
    /\ \A d \in Daemons : \A t \in BootTables[d] : \A s \in Occupied(t) :
          t[s].metric \in OriginMetrics(t[s].prefix)
    /\ \A es \in ClientEntries : \A i \in DOMAIN es :
          es[i].metric \in OriginMetrics(es[i].prefix)
<1>1. DOMAIN BootTables = Daemons
  BY BootAssumption
<1>2. \A d \in Daemons : BootTables[d] \in Range(BootTables)
  BY <1>1 DEF Range
<1>3. \A B \in Range(BootTables) : \E d \in Daemons : B = BootTables[d]
  BY <1>1 DEF Range
<1>4. ASSUME NEW t \in UNION Range(BootTables), NEW s \in Occupied(t)
      PROVE  EntryOf(t[s]) \in Entry
  <2>1. PICK d \in Daemons : t \in BootTables[d]
    BY <1>3
  <2>2. t[s] \in Route
    BY <2>1, FilesInType DEF Occupied
  <2>3. QED
    BY <2>2, MadeOfTypes
<1>5. \A es \in ClientEntries : Range(es) \subseteq Entry
  BY ClientAssumption, ElementOfSeq, LenProperties DEF Range
<1>6. Listed \subseteq Entry
  BY <1>4, <1>5 DEF Listed
<1>7. \A p \in Prefix : OriginMetrics(p) \subseteq Nat
  BY <1>6 DEF OriginMetrics, Entry
<1>8. ASSUME NEW d \in Daemons, NEW t \in BootTables[d], NEW s \in Occupied(t)
      PROVE  t[s].metric \in OriginMetrics(t[s].prefix)
  <2>1. t \in UNION Range(BootTables)
    BY <1>2
  <2>2. EntryOf(t[s]) \in Listed
    BY <2>1 DEF Listed
  <2>3. QED
    BY <2>2 DEF OriginMetrics, EntryOf
<1>9. ASSUME NEW es \in ClientEntries, NEW i \in DOMAIN es
      PROVE  es[i].metric \in OriginMetrics(es[i].prefix)
  <2>1. es[i] \in Listed
    BY DEF Listed, Range
  <2>2. QED
    BY <2>1 DEF OriginMetrics
<1>10. QED
  BY <1>7, <1>8, <1>9

\* Routes and entries that have an origin make routes and entries that have one.
LEMMA OriginsClosed == Closed(OriginEntries, OriginRoutes)
<1>1. \A p \in Prefix : OriginMetrics(p) \subseteq Nat
  BY OriginsOfFiles
<1>2. \A r \in OriginRoutes : EntryOf(r) \in OriginEntries
  <2> TAKE r \in OriginRoutes
  <2>1. PICK m \in OriginMetrics(r.prefix) : r.metric >= m
    BY <1>1 DEF OriginRoutes, HasOrigin, Route
  <2>2. EntryOf(r) \in Entry
    BY MadeOfTypes DEF OriginRoutes
  <2>3. QED
    BY <2>1, <2>2 DEF OriginEntries, EntryOf
<1>3. ASSUME NEW e \in OriginEntries, NEW h \in Hosts, OneHopMore(e.metric) < Unreachable
      PROVE  NewRoute(e.prefix, h, e.metric + 1, RouteTimeout) \in OriginRoutes
  <2> DEFINE r == NewRoute(e.prefix, h, e.metric + 1, RouteTimeout)
  <2>1. PICK m \in OriginMetrics(e.prefix) : e.metric >= m
    BY DEF OriginEntries
  <2>2. m \in Nat /\ e.metric \in Nat
    BY <1>1 DEF OriginEntries, Entry
  <2>3. e.metric + 1 > m
    BY <2>1, <2>2
  <2>4. r \in Route /\ r.prefix = e.prefix /\ r.metric = e.metric + 1
    BY MadeOfTypes DEF OriginEntries, NewRoute
  <2> HIDE DEF r
  <2>5. r \in OriginRoutes
    BY <2>1, <2>3, <2>4 DEF OriginRoutes, HasOrigin
  <2>6. QED
    BY <2>5 DEF r
<1>4. ASSUME NEW r \in OriginRoutes, NEW e \in OriginEntries, e.prefix = r.prefix
      PROVE  [r EXCEPT !.metric = OneHopMore(e.metric), !.timer = RouteTimeout] \in OriginRoutes
  <2> DEFINE q == [r EXCEPT !.metric = OneHopMore(e.metric), !.timer = RouteTimeout]
  <2>1. PICK m \in OriginMetrics(e.prefix) : e.metric >= m
    BY DEF OriginEntries
  <2>2. m \in Nat /\ e.metric \in Nat /\ Unreachable \in Nat
    BY <1>1, UnreachableAssumption DEF OriginEntries, Entry
  <2>3. \/ OneHopMore(e.metric) > m
        \/ OneHopMore(e.metric) = m /\ m = Unreachable
    BY <2>1, <2>2 DEF OneHopMore
  <2>4. q \in Route /\ q.prefix = e.prefix /\ q.metric = OneHopMore(e.metric)
    BY <1>4, MadeOfTypes DEF OriginRoutes, OriginEntries, Route
  <2> HIDE DEF q
  <2>5. q \in OriginRoutes
    BY <1>4, <2>1, <2>3, <2>4 DEF OriginRoutes, HasOrigin
  <2>6. QED
    BY <2>5 DEF q
<1>5. ASSUME NEW r \in OriginRoutes
      PROVE  [r EXCEPT !.timer = Older(@)] \in OriginRoutes
  <2> DEFINE q == [r EXCEPT !.timer = Older(@)]
  <2>1. r \in Route /\ q \in Route
    BY MadeOfTypes DEF OriginRoutes
  <2>2. q.prefix = r.prefix /\ q.metric = r.metric /\ (Learned(q) <=> Learned(r))
    BY <2>1, OlderType DEF Learned, Finite, Route
  <2> HIDE DEF q
  <2>3. q \in OriginRoutes
    BY <2>1, <2>2 DEF OriginRoutes, HasOrigin
  <2>4. QED
    BY <2>3 DEF q
<1>6. ASSUME NEW d \in Daemons, NEW t \in BootTables[d]
      PROVE  t \in TablesOf(OriginRoutes)
  <2>1. ASSUME NEW s \in Occupied(t) PROVE t[s] \in OriginRoutes
    <3>1. ~Learned(t[s])
      BY BootAssumption DEF Learned
    <3>2. t[s] \in Route
      BY FilesInType DEF Occupied
    <3>3. QED
      BY <3>1, <3>2, OriginsOfFiles DEF OriginRoutes, HasOrigin
  <2>2. QED
    BY <2>1, FilesInType DEF TablesOf, Occupied
<1>7. ASSUME NEW es \in ClientEntries PROVE es \in Seq(OriginEntries)
  <2>1. es \in Seq(Entry) /\ Len(es) \in Nat /\ DOMAIN es = 1 .. Len(es)
    BY ClientAssumption, LenProperties
  <2>2. \A i \in DOMAIN es : es[i] \in Entry
    BY <2>1, ElementOfSeq
  <2>3. \A i \in DOMAIN es : es[i] \in OriginEntries
    BY <1>1, <2>2, OriginsOfFiles DEF OriginEntries, Entry
  <2>4. es = [i \in 1 .. Len(es) |-> es[i]]
    BY <2>1, SeqDef
  <2>5. QED
    BY <2>1, <2>3, <2>4, SeqDef
<1>8. OriginEntries \subseteq Entry /\ OriginRoutes \subseteq Route
  BY DEF OriginEntries, OriginRoutes
<1>9. QED
  BY <1>2, <1>3, <1>4, <1>5, <1>6, <1>7, <1>8 DEF Closed

\* Through any chain of updates, expiries, deaths and restarts, no daemon has a
\* route cheaper than the place some file says the subnet is at.
THEOREM OriginsRespected == Spec => []MetricHasOrigin
<1>a. Init => Within(OriginEntries, OriginRoutes)
  BY OriginsClosed, InitWithin
<1>b. Within(OriginEntries, OriginRoutes) /\ [Next]_vars => Within(OriginEntries, OriginRoutes)'
  BY OriginsClosed, NextWithin
<1>1. Spec => []Within(OriginEntries, OriginRoutes)
  BY <1>a, <1>b, PTL DEF Spec
<1>2. Within(OriginEntries, OriginRoutes) => MetricHasOrigin
  <2>1. Within(OriginEntries, OriginRoutes) => table \in [Daemons -> TablesOf(OriginRoutes)]
    BY DEF Within
  <2>2. QED
    BY <2>1 DEF TablesOf, OriginRoutes, HasOrigin, MetricHasOrigin, Routes, Occupied
<1>3. QED
  BY <1>1, <1>2, PTL

LowEntries == {e \in Entry : e.metric <= Unreachable}
LowRoutes  == {r \in Route : r.metric <= Unreachable}

\* Where the files hold nothing above 16, nothing above 16 is made.
LEMMA LowClosed ==
    ASSUME OriginsInRange
    PROVE  Closed(LowEntries, LowRoutes)
<1>0. Unreachable \in Nat
  BY UnreachableAssumption
<1>1. \A r \in LowRoutes : EntryOf(r) \in LowEntries
  BY MadeOfTypes DEF LowRoutes, LowEntries, EntryOf
<1>2. \A e \in LowEntries : OneHopMore(e.metric) <= Unreachable
  BY <1>0 DEF LowEntries, Entry, OneHopMore
<1>3. ASSUME NEW e \in LowEntries, NEW h \in Hosts, OneHopMore(e.metric) < Unreachable
      PROVE  NewRoute(e.prefix, h, e.metric + 1, RouteTimeout) \in LowRoutes
  <2> DEFINE r == NewRoute(e.prefix, h, e.metric + 1, RouteTimeout)
  <2>1. e \in Entry /\ e.metric \in Nat
    BY DEF LowEntries, Entry
  <2>2. r \in Route /\ r.metric = e.metric + 1
    BY <2>1, MadeOfTypes DEF NewRoute
  <2>3. e.metric + 1 <= Unreachable
    BY <1>0, <1>3, <2>1 DEF OneHopMore
  <2> HIDE DEF r
  <2>4. r \in LowRoutes
    BY <2>2, <2>3 DEF LowRoutes
  <2>5. QED
    BY <2>4 DEF r
<1>4. ASSUME NEW r \in LowRoutes, NEW e \in LowEntries
      PROVE  [r EXCEPT !.metric = OneHopMore(e.metric), !.timer = RouteTimeout] \in LowRoutes
  <2> DEFINE q == [r EXCEPT !.metric = OneHopMore(e.metric), !.timer = RouteTimeout]
  <2>1. r \in Route /\ e \in Entry
    BY DEF LowEntries, LowRoutes
  <2>2. q \in Route /\ q.metric = OneHopMore(e.metric)
    BY <2>1, MadeOfTypes DEF Route
  <2> HIDE DEF q
  <2>3. q \in LowRoutes
    BY <1>2, <2>2 DEF LowRoutes
  <2>4. QED
    BY <2>3 DEF q
<1>5. ASSUME NEW r \in LowRoutes
      PROVE  [r EXCEPT !.timer = Older(@)] \in LowRoutes
  <2> DEFINE q == [r EXCEPT !.timer = Older(@)]
  <2>1. r \in Route /\ q \in Route /\ q.metric = r.metric
    BY MadeOfTypes DEF LowRoutes, Route
  <2> HIDE DEF q
  <2>2. q \in LowRoutes
    BY <2>1 DEF LowRoutes
  <2>3. QED
    BY <2>2 DEF q
<1>6. ASSUME NEW d \in Daemons, NEW t \in BootTables[d]
      PROVE  t \in TablesOf(LowRoutes)
  <2>1. ASSUME NEW s \in Occupied(t) PROVE t[s] \in LowRoutes
    <3>1. t[s] \in Route
      BY FilesInType DEF Occupied
    <3>2. t[s].metric \in OriginMetrics(t[s].prefix) /\ t[s].prefix \in Prefix
      BY <3>1, OriginsOfFiles DEF Route
    <3>3. QED
      BY <3>1, <3>2 DEF LowRoutes, OriginsInRange
  <2>2. QED
    BY <2>1, FilesInType DEF TablesOf, Occupied
<1>7. ASSUME NEW es \in ClientEntries PROVE es \in Seq(LowEntries)
  <2>1. es \in Seq(Entry) /\ Len(es) \in Nat /\ DOMAIN es = 1 .. Len(es)
    BY ClientAssumption, LenProperties
  <2>2. \A i \in DOMAIN es : es[i] \in Entry
    BY <2>1, ElementOfSeq
  <2>3. \A i \in DOMAIN es : es[i] \in LowEntries
    BY <2>2, OriginsOfFiles DEF LowEntries, Entry, OriginsInRange
  <2>4. es = [i \in 1 .. Len(es) |-> es[i]]
    BY <2>1, SeqDef
  <2>5. QED
    BY <2>1, <2>3, <2>4, SeqDef
<1>8. LowEntries \subseteq Entry /\ LowRoutes \subseteq Route
  BY DEF LowEntries, LowRoutes
<1>9. QED
  BY <1>1, <1>3, <1>4, <1>5, <1>6, <1>7, <1>8 DEF Closed

\* However long daemons count a subnet up, and whoever dies on the way: nothing
\* above 16 is ever stored or sent, if nothing above 16 is in the files.
THEOREM InfinityIsBound == Spec => []NoneAboveInfinity
<1> DEFINE Low == OriginsInRange => Within(LowEntries, LowRoutes)
<1>1. Init => Low
  BY LowClosed, InitWithin
<1>2. Low /\ [Next]_vars => Low'
  <2>1. OriginsInRange' <=> OriginsInRange
    BY DEF OriginsInRange, OriginMetrics, Listed
  <2>2. OriginsInRange /\ Within(LowEntries, LowRoutes) /\ [Next]_vars
          => Within(LowEntries, LowRoutes)'
    BY LowClosed, NextWithin
  <2>3. QED
    BY <2>1, <2>2
<1>3. Within(LowEntries, LowRoutes) => NoneAboveInfinity
  <2> SUFFICES ASSUME Within(LowEntries, LowRoutes) PROVE NoneAboveInfinity
    OBVIOUS
  <2>1. \A d \in Daemons : \A r \in Routes(d) : r.metric <= Unreachable
    BY DEF Within, TablesOf, LowRoutes, Routes, Occupied
  <2>2. ASSUME NEW h \in Hosts, NEW i \in DOMAIN inbox[h],
               NEW j \in DOMAIN inbox[h][i].entries
        PROVE  inbox[h][i].entries[j].metric <= Unreachable
    <3>1. inbox[h] \in Seq(DatagramOf(LowEntries))
      BY DEF Within
    <3>2. inbox[h][i] \in DatagramOf(LowEntries)
      BY <3>1, ElementOfSeq, LenProperties
    <3>3. inbox[h][i].entries \in Seq(LowEntries)
      BY <3>2 DEF DatagramOf
    <3>4. inbox[h][i].entries[j] \in LowEntries
      BY <3>3, ElementOfSeq, LenProperties
    <3>5. QED
      BY <3>4 DEF LowEntries
  <2>3. QED
    BY <2>1, <2>2 DEF NoneAboveInfinity
<1>4. Low => NoneAboveInfinity
  BY <1>3 DEF NoneAboveInfinity
<1> HIDE DEF Low
<1>5. QED
  BY <1>1, <1>2, <1>4, PTL DEF Spec

---------------------------------------------------------------------------
(* What a neighbour believes: one table and one message.                   *)

\* No subnet has two routes in a table.
OneSlot(t) ==
    \A s, q \in Occupied(t) : t[s].prefix = t[q].prefix => s = q

RoutesIn(t) == {t[s] : s \in Occupied(t)}

\* What entries say of the subnet of a route is its metric; they name the subnet.
Consistent(es, r) == \A i \in DOMAIN es : es[i].prefix = r.prefix => es[i].metric = r.metric
Names(es, r)      == \E i \in DOMAIN es : es[i].prefix = r.prefix

\* No route by d is further away in t than r, which is d's own, allows.
NearEnough(d, t, r) ==
    \A q \in RoutesIn(t) :
        (q.prefix = r.prefix /\ q.nextHop = d) => q.metric <= OneHopMore(r.metric)

\* The routes that a table has are those it has when it is older or reviewed.
LEMMA AgedOrReviewed ==
    ASSUME NEW t \in Tables, NEW u \in {t, Aged(t), RemoveExpired(t)}
    PROVE  /\ u \in Tables
           /\ \A q \in RoutesIn(u) : \E r \in RoutesIn(t) :
                 q.prefix = r.prefix /\ q.nextHop = r.nextHop /\ q.metric = r.metric
           /\ OneSlot(t) => OneSlot(u)
<1>1. CASE u = t
  BY <1>1
<1>2. CASE u = Aged(t)
  <2>1. \A s \in Occupied(u) : /\ s \in Occupied(t)
                               /\ u[s].prefix = t[s].prefix
                               /\ u[s].nextHop = t[s].nextHop
                               /\ u[s].metric = t[s].metric
    BY <1>2, AgedRoute DEF Occupied
  <2>2. QED
    BY <1>2, <2>1, AgedType DEF RoutesIn, OneSlot
<1>3. CASE u = RemoveExpired(t)
  <2>1. \A s \in Occupied(u) : s \in Occupied(t) /\ u[s] = t[s]
    BY <1>3 DEF RemoveExpired, Occupied
  <2>2. QED
    BY <1>3, <2>1, RemoveExpiredType DEF RoutesIn, OneSlot
<1>4. QED
  BY <1>1, <1>2, <1>3

\* send_table names every route of the table, and contradicts none, where no
\* subnet has two.
LEMMA TableTold ==
    ASSUME NEW t \in Tables, OneSlot(t), NEW r \in RoutesIn(t)
    PROVE  Consistent(EntriesOf(t), r) /\ Names(EntriesOf(t), r)
<1> DEFINE S == Occupied(t)
           f == SlotsInOrder(t)
<1>1. S \subseteq 0 .. TableSize - 1
  BY DEF Occupied, Slots
<1>2. IsFiniteSet(S) /\ S \subseteq Nat
  <2>1. IsFiniteSet(0 .. TableSize - 1)
    BY FS_Interval, TableSizeAssumption
  <2>2. IsFiniteSet(S)
    BY <1>1, <2>1, FS_Subset
  <2>3. S \subseteq Nat
    BY <1>1
  <2>4. QED
    BY <2>2, <2>3
<1>3. Enumerable(S)
  BY <1>1, SlotsEnumerable, TableSizeAssumption
<1>4. f \in [1 .. Cardinality(S) -> S] /\ Increasing(f)
  BY <1>3 DEF SlotsInOrder, Enumerable, Increasing
<1>5. PICK s \in S : r = t[s]
  BY DEF RoutesIn
<1>6. \A i \in DOMAIN EntriesOf(t) : f[i] \in S /\ EntriesOf(t)[i] = EntryOf(t[f[i]])
  BY <1>4 DEF EntriesOf
<1>7. Consistent(EntriesOf(t), r)
  <2>1. ASSUME NEW i \in DOMAIN EntriesOf(t), EntriesOf(t)[i].prefix = r.prefix
        PROVE  EntriesOf(t)[i].metric = r.metric
    <3>1. t[f[i]].prefix = t[s].prefix
      BY <1>5, <1>6, <2>1 DEF EntryOf
    <3>2. f[i] = s
      BY <1>5, <1>6, <3>1 DEF OneSlot
    <3>3. QED
      BY <1>5, <1>6, <3>2 DEF EntryOf
  <2>2. QED
    BY <2>1 DEF Consistent
<1>8. Names(EntriesOf(t), r)
  <2>1. PICK i \in 1 .. Cardinality(S) : f[i] = s
    BY <1>2, <1>4, IncreasingIsOnto
  <2>2. i \in DOMAIN EntriesOf(t)
    BY <1>4 DEF EntriesOf
  <2>3. EntriesOf(t)[i].prefix = r.prefix
    BY <1>5, <1>6, <2>1, <2>2 DEF EntryOf
  <2>4. QED
    BY <2>2, <2>3 DEF Names
<1>9. QED
  BY <1>7, <1>8

\* What one entry does to a table: all routes are as near as before, but for that
\* of the entry's subnet if its next hop has spoken; it is as far as he says.  The
\* turn ends with an update unless the table is as it was.
EntryDone(t, src, e, after) ==
    /\ OneSlot(after.table)
    /\ ~after.due => after.table = t
    /\ \A q \in RoutesIn(after.table) :
          \/ q.prefix = e.prefix /\ q.nextHop = src
          \/ \E r \in RoutesIn(t) : /\ q.prefix = r.prefix
                                    /\ q.nextHop = r.nextHop
                                    /\ q.metric <= r.metric
    /\ \A q \in RoutesIn(after.table) :
          (q.prefix = e.prefix /\ q.nextHop = src) => q.metric = OneHopMore(e.metric)

LEMMA EntryMoves ==
    ASSUME NEW t \in Tables, OneSlot(t), NEW ch \in BOOLEAN, NEW src \in Hosts, NEW e \in Entry
    PROVE  LET after == AfterEntry([table |-> t, changed |-> ch, alive |-> TRUE,
                                    due |-> FALSE], src, e)
           IN  after.alive => EntryDone(t, src, e, after)
<1> DEFINE m  == OneHopMore(e.metric)
           s  == Find(t, e.prefix)
           r  == Get(t, s)
           st == [table |-> t, changed |-> ch, alive |-> TRUE, due |-> FALSE]
           nw == NewRoute(e.prefix, src, e.metric + 1, RouteTimeout)
           b  == Branch(st, src, e)
           after == AfterEntry(st, src, e)
<1>1. e.prefix \in Prefix /\ e.metric \in Nat /\ m \in Nat
  BY DEF Entry, OneHopMore
<1>2. \/ s = -1 /\ Matching(t, e.prefix) = {}
      \/ s \in Occupied(t) /\ s # -1 /\ r = t[s] /\ t[s] \in Route /\ t[s].prefix = e.prefix
  <2>1. \/ s = -1 /\ Matching(t, e.prefix) = {}
        \/ s \in Slots /\ t[s] \in Route /\ t[s] # NoRoute /\ t[s].prefix = e.prefix
    BY <1>1, FindFinds
  <2>2. s \in Slots => s # -1
    BY TableSizeAssumption DEF Slots
  <2> HIDE DEF s
  <2>3. QED
    BY <2>1, <2>2 DEF Get, Occupied
<1>3. \A q \in RoutesIn(t) : q \in Route /\ q.metric \in Nat
  BY DEF RoutesIn, Occupied, Tables, Route
<1>4. \/ s = -1 /\ m < Unreachable /\ b = [st EXCEPT !.table = Add(t, nw), !.changed = TRUE]
      \/ s = -1 /\ b = [st EXCEPT !.alive = FALSE]
      \/ /\ s # -1 /\ (src = r.nextHop \/ m < r.metric)
         /\ b = [st EXCEPT !.table = Refreshed(t, s, m), !.changed = TRUE]
      \/ s # -1 /\ src # r.nextHop /\ b = st
  BY <1>1, <1>2, UnreachableAssumption DEF Branch
<1>a. after = [b EXCEPT !.due = b.alive /\ b.changed]
  BY DEF AfterEntry
<1> HIDE DEF after, b
<1> SUFFICES after.alive => EntryDone(t, src, e, after)
  BY DEF after
<1>5. CASE s = -1 /\ m < Unreachable
           /\ b = [st EXCEPT !.table = Add(t, nw), !.changed = TRUE]
  <2>1. after.table = Add(t, nw) /\ after.due = TRUE
    <3> HIDE DEF nw, m, s
    <3>1. QED
      BY <1>5, <1>a
  <2>2. nw \in Route /\ nw.prefix = e.prefix /\ nw.nextHop = src /\ nw.metric = m
    <3>1. nw \in Route
      BY MadeOfTypes
    <3>2. e.metric + 1 = m
      BY <1>1, <1>5, UnreachableAssumption DEF OneHopMore
    <3>3. QED
      BY <3>1, <3>2 DEF NewRoute
  <2>3. \A q \in Occupied(t) : t[q].prefix # e.prefix
    BY <1>2, <1>5 DEF Matching
  <2> HIDE DEF nw, m, s, r, st
  <2>4. CASE Add(t, nw) = t
    <3>1. \A q \in RoutesIn(t) : q.prefix # e.prefix
      BY <2>3 DEF RoutesIn
    <3>2. QED
      BY <1>3, <2>1, <2>4, <3>1 DEF EntryDone
  <2>5. CASE \E x \in Slots : t[x] = NoRoute /\ Add(t, nw) = [t EXCEPT ![x] = nw]
    <3>1. PICK x \in Slots : t[x] = NoRoute /\ Add(t, nw) = [t EXCEPT ![x] = nw]
      BY <2>5
    <3> DEFINE u == after.table
    <3>2. u = [t EXCEPT ![x] = nw]
      BY <2>1, <3>1
    <3>3. u[x] = nw /\ \A q \in Slots : q # x => u[q] = t[q]
      BY <3>2 DEF Tables
    <3> HIDE DEF u
    <3>4. \A q \in Occupied(u) : q = x \/ (q \in Occupied(t) /\ u[q] = t[q])
      BY <3>3 DEF Occupied
    <3>5. OneSlot(u)
      BY <2>2, <2>3, <3>3, <3>4 DEF OneSlot
    <3>6. \A q \in RoutesIn(u) : q = nw \/ (q \in RoutesIn(t) /\ q.prefix # e.prefix)
      BY <2>3, <3>3, <3>4 DEF RoutesIn
    <3>7. QED
      BY <1>3, <2>1, <2>2, <3>5, <3>6 DEF EntryDone, u, m
  <2>6. QED
    BY <2>2, <2>4, <2>5, AddAdds
<1>6. CASE s = -1 /\ b = [st EXCEPT !.alive = FALSE]
  BY <1>6, <1>a
<1>7. CASE /\ s # -1 /\ (src = r.nextHop \/ m < r.metric)
           /\ b = [st EXCEPT !.table = Refreshed(t, s, m), !.changed = TRUE]
  <2>1. after.table = Refreshed(t, s, m) /\ after.due = TRUE
    <3> HIDE DEF m, s, r
    <3>1. QED
      BY <1>7, <1>a
  <2>2. s \in Occupied(t) /\ r = t[s] /\ t[s] \in Route /\ t[s].prefix = e.prefix
    BY <1>2, <1>7
  <2>3. src = t[s].nextHop \/ m < t[s].metric
    BY <1>7, <2>2
  <2> HIDE DEF m, s, r, st
  <2> DEFINE u == after.table
  <2>4. /\ u[s].prefix = t[s].prefix /\ u[s].nextHop = t[s].nextHop /\ u[s].metric = m
        /\ \A q \in Slots : q # s => u[q] = t[q]
    <3>1. Refreshed(t, s, m) =
            [t EXCEPT ![s] = [t[s] EXCEPT !.metric = m, !.timer = RouteTimeout]]
      BY <2>2 DEF Refreshed, Tables, Route, Occupied
    <3>2. s \in Slots
      BY <2>2 DEF Occupied
    <3>3. QED
      BY <2>1, <2>2, <3>1, <3>2 DEF Tables, Route
  <2> HIDE DEF u
  <2>5. \A q \in Occupied(u) : q = s \/ (q \in Occupied(t) /\ u[q] = t[q])
    BY <2>4 DEF Occupied
  <2>6. \A q \in Occupied(t) : q # s => t[q].prefix # e.prefix
    BY <2>2 DEF OneSlot
  <2>7. OneSlot(u)
    BY <2>2, <2>4, <2>5, <2>6 DEF OneSlot
  <2>8. \A q \in RoutesIn(u) :
           \/ q.prefix = e.prefix /\ q.nextHop = t[s].nextHop /\ q.metric = m
           \/ q \in RoutesIn(t) /\ q.prefix # e.prefix
    BY <2>2, <2>4, <2>5, <2>6 DEF RoutesIn
  <2>9. t[s] \in RoutesIn(t) /\ t[s].metric \in Nat
    BY <1>3, <2>2 DEF RoutesIn
  <2>10. QED
    <3>1. \A q \in RoutesIn(u) :
             \/ q.prefix = e.prefix /\ q.nextHop = src
             \/ \E x \in RoutesIn(t) : /\ q.prefix = x.prefix
                                       /\ q.nextHop = x.nextHop
                                       /\ q.metric <= x.metric
      BY <1>1, <1>3, <2>2, <2>3, <2>8, <2>9
    <3>2. \A q \in RoutesIn(u) : (q.prefix = e.prefix /\ q.nextHop = src) => q.metric = m
      BY <2>8
    <3>3. QED
      BY <2>1, <2>7, <3>1, <3>2 DEF EntryDone, u, m
<1>8. CASE s # -1 /\ src # r.nextHop /\ b = st
  <2>1. after.table = t
    BY <1>8, <1>a
  <2>2. s \in Occupied(t) /\ t[s].prefix = e.prefix /\ t[s].nextHop # src
    BY <1>2, <1>8
  <2> HIDE DEF s, r, m
  <2>3. \A q \in RoutesIn(t) : q.prefix = e.prefix => q.nextHop # src
    BY <2>2 DEF RoutesIn, OneSlot
  <2>4. QED
    BY <1>3, <2>1, <2>3 DEF EntryDone
<1>9. QED
  BY <1>4, <1>5, <1>6, <1>7, <1>8

---------------------------------------------------------------------------
(* What a neighbour believes: its queue, its job and its table.            *)

\* The last datagram of d in a queue.
LastOf(d, box, i) == /\ i \in DOMAIN box /\ box[i].src = d
                     /\ \A j \in DOMAIN box : j > i => box[j].src # d

NoneOf(d, box) == \A i \in DOMAIN box : box[i].src # d

\* A hearer with table t, queue box and job jb has, or will have, the word of d
\* about its route r: in the last datagram of d that waits, in what is left of the
\* one being worked off, or in its table.
Catches(d, r, t, box, jb) ==
    \/ \E i \in DOMAIN box : /\ LastOf(d, box, i)
                             /\ Consistent(box[i].entries, r) /\ Names(box[i].entries, r)
    \/ /\ NoneOf(d, box)
       /\ jb # Idle /\ jb.src = d
       /\ Consistent(jb.entries, r)
       /\ Names(jb.entries, r) \/ NearEnough(d, t, r)
    \/ /\ NoneOf(d, box)
       /\ jb = Idle \/ jb.src # d
       /\ NearEnough(d, t, r)

\* Time that passes and routes that expire bring nobody nearer.
LEMMA CatchesSmaller ==
    ASSUME NEW t \in Tables, NEW u \in {t, Aged(t), RemoveExpired(t)},
           NEW d, NEW r, NEW box, NEW jb, Catches(d, r, t, box, jb)
    PROVE  Catches(d, r, u, box, jb)
<1>1. NearEnough(d, t, r) => NearEnough(d, u, r)
  BY AgedOrReviewed DEF NearEnough
<1>2. QED
  BY <1>1 DEF Catches

\* A datagram of another changes nothing.
LEMMA CatchesOther ==
    ASSUME NEW d, NEW r, NEW t, NEW jb, NEW box \in Seq(Datagram), NEW m \in Datagram,
           m.src # d, Catches(d, r, t, box, jb)
    PROVE  Catches(d, r, t, Append(box, m), jb)
<1> DEFINE new == Append(box, m)
<1>1. /\ DOMAIN new = 1 .. Len(box) + 1 /\ DOMAIN box = 1 .. Len(box) /\ Len(box) \in Nat
      /\ \A i \in DOMAIN box : new[i] = box[i]
      /\ new[Len(box) + 1] = m
  BY AppendProperties, LenProperties
<1> HIDE DEF new
<1>2. NoneOf(d, box) => NoneOf(d, new)
  BY <1>1 DEF NoneOf
<1>3. ASSUME NEW i \in DOMAIN box, LastOf(d, box, i)
      PROVE  i \in DOMAIN new /\ LastOf(d, new, i) /\ new[i] = box[i]
  BY <1>1, <1>3 DEF LastOf
<1>4. QED
  BY <1>2, <1>3 DEF Catches, new

\* A datagram of d that tells of r does.
LEMMA CatchesFresh ==
    ASSUME NEW d, NEW r, NEW t, NEW jb, NEW box \in Seq(Datagram), NEW m \in Datagram,
           m.src = d, Consistent(m.entries, r), Names(m.entries, r)
    PROVE  Catches(d, r, t, Append(box, m), jb)
<1> DEFINE new == Append(box, m)
           n == Len(box) + 1
<1>1. DOMAIN new = 1 .. n /\ n \in DOMAIN new /\ new[n] = m
  BY AppendProperties, LenProperties
<1> HIDE DEF new
<1>2. LastOf(d, new, n)
  BY <1>1 DEF LastOf
<1> HIDE DEF n
<1>3. QED
  BY <1>1, <1>2 DEF Catches, new

\* The response being worked off, with the same entries left, or with none.
SameWork(jb, jc) == \/ jb = Idle /\ jc = Idle
                    \/ jb # Idle /\ jc # Idle /\ jc.src = jb.src /\ jc.entries = jb.entries

LEMMA CatchesSameWork ==
    ASSUME NEW d, NEW r, NEW t, NEW box, NEW jb, NEW jc, SameWork(jb, jc),
           Catches(d, r, t, box, jb)
    PROVE  Catches(d, r, t, box, jc)
BY DEF SameWork, Catches

LEMMA CatchesDone ==
    ASSUME NEW d, NEW r, NEW t, NEW box, NEW jb, jb.entries = <<>>,
           Catches(d, r, t, box, jb)
    PROVE  Catches(d, r, t, box, Idle)
<1>1. ~Names(jb.entries, r)
  BY DEF Names
<1>2. QED
  BY <1>1 DEF Catches

\* What waits without the first n, if none of them is of d.
LEMMA CatchesDrop ==
    ASSUME NEW d, NEW r, NEW t, NEW box \in Seq(Datagram), NEW n \in 0 .. Len(box),
           \A i \in 1 .. n : box[i].src # d,
           NEW jb, Catches(d, r, t, box, jb)
    PROVE  Catches(d, r, t, SubSeq(box, n + 1, Len(box)), jb)
<1> DEFINE new == SubSeq(box, n + 1, Len(box))
<1>1. /\ Len(box) \in Nat /\ DOMAIN box = 1 .. Len(box)
      /\ DOMAIN new = 1 .. Len(box) - n
      /\ \A i \in DOMAIN new : new[i] = box[i + n] /\ i + n \in DOMAIN box
  <2>1. Len(box) \in Nat /\ DOMAIN box = 1 .. Len(box)
    BY LenProperties
  <2>2. new = [i \in 1 .. Len(box) - n |-> box[i + n]]
    BY <2>1
  <2> HIDE DEF new
  <2>3. DOMAIN new = 1 .. Len(box) - n
    BY <2>2
  <2>4. \A i \in 1 .. Len(box) - n : new[i] = box[i + n] /\ i + n \in 1 .. Len(box)
    BY <2>1, <2>2
  <2>5. QED
    BY <2>1, <2>3, <2>4
<1> HIDE DEF new
<1>2. NoneOf(d, box) => NoneOf(d, new)
  BY <1>1 DEF NoneOf
<1>3. ASSUME NEW i \in DOMAIN box, LastOf(d, box, i)
      PROVE  i - n \in DOMAIN new /\ LastOf(d, new, i - n) /\ new[i - n] = box[i]
  <2>1. ~ (i \in 1 .. n)
    BY <1>3 DEF LastOf
  <2>2. i - n \in DOMAIN new /\ new[i - n] = box[i] /\ box[i].src = d
    BY <1>1, <1>3, <2>1 DEF LastOf
  <2>3. ASSUME NEW j \in DOMAIN new, j > i - n PROVE new[j].src # d
    <3>1. new[j] = box[j + n] /\ j + n \in DOMAIN box /\ j + n > i
      BY <1>1, <2>3
    <3>2. QED
      BY <1>3, <3>1 DEF LastOf
  <2>4. QED
    BY <2>2, <2>3 DEF LastOf
<1>4. CASE NoneOf(d, box)
  <2>1. ~ \E i \in DOMAIN box : LastOf(d, box, i)
    BY <1>4 DEF LastOf, NoneOf
  <2>2. QED
    BY <1>2, <1>4, <2>1 DEF Catches, new
<1>5. CASE ~NoneOf(d, box)
  <2>1. PICK i \in DOMAIN box : /\ LastOf(d, box, i)
                                /\ Consistent(box[i].entries, r) /\ Names(box[i].entries, r)
    BY <1>5 DEF Catches
  <2>2. QED
    BY <1>3, <2>1 DEF Catches, new
<1>6. QED
  BY <1>4, <1>5

\* The first datagram becomes the job.
LEMMA CatchesTake ==
    ASSUME NEW d, NEW r, NEW t, NEW box \in Seq(Datagram), box # <<>>,
           Catches(d, r, t, box, Idle)
    PROVE  Catches(d, r, t, Tail(box),
                   [src |-> Head(box).src, entries |-> Head(box).entries,
                    changed |-> FALSE, due |-> FALSE])
<1> DEFINE new == Tail(box)
           jb  == [src |-> Head(box).src, entries |-> Head(box).entries,
                   changed |-> FALSE, due |-> FALSE]
<1>1. /\ Len(box) \in Nat \ {0} /\ DOMAIN box = 1 .. Len(box) /\ Head(box) = box[1]
      /\ DOMAIN new = 1 .. Len(box) - 1
      /\ \A i \in DOMAIN new : new[i] = box[i + 1] /\ i + 1 \in DOMAIN box
      /\ Head(box) \in Datagram
  BY HeadTailProperties, LenProperties, EmptySeq
<1>2. jb # Idle /\ jb.src = box[1].src /\ jb.entries = box[1].entries
  <2>1. jb \in Job
    BY <1>1 DEF Job, Datagram
  <2>2. QED
    BY <1>1, <2>1, IdleAssumption
<1> HIDE DEF new, jb
<1>3. CASE NoneOf(d, box)
  <2>1. NearEnough(d, t, r)
    BY <1>3 DEF Catches, LastOf, NoneOf
  <2>2. NoneOf(d, new) /\ jb.src # d
    BY <1>1, <1>2, <1>3 DEF NoneOf
  <2>3. QED
    BY <2>1, <2>2 DEF Catches, new, jb
<1>4. CASE ~NoneOf(d, box)
  <2>1. PICK i \in DOMAIN box : /\ LastOf(d, box, i)
                                /\ Consistent(box[i].entries, r) /\ Names(box[i].entries, r)
    BY <1>4 DEF Catches
  <2>2. CASE i = 1
    <3>1. NoneOf(d, new)
      BY <1>1, <2>1, <2>2 DEF LastOf, NoneOf
    <3>2. jb.src = d /\ Consistent(jb.entries, r) /\ Names(jb.entries, r)
      BY <1>2, <2>1, <2>2 DEF LastOf
    <3>3. QED
      BY <1>2, <3>1, <3>2 DEF Catches, new, jb
  <2>3. CASE i # 1
    <3>1. i - 1 \in DOMAIN new /\ new[i - 1] = box[i] /\ new[i - 1].src = d
      BY <1>1, <2>1, <2>3 DEF LastOf
    <3>2. ASSUME NEW j \in DOMAIN new, j > i - 1 PROVE new[j].src # d
      <4>1. new[j] = box[j + 1] /\ j + 1 \in DOMAIN box /\ j + 1 > i
        BY <1>1, <3>2
      <4>2. QED
        BY <2>1, <4>1 DEF LastOf
    <3>3. LastOf(d, new, i - 1)
      BY <3>1, <3>2 DEF LastOf
    <3>4. QED
      BY <2>1, <3>1, <3>3 DEF Catches, new, jb
  <2>4. QED
    BY <2>2, <2>3
<1>5. QED
  BY <1>3, <1>4

\* One entry is worked off.
LEMMA CatchesEntry ==
    ASSUME NEW d, NEW r, NEW t \in Tables, OneSlot(t), NEW box,
           NEW jb \in Job, jb.entries # <<>>, r.metric \in Nat,
           NEW after, after.table \in Tables,
           EntryDone(t, jb.src, Head(jb.entries), after),
           NEW ch \in BOOLEAN, NEW du \in BOOLEAN,
           Catches(d, r, t, box, jb)
    PROVE  Catches(d, r, after.table, box,
                   [jb EXCEPT !.entries = Tail(jb.entries), !.changed = ch, !.due = du])
<1> DEFINE es  == jb.entries
           new == [jb EXCEPT !.entries = Tail(es), !.changed = ch, !.due = du]
           u   == after.table
<1>1. es \in Seq(Entry) /\ es # <<>> /\ jb.src \in Hosts /\ jb # Idle
  BY IdleAssumption DEF Job
<1>2. /\ Len(es) \in Nat \ {0} /\ DOMAIN es = 1 .. Len(es) /\ Head(es) = es[1]
      /\ DOMAIN Tail(es) = 1 .. Len(es) - 1
      /\ \A i \in DOMAIN Tail(es) : Tail(es)[i] = es[i + 1] /\ i + 1 \in DOMAIN es
      /\ Tail(es) \in Seq(Entry) /\ es[1] \in Entry
  BY <1>1, HeadTailProperties, LenProperties, EmptySeq
<1>3. new \in Job /\ new # Idle /\ new.src = jb.src /\ new.entries = Tail(es)
  BY <1>1, <1>2, IdleAssumption DEF Job
<1>4. /\ \A q \in RoutesIn(u) :
            \/ q.prefix = es[1].prefix /\ q.nextHop = jb.src
            \/ \E x \in RoutesIn(t) : /\ q.prefix = x.prefix
                                      /\ q.nextHop = x.nextHop
                                      /\ q.metric <= x.metric
      /\ \A q \in RoutesIn(u) :
            (q.prefix = es[1].prefix /\ q.nextHop = jb.src)
                => q.metric = OneHopMore(es[1].metric)
  BY <1>2 DEF EntryDone
<1>5. \A q \in RoutesIn(u) \cup RoutesIn(t) : q.metric \in Nat
  BY DEF RoutesIn, Occupied, Tables, Route
<1>6. OneHopMore(r.metric) \in Nat
  BY DEF OneHopMore
<1> HIDE DEF es, new, u
<1>7. CASE \E i \in DOMAIN box : /\ LastOf(d, box, i)
                                 /\ Consistent(box[i].entries, r) /\ Names(box[i].entries, r)
  BY <1>7 DEF Catches, new, es, u
<1>8. CASE /\ NoneOf(d, box) /\ jb.src = d
           /\ Consistent(es, r)
           /\ Names(es, r) \/ NearEnough(d, t, r)
  <2>1. Consistent(Tail(es), r)
    BY <1>2, <1>8 DEF Consistent
  <2>2. CASE es[1].prefix = r.prefix
    <3>1. es[1].metric = r.metric
      BY <1>2, <1>8, <2>2 DEF Consistent
    <3>2. NearEnough(d, u, r)
      BY <1>4, <1>6, <1>8, <2>2, <3>1 DEF NearEnough
    <3>3. QED
      BY <1>3, <1>8, <2>1, <3>2 DEF Catches, new, es, u
  <2>3. CASE es[1].prefix # r.prefix
    <3>1. CASE Names(es, r)
      <4>1. PICK i \in DOMAIN es : es[i].prefix = r.prefix
        BY <3>1 DEF Names
      <4>2. i - 1 \in DOMAIN Tail(es) /\ Tail(es)[i - 1] = es[i]
        <5>1. i \in 1 .. Len(es) /\ i # 1
          BY <1>2, <2>3, <4>1
        <5>2. i - 1 \in 1 .. Len(es) - 1 /\ (i - 1) + 1 = i
          BY <1>2, <5>1
        <5>3. QED
          BY <1>2, <5>2
      <4>3. Names(Tail(es), r)
        BY <4>1, <4>2 DEF Names
      <4>4. QED
        BY <1>3, <1>8, <2>1, <4>3 DEF Catches, new, es, u
    <3>2. CASE NearEnough(d, t, r)
      <4>1. NearEnough(d, u, r)
        BY <1>4, <1>5, <1>6, <2>3, <3>2 DEF NearEnough
      <4>2. QED
        BY <1>3, <1>8, <2>1, <4>1 DEF Catches, new, es, u
    <3>3. QED
      BY <1>8, <3>1, <3>2
  <2>4. QED
    BY <2>2, <2>3
<1>9. CASE NoneOf(d, box) /\ jb.src # d /\ NearEnough(d, t, r)
  <2>1. NearEnough(d, u, r)
    BY <1>4, <1>5, <1>6, <1>9 DEF NearEnough
  <2>2. QED
    BY <1>3, <1>9, <2>1 DEF Catches, new, es, u
<1>10. QED
  BY <1>1, <1>7, <1>8, <1>9 DEF Catches, es

---------------------------------------------------------------------------
(* What a neighbour believes: the steps of the network.                    *)

\* No file has two lines of one subnet.  The code does not look.
BootsAreDistinct == \A d \in Daemons : \A t \in BootTables[d] : OneSlot(t)

\* A daemon does not owe an update.
Quiet(d) == job[d] = Idle \/ ~job[d].due

\* The inductive invariant: no table has two routes of a subnet; only daemons that
\* run have told, and been told; and whom one that is quiet has told, be it half
\* through a response, has or will have its word about all that it has.
Heeded ==
    /\ \A d \in Daemons : OneSlot(table[d])
    /\ \A d, e \in Daemons : <<d, e>> \in told => d \in alive /\ e \in alive
    /\ \A d, e \in Daemons : <<d, e>> \in told /\ Quiet(d) =>
          \A r \in RoutesIn(table[d]) : Catches(d, r, table[e], inbox[e], job[e])

\* The types of the parts.
LEMMA PartTypes ==
    ASSUME Within(Entry, Route)
    PROVE  /\ alive \subseteq Daemons /\ told \subseteq Daemons \X Daemons
           /\ table \in [Daemons -> Tables]
           /\ job \in [Daemons -> Job \cup {Idle}]
           /\ inbox \in [Hosts -> Seq(Datagram)]
           /\ Daemons \subseteq Hosts /\ Client \in Hosts
           /\ \A d \in Daemons : inbox[d] \in Seq(Datagram) /\ table[d] \in Tables
<1>1. TablesOf(Route) = Tables /\ DatagramOf(Entry) = Datagram /\ JobOf(Entry) = Job
  BY DEF TablesOf, Tables, DatagramOf, Datagram, JobOf, Job
<1>2. QED
  BY <1>1 DEF Within, Hosts

\* The entry at hand, and what becomes of the table and of the job.
LEMMA EntryStep ==
    ASSUME Within(Entry, Route), Heeded, NEW d \in Daemons, StepEntry(d), d \in alive'
    PROVE  LET after == AfterNextEntry(d) IN
           /\ job[d] \in Job /\ job[d].entries # <<>>
           /\ after.table \in Tables /\ after.changed \in BOOLEAN /\ after.due \in BOOLEAN
           /\ ~job[d].due
           /\ EntryDone(table[d], job[d].src, Head(job[d].entries), after)
           /\ table' = [table EXCEPT ![d] = after.table]
           /\ job' = [job EXCEPT ![d] = [job[d] EXCEPT !.entries = Tail(job[d].entries),
                                                       !.changed = after.changed,
                                                       !.due = after.due]]
           /\ UNCHANGED <<alive, inbox, told, lost>>
<1> DEFINE after == AfterNextEntry(d)
<1>1. /\ job[d] \in Job /\ job[d].entries # <<>> /\ job \in [Daemons -> Job \cup {Idle}]
      /\ ~job[d].due
  BY PartTypes DEF StepEntry, Looping
<1>2. /\ job[d].changed \in BOOLEAN /\ job[d].src \in Hosts
      /\ job[d].entries \in Seq(Entry)
      /\ Head(job[d].entries) \in Entry
  BY <1>1, HeadTailProperties DEF Job
<1>3. after.alive
  BY DEF StepEntry, Dies
<1>4. /\ table' = [table EXCEPT ![d] = after.table]
      /\ job' = [job EXCEPT ![d].entries = Tail(@), ![d].changed = after.changed,
                            ![d].due = after.due]
      /\ UNCHANGED <<alive, inbox, told, lost>>
  BY <1>3 DEF StepEntry
<1>5. table[d] \in Tables /\ OneSlot(table[d]) /\ table[d] \in TablesOf(Route)
  BY PartTypes DEF Heeded, TablesOf, Tables
<1>6. EntryDone(table[d], job[d].src, Head(job[d].entries), after)
  BY <1>2, <1>3, <1>5, EntryMoves DEF AfterNextEntry
<1>7. after.table \in Tables /\ after.changed \in BOOLEAN /\ after.due \in BOOLEAN
  BY <1>2, <1>5, EntryWithin, TypesClosed DEF AfterNextEntry, TablesOf, Tables
<1> HIDE DEF after
<1>8. job' = [job EXCEPT ![d] = [job[d] EXCEPT !.entries = Tail(job[d].entries),
                                               !.changed = after.changed,
                                               !.due = after.due]]
  BY <1>1, <1>4 DEF Job
<1>9. QED
  BY <1>1, <1>4, <1>6, <1>7, <1>8 DEF after

\* No step gives a table a second route of a subnet.
LEMMA NextOneSlot ==
    ASSUME BootsAreDistinct, Within(Entry, Route), Heeded, [Next]_vars, NEW d \in Daemons
    PROVE  OneSlot(table'[d])
<1>0. OneSlot(table[d]) /\ table \in [Daemons -> Tables] /\ table[d] \in Tables
  BY PartTypes DEF Heeded
<1>1. OneSlot(EmptyTable)
  BY DEF OneSlot, EmptyTable, Occupied
<1>2. ASSUME NEW x \in Daemons, Dies(x) PROVE OneSlot(table'[d])
  BY <1>0, <1>1, <1>2 DEF Dies
<1>3. ASSUME NEW x \in Daemons, StepEntry(x) PROVE OneSlot(table'[d])
  <2>1. CASE x \in alive'
    <3>1. /\ OneSlot(AfterNextEntry(x).table)
          /\ table' = [table EXCEPT ![x] = AfterNextEntry(x).table]
      BY <1>3, <2>1, EntryStep DEF EntryDone
    <3>2. QED
      BY <1>0, <3>1
  <2>2. CASE x \notin alive'
    BY <1>2, <1>3, <2>2 DEF StepEntry, Looping
  <2>3. QED
    BY <2>1, <2>2
<1>4. ASSUME NEW x \in Daemons, Restart(x) PROVE OneSlot(table'[d])
  <2>1. PICK t \in BootTables[x] : table' = [table EXCEPT ![x] = t]
    BY <1>4 DEF Restart
  <2>2. QED
    BY <1>0, <2>1 DEF BootsAreDistinct
<1>5. ASSUME table'[d] \in {table[d], Aged(table[d]), RemoveExpired(table[d])}
      PROVE  OneSlot(table'[d])
  BY <1>0, <1>5, AgedOrReviewed
<1>6. ASSUME NEW x \in Daemons, Review(x) PROVE OneSlot(table'[d])
  BY <1>0, <1>5, <1>6 DEF Review
<1>7. CASE Tick
  BY <1>0, <1>5, <1>7 DEF Tick
<1>8. ASSUME NEW x \in Daemons,
             \/ AnswerRequest(x) \/ TakeResponse(x) \/ EndOfEntries(x) \/ SendUpdate(x)
             \/ ClientAsks \/ ClientAnnounces \/ UNCHANGED vars
      PROVE  OneSlot(table'[d])
  BY <1>0, <1>8 DEF AnswerRequest, TakeResponse, EndOfEntries, SendUpdate, ClientAsks,
                    ClientAnnounces, vars
<1>9. QED
  BY <1>2, <1>3, <1>4, <1>6, <1>7, <1>8 DEF Next, Daemon, Kill, SendEnds

\* Only those that run have told, and been told.
LEMMA NextToldRun ==
    ASSUME Within(Entry, Route), Heeded, [Next]_vars,
           NEW d \in Daemons, NEW e \in Daemons, <<d, e>> \in told'
    PROVE  d \in alive' /\ e \in alive'
<1>0. <<d, e>> \in told => d \in alive /\ e \in alive
  BY DEF Heeded
<1>1. ASSUME NEW x \in Daemons, Dies(x)
      PROVE  d \in alive' /\ e \in alive'
  BY <1>0, <1>1 DEF Dies
<1>2. ASSUME NEW x \in Daemons, SendUpdate(x)
      PROVE  d \in alive' /\ e \in alive'
  <2>1. alive' = alive /\ x \in alive
    BY <1>2 DEF SendUpdate, Due
  <2>2. <<d, e>> \in told \/ (d = x /\ \E boxes : CanQueue(e, boxes))
    BY <1>2 DEF SendUpdate, StillTold
  <2>3. (\E boxes : CanQueue(e, boxes)) => e \in alive
    BY HostsAssumption DEF CanQueue, Listens
  <2>4. QED
    BY <1>0, <2>1, <2>2, <2>3
<1>3. ASSUME <<d, e>> \in told, alive \subseteq alive'
      PROVE  d \in alive' /\ e \in alive'
  BY <1>0, <1>3
<1>4. ASSUME NEW x \in Daemons, StepEntry(x)
      PROVE  d \in alive' /\ e \in alive'
  <2>1. Dies(x) \/ UNCHANGED <<alive, told>>
    BY <1>4 DEF StepEntry
  <2>2. QED
    BY <1>1, <1>3, <2>1
<1>5. ASSUME NEW x \in Daemons,
             AnswerRequest(x) \/ TakeResponse(x) \/ EndOfEntries(x) \/ Review(x) \/ Restart(x)
      PROVE  <<d, e>> \in told /\ alive \subseteq alive'
  BY <1>5 DEF AnswerRequest, StillTold, TakeResponse, EndOfEntries, Review, Restart
<1>6. CASE ClientAsks \/ ClientAnnounces \/ Tick \/ UNCHANGED vars
  BY <1>3, <1>6 DEF ClientAsks, ClientAnnounces, Tick, vars
<1>7. QED
  BY <1>1, <1>2, <1>3, <1>4, <1>5, <1>6 DEF Next, Daemon, Kill, SendEnds

\* Who is quiet and told after a step that is not its own update was so before
\* it, and has at most lost routes.
LEMMA SourceSteps ==
    ASSUME Within(Entry, Route), Heeded, [Next]_vars,
           NEW d \in Daemons, NEW e \in Daemons, <<d, e>> \in told',
           Quiet(d)', ~SendUpdate(d)
    PROVE  /\ <<d, e>> \in told /\ Quiet(d)
           /\ table'[d] \in {table[d], Aged(table[d]), RemoveExpired(table[d])}
<1>0. /\ <<d, e>> \in told => d \in alive
      /\ table \in [Daemons -> Tables] /\ job \in [Daemons -> Job \cup {Idle}]
  BY PartTypes DEF Heeded
<1>1. <<d, e>> \in told
  <2>1. ASSUME NEW x \in Daemons, SendUpdate(x) PROVE <<d, e>> \in told
    <3>1. x # d
      BY <2>1
    <3>2. PICK n \in 0 .. Len(inbox[x]), to \in SUBSET Hearers(x) :
            told' = {p \in StillTold(x, n) : p[1] # x} \cup ({x} \X to)
      BY <2>1 DEF SendUpdate
    <3>3. QED
      BY <3>1, <3>2 DEF StillTold
  <2>2. ASSUME NEW x \in Daemons, AnswerRequest(x) PROVE <<d, e>> \in told
    BY <2>2 DEF AnswerRequest, StillTold
  <2>3. ASSUME NEW x \in Daemons, Dies(x) \/ UNCHANGED told PROVE <<d, e>> \in told
    BY <2>3 DEF Dies
  <2>4. QED
    BY <2>1, <2>2, <2>3 DEF Next, vars, Daemon, SendEnds, TakeResponse, StepEntry,
         EndOfEntries, Review, Kill, Restart, ClientAsks, ClientAnnounces, Tick
<1>2. d \in Daemons
  OBVIOUS
<1>3. ASSUME NEW x \in Daemons, Dies(x) PROVE Quiet(d) /\ table'[d] = table[d]
  <2>1. d # x /\ table' = [table EXCEPT ![x] = EmptyTable] /\ job' = [job EXCEPT ![x] = Idle]
    BY <1>3 DEF Dies
  <2>2. table'[d] = table[d] /\ job'[d] = job[d]
    BY <1>0, <1>2, <2>1
  <2>3. QED
    BY <2>2 DEF Quiet
<1>4. ASSUME NEW x \in Daemons, StepEntry(x) PROVE Quiet(d) /\ table'[d] = table[d]
  <2>1. CASE x \notin alive'
    BY <1>3, <1>4, <2>1 DEF StepEntry, Looping
  <2>2. CASE x \in alive'
    <3> DEFINE after == AfterNextEntry(x)
    <3>1. /\ job[x] \in Job /\ job[x].entries # <<>> /\ ~job[x].due
          /\ after.changed \in BOOLEAN /\ after.due \in BOOLEAN
          /\ EntryDone(table[x], job[x].src, Head(job[x].entries), after)
          /\ table' = [table EXCEPT ![x] = after.table]
          /\ job' = [job EXCEPT ![x] = [job[x] EXCEPT !.entries = Tail(job[x].entries),
                                                      !.changed = after.changed,
                                                      !.due = after.due]]
      BY <1>4, <2>2, EntryStep
    <3> HIDE DEF after
    <3>2. CASE d # x
      <4>1. table'[d] = table[d] /\ job'[d] = job[d]
        BY <1>0, <1>2, <3>1, <3>2
      <4>2. QED
        BY <4>1 DEF Quiet
    <3>3. CASE d = x
      <4> DEFINE new == [job[x] EXCEPT !.entries = Tail(job[x].entries),
                                       !.changed = after.changed,
                                       !.due = after.due]
      <4>1. job'[d] = new
        BY <1>0, <1>2, <3>1, <3>3
      <4>2. new \in Job /\ new.due = after.due
        <5>1. Tail(job[x].entries) \in Seq(Entry)
          <6>1. job[x].entries \in Seq(Entry) /\ job[x].entries # <<>>
            BY <3>1 DEF Job
          <6>2. QED
            BY <6>1, HeadTailProperties
        <5>2. QED
          BY <3>1, <5>1 DEF Job
      <4> HIDE DEF new
      <4>3. ~after.due
        BY <4>1, <4>2, IdleAssumption DEF Quiet
      <4>4. after.table = table[x]
        BY <3>1, <4>3 DEF EntryDone
      <4>5. QED
        BY <1>0, <1>2, <3>1, <3>3, <4>4 DEF Quiet
    <3>4. QED
      BY <3>2, <3>3
  <2>3. QED
    BY <2>1, <2>2
<1>5. ASSUME NEW x \in Daemons, AnswerRequest(x) \/ TakeResponse(x) \/ EndOfEntries(x)
      PROVE  Quiet(d) /\ table'[d] = table[d]
  BY <1>0, <1>2, <1>5 DEF AnswerRequest, TakeResponse, EndOfEntries, Ready, Looping, Quiet
<1>6. ASSUME NEW x \in Daemons, SendUpdate(x) PROVE Quiet(d) /\ table'[d] = table[d]
  BY <1>0, <1>2, <1>6 DEF SendUpdate, Quiet
<1>7. ASSUME NEW x \in Daemons, Review(x)
      PROVE  Quiet(d) /\ table'[d] \in {table[d], RemoveExpired(table[d])}
  BY <1>0, <1>2, <1>7 DEF Review, Quiet
<1>8. ASSUME NEW x \in Daemons, Restart(x) PROVE Quiet(d) /\ table'[d] = table[d]
  <2>1. d # x
    BY <1>0, <1>1, <1>8 DEF Restart
  <2>2. QED
    BY <1>0, <1>2, <1>8, <2>1 DEF Restart, Quiet
<1>9. CASE Tick
  BY <1>0, <1>2, <1>9 DEF Tick, Quiet
<1>10. CASE ClientAsks \/ ClientAnnounces \/ UNCHANGED vars
  BY <1>10 DEF ClientAsks, ClientAnnounces, vars, Quiet
<1>11. QED
  BY <1>1, <1>3, <1>4, <1>5, <1>6, <1>7, <1>8, <1>9, <1>10 DEF Next, Daemon, Kill, SendEnds

\* Only the subnet and the metric of the route count.
LEMMA CatchesSame ==
    ASSUME NEW d, NEW r, NEW q, NEW t, NEW box, NEW jb,
           q.prefix = r.prefix, q.metric = r.metric, Catches(d, r, t, box, jb)
    PROVE  Catches(d, q, t, box, jb)
BY DEF Catches, Consistent, Names, NearEnough

\* A daemon that sends, with what it drops of its own queue meanwhile: the hearer
\* e of d loses nothing of d, be it that e, d or another is the one that sends.
LEMMA SendCatches ==
    ASSUME Within(Entry, Route), Heeded,
           NEW d \in Daemons, NEW e \in Daemons, NEW r \in RoutesIn(table[d]),
           Catches(d, r, table[e], inbox[e], job[e]),
           NEW x \in Daemons, NEW n \in 0 .. Len(inbox[x]),
           x = e => d \notin DroppedFrom(x, n),
           NEW jb, SameWork(job[e], jb),
           NEW to
    PROVE  LET boxes == AfterDrop(x, n) IN
           /\ Catches(d, r, table[e], boxes[e], jb)
           /\ Catches(d, r, table[e],
                      Queued(to, Response(x, EntriesOf(table[x])), boxes)[e], jb)
<1> DEFINE boxes == AfterDrop(x, n)
           m == Response(x, EntriesOf(table[x]))
<1>0. /\ inbox \in [Hosts -> Seq(Datagram)] /\ Daemons \subseteq Hosts
      /\ table[d] \in Tables /\ table[x] \in Tables /\ OneSlot(table[d])
      /\ TablesOf(Route) = Tables /\ DatagramOf(Entry) = Datagram
  BY PartTypes DEF Heeded, TablesOf, Tables, DatagramOf, Datagram
<1>1. m \in Datagram /\ m.src = x /\ m.entries = EntriesOf(table[x])
  BY <1>0, TypesClosed, ResponseWithin DEF Response
<1>2. boxes \in [Hosts -> Seq(Datagram)]
  BY <1>0, QueuesWithin DEF AfterDrop
<1>3. Catches(d, r, table[e], boxes[e], jb)
  <2>0. Catches(d, r, table[e], inbox[e], jb)
    BY CatchesSameWork
  <2>1. CASE x = e
    <3>1. boxes[e] = SubSeq(inbox[e], n + 1, Len(inbox[e]))
      BY <1>0, <2>1 DEF AfterDrop
    <3>2. \A i \in 1 .. n : inbox[e][i].src # d
      BY <2>1 DEF DroppedFrom
    <3>3. QED
      BY <1>0, <2>0, <2>1, <3>1, <3>2, CatchesDrop
  <2>2. CASE x # e
    BY <1>0, <2>0, <2>2 DEF AfterDrop
  <2>3. QED
    BY <2>1, <2>2
<1> HIDE DEF boxes, m
<1>4. Catches(d, r, table[e], Append(boxes[e], m), jb)
  <2>0. boxes[e] \in Seq(Datagram)
    BY <1>0, <1>2
  <2>1. CASE x # d
    BY <1>1, <1>3, <2>0, <2>1, CatchesOther
  <2>2. CASE x = d
    <3>1. Consistent(m.entries, r) /\ Names(m.entries, r)
      BY <1>0, <1>1, <2>2, TableTold
    <3>2. QED
      BY <1>1, <2>0, <2>2, <3>1, CatchesFresh
  <2>3. QED
    BY <2>1, <2>2
<1>5. Queued(to, m, boxes)[e] \in {boxes[e], Append(boxes[e], m)}
  BY <1>0, <1>2 DEF Queued
<1>6. QED
  BY <1>3, <1>4, <1>5 DEF boxes, m

\* The client's datagrams are not of a daemon.
LEMMA ClientCatches ==
    ASSUME Within(Entry, Route), NEW d \in Daemons, NEW e \in Daemons, NEW r,
           Catches(d, r, table[e], inbox[e], job[e]), ClientAsks \/ ClientAnnounces
    PROVE  Catches(d, r, table'[e], inbox'[e], job'[e])
<1>0. /\ inbox \in [Hosts -> Seq(Datagram)] /\ Daemons \subseteq Hosts /\ Client \in Hosts
      /\ d # Client /\ e # Client
  BY PartTypes, HostsAssumption
<1>1. table' = table /\ job' = job
  BY DEF ClientAsks, ClientAnnounces
<1>2. \/ inbox'[e] = inbox[e]
      \/ \E m \in Datagram : m.src = Client /\ inbox'[e] = Append(inbox[e], m)
  <2>1. CASE ClientAsks
    <3> DEFINE m == [kind |-> "request", src |-> Client, entries |-> <<>>]
    <3>1. m \in Datagram /\ m.src = Client
      BY <1>0, EmptySeq DEF Datagram
    <3>2. inbox' = inbox \/ \E h \in Daemons : inbox' = Queued({h}, m, inbox)
      BY <2>1 DEF ClientAsks
    <3> HIDE DEF m
    <3>3. QED
      BY <1>0, <3>1, <3>2 DEF Queued
  <2>2. CASE ClientAnnounces
    <3> DEFINE boxes == [inbox EXCEPT ![Client] = <<>>]
    <3>1. boxes[e] = inbox[e] /\ DOMAIN boxes = Hosts
      BY <1>0
    <3>2. \A es \in ClientEntries : /\ Response(Client, es) \in Datagram
                                    /\ Response(Client, es).src = Client
      BY <1>0, ClientAssumption DEF Response, Datagram
    <3>3. \/ inbox' = boxes
          \/ \E es \in ClientEntries : inbox' = Queued({target}, Response(Client, es), boxes)
      BY <2>2 DEF ClientAnnounces
    <3> HIDE DEF boxes
    <3>4. QED
      BY <1>0, <3>1, <3>2, <3>3 DEF Queued
  <2>3. QED
    BY <2>1, <2>2
<1>3. QED
  BY <1>0, <1>1, <1>2, CatchesOther

\* A hearer that dies is no hearer any more, and what it knew does not matter.
LEMMA DeadHearNothing ==
    ASSUME Within(Entry, Route), NEW x \in Daemons, Dies(x),
           NEW d \in Daemons, NEW e \in Daemons, <<d, e>> \in told'
    PROVE  table'[e] = table[e] /\ inbox'[e] = inbox[e] /\ job'[e] = job[e]
BY PartTypes DEF Dies

\* No step that is not d's own update takes d's word from its hearer.
LEMMA HearerSteps ==
    ASSUME Within(Entry, Route), Heeded, [Next]_vars,
           NEW d \in Daemons, NEW e \in Daemons, <<d, e>> \in told, <<d, e>> \in told',
           ~SendUpdate(d), NEW r \in RoutesIn(table[d]),
           Catches(d, r, table[e], inbox[e], job[e])
    PROVE  Catches(d, r, table'[e], inbox'[e], job'[e])
<1>0. /\ d \in Daemons /\ Daemons \subseteq Hosts /\ e \in alive
      /\ table \in [Daemons -> Tables] /\ table[e] \in Tables /\ OneSlot(table[e])
      /\ job \in [Daemons -> Job \cup {Idle}] /\ alive \subseteq Daemons
      /\ inbox \in [Hosts -> Seq(Datagram)] /\ inbox[e] \in Seq(Datagram)
  BY PartTypes DEF Heeded
<1>1. ASSUME table'[e] \in {table[e], Aged(table[e]), RemoveExpired(table[e])},
             inbox' = inbox, job' = job
      PROVE  Catches(d, r, table'[e], inbox'[e], job'[e])
  BY <1>0, <1>1, CatchesSmaller
<1>2. ASSUME NEW x \in Daemons, Dies(x) PROVE Catches(d, r, table'[e], inbox'[e], job'[e])
  BY <1>2, DeadHearNothing
<1>3. ASSUME NEW x \in Daemons, AnswerRequest(x)
      PROVE  Catches(d, r, table'[e], inbox'[e], job'[e])
  <2>1. PICK n \in 1 .. Len(inbox[x]) :
          LET to == Head(inbox[x]).src
              boxes == AfterDrop(x, n)
          IN  /\ told' = StillTold(x, n)
              /\ \/ inbox' = boxes /\ lost' = TRUE
                 \/ /\ CanQueue(to, boxes)
                    /\ inbox' = Queued({to}, Response(x, EntriesOf(table[x])), boxes)
                    /\ UNCHANGED lost
    BY <1>3 DEF AnswerRequest
  <2>2. table' = table /\ job' = job /\ SameWork(job[e], job[e])
    BY <1>3 DEF AnswerRequest, SameWork
  <2>3. (x = e => d \notin DroppedFrom(x, n)) /\ n \in 0 .. Len(inbox[x])
    BY <2>1 DEF StillTold
  <2>4. \A to :
          /\ Catches(d, r, table[e], AfterDrop(x, n)[e], job[e])
          /\ Catches(d, r, table[e],
                     Queued(to, Response(x, EntriesOf(table[x])), AfterDrop(x, n))[e], job[e])
    BY <1>0, <2>2, <2>3, SendCatches
  <2>5. QED
    BY <1>0, <2>1, <2>2, <2>4
<1>4. ASSUME NEW x \in Daemons, TakeResponse(x)
      PROVE  Catches(d, r, table'[e], inbox'[e], job'[e])
  <2>1. CASE x = e
    <3>1. /\ job[e] = Idle /\ inbox[e] # <<>> /\ table' = table
          /\ inbox'[e] = Tail(inbox[e])
          /\ job'[e] = [src |-> Head(inbox[e]).src,
                        entries |-> Head(inbox[e]).entries,
                        changed |-> FALSE, due |-> FALSE]
      BY <1>0, <1>4, <2>1 DEF TakeResponse, Ready
    <3>2. QED
      BY <1>0, <3>1, CatchesTake
  <2>2. CASE x # e
    BY <1>0, <1>4, <2>2 DEF TakeResponse
  <2>3. QED
    BY <2>1, <2>2
<1>5. ASSUME NEW x \in Daemons, StepEntry(x)
      PROVE  Catches(d, r, table'[e], inbox'[e], job'[e])
  <2>1. CASE x \notin alive'
    BY <1>2, <1>5, <2>1 DEF StepEntry, Looping
  <2>2. CASE x \in alive'
    <3> DEFINE after == AfterNextEntry(x)
    <3>1. /\ job[x] \in Job /\ job[x].entries # <<>>
          /\ after.table \in Tables /\ after.changed \in BOOLEAN /\ after.due \in BOOLEAN
          /\ EntryDone(table[x], job[x].src, Head(job[x].entries), after)
          /\ table' = [table EXCEPT ![x] = after.table]
          /\ job' = [job EXCEPT ![x] = [job[x] EXCEPT !.entries = Tail(job[x].entries),
                                                      !.changed = after.changed,
                                                      !.due = after.due]]
          /\ inbox' = inbox
      BY <1>5, <2>2, EntryStep
    <3> HIDE DEF after
    <3>2. CASE x = e
      <4>1. /\ table'[e] = after.table
            /\ job'[e] = [job[e] EXCEPT !.entries = Tail(job[e].entries),
                                        !.changed = after.changed, !.due = after.due]
        BY <1>0, <3>1, <3>2
      <4>2. r.metric \in Nat
        BY <1>0 DEF RoutesIn, Occupied, Tables, Route
      <4>3. QED
        BY <1>0, <3>1, <3>2, <4>1, <4>2, CatchesEntry
    <3>3. CASE x # e
      BY <1>0, <3>1, <3>3
    <3>4. QED
      BY <3>2, <3>3
  <2>3. QED
    BY <2>1, <2>2
<1>6. ASSUME NEW x \in Daemons, EndOfEntries(x)
      PROVE  Catches(d, r, table'[e], inbox'[e], job'[e])
  <2>1. CASE x = e
    <3>1. /\ job[e].entries = <<>> /\ table' = table /\ inbox' = inbox /\ job'[e] = Idle
      BY <1>0, <1>6, <2>1 DEF EndOfEntries
    <3>2. QED
      BY <3>1, CatchesDone
  <2>2. CASE x # e
    BY <1>0, <1>6, <2>2 DEF EndOfEntries
  <2>3. QED
    BY <2>1, <2>2
<1>7. ASSUME NEW x \in Daemons, SendUpdate(x)
      PROVE  Catches(d, r, table'[e], inbox'[e], job'[e])
  <2>1. PICK n \in 0 .. Len(inbox[x]), to \in SUBSET Hearers(x) :
          LET boxes == AfterDrop(x, n)
          IN  /\ \A h \in to : CanQueue(h, boxes)
              /\ inbox' = Queued(to, Response(x, EntriesOf(table[x])), boxes)
              /\ told' = {p \in StillTold(x, n) : p[1] # x} \cup ({x} \X to)
              /\ lost' = (lost \/ LosesRequest(x, n))
    BY <1>7 DEF SendUpdate
  <2>2. table' = table /\ x # d
    BY <1>7 DEF SendUpdate
  <2>3. x = e => d \notin DroppedFrom(x, n)
    BY <2>1, <2>2 DEF StillTold
  <2>4. SameWork(job[e], job'[e])
    <3>1. CASE x = e
      <4>1. job[e] \in Job /\ job'[e] = [job[e] EXCEPT !.due = FALSE]
        BY <1>0, <1>7, <3>1 DEF SendUpdate, Due, Job
      <4>2. /\ job'[e] \in Job /\ job'[e].src = job[e].src
            /\ job'[e].entries = job[e].entries
        BY <4>1 DEF Job
      <4>3. QED
        BY <4>1, <4>2, IdleAssumption DEF SameWork
    <3>2. CASE x # e
      BY <1>0, <1>7, <3>2 DEF SendUpdate, SameWork
    <3>3. QED
      BY <3>1, <3>2
  <2>5. Catches(d, r, table[e],
                Queued(to, Response(x, EntriesOf(table[x])), AfterDrop(x, n))[e], job'[e])
    BY <1>0, <2>2, <2>3, <2>4, SendCatches
  <2>6. QED
    BY <2>1, <2>2, <2>5
<1>8. ASSUME NEW x \in Daemons, Review(x) PROVE Catches(d, r, table'[e], inbox'[e], job'[e])
  BY <1>0, <1>1, <1>8 DEF Review
<1>9. CASE Tick
  BY <1>0, <1>1, <1>9 DEF Tick
<1>10. ASSUME NEW x \in Daemons, Restart(x) PROVE Catches(d, r, table'[e], inbox'[e], job'[e])
  <2>1. x # e
    BY <1>0, <1>10 DEF Restart
  <2>2. QED
    BY <1>0, <1>10, <2>1 DEF Restart
<1>11. CASE ClientAsks \/ ClientAnnounces
  BY <1>0, <1>11, ClientCatches
<1>12. CASE UNCHANGED vars
  BY <1>1, <1>12 DEF vars
<1>13. QED
  BY <1>2, <1>3, <1>4, <1>5, <1>6, <1>7, <1>8, <1>9, <1>10, <1>11, <1>12
     DEF Next, Daemon, Kill, SendEnds

\* Its own update tells all to who hears it.
LEMMA UpdateTells ==
    ASSUME Within(Entry, Route), Heeded, NEW d \in Daemons, SendUpdate(d),
           NEW e \in Daemons, <<d, e>> \in told', NEW r \in RoutesIn(table[d])
    PROVE  /\ Catches(d, r, table'[e], inbox'[e], job'[e])
           /\ table' = table
<1> DEFINE m == Response(d, EntriesOf(table[d]))
<1>0. /\ inbox \in [Hosts -> Seq(Datagram)] /\ Daemons \subseteq Hosts
      /\ table[d] \in Tables /\ OneSlot(table[d])
      /\ TablesOf(Route) = Tables /\ DatagramOf(Entry) = Datagram
  BY PartTypes DEF Heeded, TablesOf, Tables, DatagramOf, Datagram
<1>1. m \in Datagram /\ m.src = d /\ m.entries = EntriesOf(table[d])
  BY <1>0, TypesClosed, ResponseWithin DEF Response
<1>2. table' = table
  BY DEF SendUpdate
<1> HIDE DEF m
<1>3. PICK n \in 0 .. Len(inbox[d]), to \in SUBSET Hearers(d) :
        /\ inbox' = Queued(to, m, AfterDrop(d, n))
        /\ told' = {p \in StillTold(d, n) : p[1] # d} \cup ({d} \X to)
  BY DEF SendUpdate, m
<1>4. AfterDrop(d, n) \in [Hosts -> Seq(Datagram)]
  BY <1>0, QueuesWithin DEF AfterDrop
<1> DEFINE box == AfterDrop(d, n)[e]
<1>5. box \in Seq(Datagram) /\ inbox'[e] = Append(box, m) /\ e \in to
  BY <1>0, <1>3, <1>4 DEF Queued
<1> HIDE DEF box
<1>6. Consistent(m.entries, r) /\ Names(m.entries, r)
  BY <1>0, <1>1, TableTold
<1>7. Catches(d, r, table'[e], Append(box, m), job'[e])
  BY <1>1, <1>5, <1>6, CatchesFresh
<1>8. QED
  BY <1>2, <1>5, <1>7

\* So what the network has heeded it goes on to heed.
LEMMA NextHeeded ==
    ASSUME BootsAreDistinct, Within(Entry, Route), Heeded, [Next]_vars
    PROVE  Heeded'
<1>1. \A d \in Daemons : OneSlot(table'[d])
  BY NextOneSlot
<1>2. \A d, e \in Daemons : <<d, e>> \in told' => d \in alive' /\ e \in alive'
  BY NextToldRun
<1>3. ASSUME NEW d \in Daemons, NEW e \in Daemons, <<d, e>> \in told', Quiet(d)',
             NEW q \in RoutesIn(table'[d])
      PROVE  Catches(d, q, table'[e], inbox'[e], job'[e])
  <2>1. CASE SendUpdate(d)
    <3>1. table' = table
      BY <2>1 DEF SendUpdate
    <3>2. QED
      BY <1>3, <2>1, <3>1, UpdateTells
  <2>2. CASE ~SendUpdate(d)
    <3>1. /\ <<d, e>> \in told /\ Quiet(d)
          /\ table'[d] \in {table[d], Aged(table[d]), RemoveExpired(table[d])}
      BY <1>3, <2>2, SourceSteps
    <3>2. table[d] \in Tables
      BY PartTypes
    <3>3. PICK r \in RoutesIn(table[d]) : q.prefix = r.prefix /\ q.metric = r.metric
      BY <3>1, <3>2, AgedOrReviewed
    <3>4. Catches(d, r, table[e], inbox[e], job[e])
      BY <1>3, <3>1 DEF Heeded
    <3>5. Catches(d, r, table'[e], inbox'[e], job'[e])
      BY <1>3, <2>2, <3>1, <3>4, HearerSteps
    <3>6. QED
      BY <3>3, <3>5, CatchesSame
  <2>3. QED
    BY <2>1, <2>2
<1>4. QED
  BY <1>1, <1>2, <1>3 DEF Heeded

\* The hearer of a daemon's last word, once it has worked it off, believes no
\* subnet further away by that daemon than the daemon does: for any number of
\* daemons, any losses, deaths and restarts, if no file names a subnet twice.
THEOREM NeighboursAgree == BootsAreDistinct => (Spec => []NeighbourBelieves)
<1> DEFINE IInv == Within(Entry, Route) /\ Heeded
<1> SUFFICES ASSUME BootsAreDistinct PROVE Spec => []NeighbourBelieves
  OBVIOUS
<1>1. Init => IInv
  <2> SUFFICES ASSUME Init PROVE IInv
    OBVIOUS
  <2>1. Within(Entry, Route)
    BY TypesClosed, InitWithin
  <2>2. \A d \in Daemons : OneSlot(table[d])
    BY DEF Init, BootsAreDistinct
  <2>3. told = {}
    BY DEF Init
  <2>4. QED
    BY <2>1, <2>2, <2>3 DEF Heeded
<1>2. IInv /\ [Next]_vars => IInv'
  <2> SUFFICES ASSUME Within(Entry, Route), Heeded, [Next]_vars
               PROVE  Within(Entry, Route)' /\ Heeded'
    OBVIOUS
  <2>1. Within(Entry, Route)'
    BY TypesClosed, NextWithin
  <2>2. QED
    BY <2>1, NextHeeded
<1>3. IInv => NeighbourBelieves
  <2> SUFFICES ASSUME Within(Entry, Route), Heeded,
                      NEW d \in Daemons, NEW e \in Daemons, InStep(d, e),
                      NEW r \in Routes(d), NEW q \in Routes(e),
                      q.prefix = r.prefix, q.nextHop = d
               PROVE  q.metric <= OneHopMore(r.metric)
    BY DEF NeighbourBelieves
  <2>1. r \in RoutesIn(table[d]) /\ q \in RoutesIn(table[e])
    BY DEF Routes, RoutesIn
  <2>2. Catches(d, r, table[e], inbox[e], job[e])
    BY <2>1 DEF Heeded, InStep, Quiet, Due
  <2>3. NearEnough(d, table[e], r)
    BY <2>2 DEF Catches, LastOf, InStep
  <2>4. QED
    BY <2>1, <2>3 DEF NearEnough
<1> HIDE DEF IInv
<1>4. QED
  BY <1>1, <1>2, <1>3, PTL DEF Spec

=============================================================================
