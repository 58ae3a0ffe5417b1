------------------------------- MODULE RipNetwork -------------------------------
(***************************************************************************)
(* Several RIPv2 daemons (rip2_server.c) and the test client               *)
(* (rip2_client.c) that talk to each other.                                *)
(*                                                                         *)
(* The body of a daemon is that of RipDaemon.tla, taken here in the steps  *)
(* the others can tell apart: a request is answered at once; a response is *)
(* worked off entry by entry, and from the first entry that changes        *)
(* something on each entry is followed by an update, with what the table   *)
(* holds by then; expired routes are removed.                              *)
(*                                                                         *)
(* An update is sent to 224.0.0.9, but ipv4_send asks by ARP for the next  *)
(* hop of the route to that address, a gateway in the repository's table,  *)
(* and puts the one MAC of the answer on the frame.  The gateway hears it; *)
(* the other daemons do so if that MAC is one that eth_recv lets in for    *)
(* everybody ("&&" in place of "&"), since IP lets the group's packets in. *)
(***************************************************************************)
EXTENDS RipRouteTable, Sequences, Functions

CONSTANTS
    Daemons,        \* the addresses of the daemons
    Client,         \* the address of the client's host
    GroupHop,       \* for each daemon, the host its updates go to
    Nobody,         \* a host that is none of these
    Heard,          \* the hosts whose card has a first octet that is not 0
    BootTables,     \* for each daemon, the tables its file may give it
    ClientEntries,  \* what the client's own file may give it to send
    Idle,           \* no response is being worked off
    MaxInbox,       \* bound: datagrams waiting in an interface
    MaxRestarts,    \* bound: restarts of daemons
    MaxAsks         \* bound: runs of the client

Hosts == Daemons \cup {Client}

Entry    == [prefix : Prefix, metric : Nat]
Datagram == [kind : {"request", "response"}, src : Hosts, entries : Seq(Entry)]
Job      == [src : Hosts, entries : Seq(Entry), changed : BOOLEAN, due : BOOLEAN]

ASSUME HostsAssumption   == /\ Hosts \subseteq Addr /\ Client \notin Daemons
                            /\ Nobody \notin Hosts
ASSUME HopAssumption     == /\ GroupHop \in [Daemons -> Daemons \cup {Nobody}]
                            /\ Heard \subseteq Daemons \cup {Nobody}
ASSUME BootAssumption    == /\ BootTables \in [Daemons -> SUBSET Tables]
                            /\ \A d \in Daemons : \A t \in BootTables[d] :
                                  \A s \in Occupied(t) : ~Finite(t[s])
ASSUME ClientAssumption  == ClientEntries \subseteq Seq(Entry)
ASSUME IdleAssumption    == Idle \notin Job
ASSUME BoundsAssumption  == MaxInbox \in Nat /\ MaxRestarts \in Nat /\ MaxAsks \in Nat

VARIABLES
    alive,     \* the daemons whose process runs
    table,     \* rip_table of each
    job,       \* the response each works on: what is left of it, changed, and
               \* whether the loop is at the update that ends a turn
    inbox,     \* what waits at port 520 of a daemon, at 1520 of the client
    client,    \* "off", or "wait": in udp_recv
    target,    \* router_ip of the client
    told,      \* history: <<d, e>> where the last update of d is at e, or done
    lost,      \* history: what the client waits for will not come any more
    restarts, asks

vars == <<alive, table, job, inbox, client, target, told, lost, restarts, asks>>

TypeOK ==
    /\ alive \subseteq Daemons
    /\ table \in [Daemons -> Tables]
    /\ job \in [Daemons -> Job \cup {Idle}]
    /\ inbox \in [Hosts -> Seq(Datagram)]
    /\ client \in {"off", "wait"}
    /\ target \in Daemons
    /\ told \subseteq Daemons \X Daemons
    /\ lost \in BOOLEAN
    /\ restarts \in 0 .. MaxRestarts /\ asks \in 0 .. MaxAsks

Init ==
    /\ alive = Daemons
    /\ table \in {t \in [Daemons -> UNION Range(BootTables)] :
                    \A d \in Daemons : t[d] \in BootTables[d]}
    /\ job = [d \in Daemons |-> Idle]
    /\ inbox = [h \in Hosts |-> <<>>]
    /\ client = "off"
    /\ target \in Daemons
    /\ told = {}
    /\ lost = FALSE
    /\ restarts = 0 /\ asks = 0

---------------------------------------------------------------------------
(* The wire.                                                               *)

Listens(h) == h \in alive \/ (h = Client /\ client = "wait")

\* The datagram is queued, or it is lost: on the wire, for want of an ARP answer,
\* or because nobody listens.
CanQueue(h, boxes) == Listens(h) /\ Len(boxes[h]) < MaxInbox

Queued(to, m, boxes) ==
    [h \in Hosts |-> IF h \in to THEN Append(boxes[h], m) ELSE boxes[h]]

\* What a send drops of the sender's own queue while ARP waits.
AfterDrop(d, n) == [inbox EXCEPT ![d] = SubSeq(@, n + 1, Len(@))]

DroppedFrom(d, n) == {inbox[d][i].src : i \in 1 .. n}

\* Those whose last update is not among what d has dropped.
StillTold(d, n) == {p \in told : ~(p[1] \in DroppedFrom(d, n) /\ p[2] = d)}

\* send_table: the occupied slots in their order.
SlotsInOrder(t) ==
    CHOOSE f \in [1 .. Cardinality(Occupied(t)) -> Occupied(t)] :
        \A i, j \in DOMAIN f : i < j => f[i] < f[j]

EntryOf(r) == [prefix |-> r.prefix, metric |-> r.metric]

EntriesOf(t) == [i \in DOMAIN SlotsInOrder(t) |-> EntryOf(t[SlotsInOrder(t)[i]])]

Response(src, entries) == [kind |-> "response", src |-> src, entries |-> entries]

---------------------------------------------------------------------------
(* A daemon.                                                               *)

Ready(d) == d \in alive /\ job[d] = Idle

\* The process is gone: its table, and what waits for it.
Dies(d) ==
    /\ alive' = alive \ {d}
    /\ table' = [table EXCEPT ![d] = EmptyTable]
    /\ job' = [job EXCEPT ![d] = Idle]
    /\ inbox' = [inbox EXCEPT ![d] = <<>>]
    /\ told' = {p \in told : p[1] # d /\ p[2] # d}
    /\ lost' = (lost \/ (client = "wait" /\ target = d))

\* Mutant: the answer goes where the updates go.
AnswerToGroup(d) ==
    /\ Ready(d) /\ inbox[d] # <<>>
    /\ Head(inbox[d]).kind = "request"
    /\ CanQueue(GroupHop[d], AfterDrop(d, 1))
    /\ inbox' = Queued({GroupHop[d]}, Response(d, EntriesOf(table[d])), AfterDrop(d, 1))
    /\ UNCHANGED <<alive, table, job, client, target, told, lost, restarts, asks>>

\* A request is answered with the whole table, to the port it came from.  n
\* datagrams leave the queue: the request, and what ARP drops.
AnswerRequest(d) ==
    /\ Ready(d) /\ inbox[d] # <<>>
    /\ Head(inbox[d]).kind = "request"
    /\ \E n \in 1 .. Len(inbox[d]) :
         LET to == Head(inbox[d]).src
             boxes == AfterDrop(d, n)
         IN  /\ told' = StillTold(d, n)
             /\ \/ inbox' = boxes /\ lost' = TRUE
                \/ /\ CanQueue(to, boxes)
                   /\ inbox' = Queued({to}, Response(d, EntriesOf(table[d])), boxes)
                   /\ UNCHANGED lost
    /\ UNCHANGED <<alive, table, job, client, target, restarts, asks>>

TakeResponse(d) ==
    /\ Ready(d) /\ inbox[d] # <<>>
    /\ Head(inbox[d]).kind = "response"
    /\ job' = [job EXCEPT ![d] = [src |-> Head(inbox[d]).src,
                                  entries |-> Head(inbox[d]).entries,
                                  changed |-> FALSE, due |-> FALSE]]
    /\ inbox' = [inbox EXCEPT ![d] = Tail(@)]
    /\ UNCHANGED <<alive, table, client, target, told, lost, restarts, asks>>

\* Between two turns of the loop, and at the end of a turn that owes an update.
Looping(d) == d \in alive /\ job[d] # Idle /\ ~job[d].due
Due(d)     == d \in alive /\ job[d] # Idle /\ job[d].due

AfterNextEntry(d) ==
    AfterEntry([table |-> table[d], changed |-> job[d].changed, alive |-> TRUE,
                due |-> FALSE],
               job[d].src, Head(job[d].entries))

StepEntry(d) ==
    /\ Looping(d) /\ job[d].entries # <<>>
    /\ LET r == AfterNextEntry(d) IN
         IF r.alive
         THEN /\ table' = [table EXCEPT ![d] = r.table]
              /\ job' = [job EXCEPT ![d].entries = Tail(@), ![d].changed = r.changed,
                                    ![d].due = r.due]
              /\ UNCHANGED <<alive, inbox, told, lost>>
         ELSE Dies(d)
    /\ UNCHANGED <<client, target, restarts, asks>>

\* Who may read an update of d: the next hop, and whoever its card does not keep
\* the frame from.
Hearers(d) == {GroupHop[d]} \cup {h \in Daemons \ {d} : GroupHop[d] \in Heard}

\* Mutant: an update at the end of every response, changed or not.
EndWithUpdate(d) ==
    /\ Looping(d) /\ job[d].entries = <<>>
    /\ job' = [job EXCEPT ![d] = Idle]
    /\ \E h \in Hearers(d) :
         IF CanQueue(h, inbox)
         THEN /\ inbox' = Queued({h}, Response(d, EntriesOf(table[d])), inbox)
              /\ told' = told \cup {<<d, h>>}
         ELSE UNCHANGED <<inbox, told>>
    /\ UNCHANGED <<alive, table, client, target, lost, restarts, asks>>

EndOfEntries(d) ==
    /\ Looping(d) /\ job[d].entries = <<>>
    /\ job' = [job EXCEPT ![d] = Idle]
    /\ UNCHANGED <<alive, table, inbox, client, target, told, lost, restarts, asks>>

\* A request of the client among what ARP drops will have no answer.
LosesRequest(d, n) == Client \in DroppedFrom(d, n)

\* The table as it is between two entries goes out, to some of those who may read
\* it, and the loop goes on, with the datagrams gone that ARP has dropped.
SendUpdate(d) ==
    /\ Due(d)
    /\ job' = [job EXCEPT ![d].due = FALSE]
    /\ \E n \in 0 .. Len(inbox[d]), to \in SUBSET Hearers(d) :
         LET boxes == AfterDrop(d, n) IN
         /\ \A h \in to : CanQueue(h, boxes)
         /\ inbox' = Queued(to, Response(d, EntriesOf(table[d])), boxes)
         /\ told' = {p \in StillTold(d, n) : p[1] # d} \cup ({d} \X to)
         /\ lost' = (lost \/ LosesRequest(d, n))
    /\ UNCHANGED <<alive, table, client, target, restarts, asks>>

\* A send may be the daemon's last step: arp_resolve exits when its request cannot
\* be sent, and a table of more routes than a message holds overruns the stack.
SendEnds(d) ==
    /\ \/ Due(d)
       \/ Ready(d) /\ inbox[d] # <<>> /\ Head(inbox[d]).kind = "request"
    /\ Dies(d)
    /\ UNCHANGED <<client, target, restarts, asks>>

HasExpired(t) == \E s \in Occupied(t) : Expired(t[s])

\* udp_recv returned 0: the wait ends with the first route that expires.
Review(d) ==
    /\ Ready(d) /\ HasExpired(table[d])
    /\ table' = [table EXCEPT ![d] = RemoveExpired(@)]
    /\ UNCHANGED <<alive, job, inbox, client, target, told, lost, restarts, asks>>

---------------------------------------------------------------------------
(* The client.                                                             *)

\* main sends the request, does not look at the result, and waits for ever.
ClientAsks ==
    /\ client = "off" /\ asks < MaxAsks
    /\ client' = "wait" /\ asks' = asks + 1
    /\ \E d \in Daemons :
         /\ target' = d
         /\ \/ UNCHANGED inbox /\ lost' = TRUE
            \/ /\ CanQueue(d, inbox)
               /\ inbox' = Queued({d}, [kind |-> "request", src |-> Client,
                                        entries |-> <<>>], inbox)
               /\ lost' = FALSE
    /\ UNCHANGED <<alive, table, job, told, restarts>>

\* Whatever comes is taken for the answer; the routes of its own file go out as
\* a response, and the program ends.
ClientAnnounces ==
    /\ client = "wait" /\ inbox[Client] # <<>>
    /\ client' = "off"
    /\ lost' = FALSE
    /\ LET boxes == [inbox EXCEPT ![Client] = <<>>] IN
         \/ inbox' = boxes
         \/ \E es \in ClientEntries :
              /\ CanQueue(target, boxes)
              /\ inbox' = Queued({target}, Response(Client, es), boxes)
    /\ UNCHANGED <<alive, table, job, target, told, restarts, asks>>

---------------------------------------------------------------------------
(* The environment.                                                        *)

\* The operator, or the machine, ends a daemon, and it is started again with
\* what its file holds.
Kill(d) ==
    /\ d \in alive /\ restarts < MaxRestarts
    /\ Dies(d)
    /\ UNCHANGED <<client, target, restarts, asks>>

Restart(d) ==
    /\ d \notin alive /\ restarts < MaxRestarts
    /\ alive' = alive \cup {d}
    /\ \E t \in BootTables[d] : table' = [table EXCEPT ![d] = t]
    /\ restarts' = restarts + 1
    /\ UNCHANGED <<job, inbox, client, target, told, lost, asks>>

Tick ==
    /\ table' = [d \in Daemons |-> Aged(table[d])]
    /\ table' # table
    /\ UNCHANGED <<alive, job, inbox, client, target, told, lost, restarts, asks>>

Daemon(d) == \/ AnswerRequest(d) \/ TakeResponse(d) \/ StepEntry(d)
             \/ EndOfEntries(d) \/ SendUpdate(d) \/ SendEnds(d) \/ Review(d)

Next == \/ \E d \in Daemons : Daemon(d) \/ Kill(d) \/ Restart(d)
        \/ ClientAsks \/ ClientAnnounces
        \/ Tick

\* Processes that run go on, and so does the clock.  Nothing is assumed of the
\* wire, nor that anybody is ever restarted or asks.
Fairness ==
    /\ \A d \in Daemons : WF_vars(Daemon(d))
    /\ WF_vars(ClientAnnounces)
    /\ WF_vars(Tick)

Spec == Init /\ [][Next]_vars /\ Fairness

---------------------------------------------------------------------------
(* Properties.                                                             *)

\* The metrics the files, of daemons and client, have for a subnet: where all
\* routes come from.
Listed ==
    (UNION {{EntryOf(t[s]) : s \in Occupied(t)} : t \in UNION Range(BootTables)})
    \cup UNION {Range(es) : es \in ClientEntries}

OriginMetrics(p) == {e.metric : e \in {x \in Listed : x.prefix = p}}

Routes(d) == {table[d][s] : s \in Occupied(table[d])}

Learned(r) == Finite(r)

\* No route is better than where it comes from: through updates of updates,
\* routes that expire and are learned again from those who had learned them here,
\* and daemons that die and come back, a route costs at least what some file
\* says of its subnet, and one hop more when a neighbour has spoken for it
\* (rip2_server.c:230-245, 254, 264).
MetricHasOrigin ==
    \A d \in Daemons : \A r \in Routes(d) :
        \E m \in OriginMetrics(r.prefix) :
            \/ r.metric > m
            \/ r.metric = m /\ (Learned(r) => m = Unreachable)

\* If no file has a metric above 16, no table and no datagram ever has: metrics
\* count up to 16 and stay there, however long two daemons believe each other
\* (rip2_server.c:231: the test is for 16 itself).
OriginsInRange == \A p \in Prefix : \A m \in OriginMetrics(p) : m <= Unreachable

NoneAboveInfinity ==
    OriginsInRange =>
        /\ \A d \in Daemons : \A r \in Routes(d) : r.metric <= Unreachable
        /\ \A h \in Hosts : \A i \in DOMAIN inbox[h] :
              \A j \in DOMAIN inbox[h][i].entries :
                  inbox[h][i].entries[j].metric <= Unreachable

\* What d has sent last has been worked off by e, and d does not owe an update,
\* though it may be between two entries.
InStep(d, e) ==
    /\ <<d, e>> \in told
    /\ ~Due(d)
    /\ job[e] = Idle \/ job[e].src # d
    /\ \A i \in DOMAIN inbox[e] : inbox[e][i].src # d

\* Once a daemon's last update has arrived, whoever goes through it for a subnet
\* does not believe it to be further away than it is, even while that daemon is
\* half through a response: no change of a metric slips past the update of its
\* entry, whatever came between (rip2_server.c:221, 250-256, 278-280).
NeighbourBelieves ==
    \A d, e \in Daemons : InStep(d, e) =>
        \A r \in Routes(d), q \in Routes(e) :
            (q.prefix = r.prefix /\ q.nextHop = d) => q.metric <= OneHopMore(r.metric)

\* Some daemons have each other for next hops, round a circle, be it for a
\* different subnet each.
Circle ==
    \E D \in SUBSET Daemons \ {{}} : \A d \in D :
        \E r \in Routes(d) : r.nextHop \in D

\* No daemon loses a route: none expires and is reviewed, and no daemon dies.
LosesNone == \A d \in Daemons : Occupied(table[d]) \subseteq Occupied(table'[d])

\* However many updates one response gives rise to, updates that answer updates die
\* out, but for two things.  In a circle of next hops the word of the next hop raises
\* changed even when it changes nothing, and two daemons answer each other for ever,
\* although no subnet need be routed in a circle; and routes that expire in time to
\* be learned again from the next update break the circle, not the exchange
\* (rip2_server.c:204, 234-241, 250-252, 278-280).
UpdatesSettle ==
    (<>[](~Circle) /\ <>[][LosesNone]_table) =>
        <>[](\A d \in Daemons : inbox[d] = <<>>)

\* The client that waits without a timeout waits for ever only if its request, or
\* the reply, was lost, or the daemon died (rip2_client.c:99-105): no other
\* traffic of the daemon, and no order of events, keeps the reply from it.
ClientServed ==
    (client = "wait" /\ ~lost) ~> (client = "off" \/ lost)

=============================================================================
