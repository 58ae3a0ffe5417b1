-------------------------------- MODULE RipDaemon --------------------------------
(***************************************************************************)
(* The RIPv2 daemon: main of rip2_server.c, one thread that loads its      *)
(* table from a file and then serves one datagram or one expiry at a time. *)
(*                                                                         *)
(* The environment (the neighbours, the kernel's socket queue, the clock)  *)
(* may act between any two steps of the daemon.  The network below the     *)
(* daemon appears here only through what main observes of udp_recv and     *)
(* udp_send; NetStack.tla models those two.                                *)
(***************************************************************************)
EXTENDS RipRouteTable, Sequences

CONSTANTS
    WireMetrics,  \* the metrics neighbours put in their entries
    MaxEntries,   \* the entries a ripv2_message_t holds (25 in rip.h)
    MaxInbox,     \* bound: datagrams waiting in the socket
    BootFiles,    \* the possible contents of rip_route_table.txt
    BadLine,      \* a line ripv2_route_table_read cannot parse
    NoMsg         \* no packet is being handled

\* A line of the file, comments and blank lines left out.  The timer column
\* is there and parsed, whatever its value.
FileRoute == [prefix : Prefix, nextHop : Addr, metric : Nat, timer : Int]

Entry    == [prefix : Prefix, metric : WireMetrics]

\* "empty" is a datagram without payload, for which udp_recv returns 0;
\* "other" has a command that is neither RIP_REQUEST nor RIP_RESPONSE.
Datagram == [kind : {"request", "response", "empty", "other"},
             src : Addr, entries : Seq(Entry)]

ASSUME WireMetricsAssumption == WireMetrics \subseteq Nat
ASSUME MaxEntriesAssumption  == MaxEntries \in Nat \ {0}
ASSUME MaxInboxAssumption    == MaxInbox \in Nat \ {0}
ASSUME BootFilesAssumption   == BootFiles \subseteq Seq(FileRoute \cup {BadLine})
ASSUME BadLineAssumption     == BadLine \notin FileRoute
ASSUME NoMsgAssumption       == NoMsg \notin Datagram

VARIABLES
    pc,         \* where main is, see PCs
    lines,      \* the lines of the file not read yet
    table,      \* rip_table
    timeout,    \* what is left of the timeout given to udp_recv
    inbox,      \* the socket queue
    msg,        \* received_packet and source_ip; entries still to process
    changed,    \* the flag of the same name
    announced   \* history: the entries of the last update multicast, at first
                \* those of the file

vars == <<pc, lines, table, timeout, inbox, msg, changed, announced>>

\* "load":    ripv2_route_table_read          "wait":   the head of while(1)
\* "recv":    in udp_recv                     "entries": the head of the for loop
\* "reply":   send_table to the requester     "update": send_table to 224.0.0.9,
\*                                            at the end of a turn of that loop
\* "crashed", "exited": the process is gone
PCs == {"load", "wait", "recv", "entries", "reply", "update", "crashed", "exited"}

Stopped == pc \in {"crashed", "exited"}

TypeOK ==
    /\ pc \in PCs
    /\ lines \in Seq(FileRoute \cup {BadLine})
    /\ table \in Tables
    /\ timeout \in Timers
    /\ inbox \in Seq(Datagram)
    /\ msg \in Datagram \cup {NoMsg}
    /\ pc \in {"entries", "reply", "update"} => msg # NoMsg
    /\ changed \in BOOLEAN
    /\ pc = "update" => changed
    /\ announced \in SUBSET (Prefix \X Nat)

Init ==
    /\ pc = "load"
    /\ lines \in BootFiles
    /\ table = EmptyTable
    /\ timeout = InfiniteTimeout
    /\ inbox = <<>>
    /\ msg = NoMsg
    /\ changed = FALSE
    /\ announced = {}

---------------------------------------------------------------------------
(* Loading the table: ripv2_route_table_read.                              *)

\* The route is created with no timeout whatever the file says; main has
\* announced nothing yet, but takes what the file lists for known.
LoadRoute ==
    /\ pc = "load" /\ lines # <<>>
    /\ Head(lines) # BadLine
    /\ Free(table) # {}
    /\ LET l == Head(lines) IN
         table' = Add(table, NewRoute(l.prefix, l.nextHop, l.metric, InfiniteTimeout))
    /\ announced' = Advertised(table')
    /\ lines' = Tail(lines)
    /\ UNCHANGED <<pc, timeout, inbox, msg, changed>>

\* A malformed line, or a full table, ends the reading with -1, which main
\* ignores: the routes read so far stay.
LoadFails ==
    /\ pc = "load" /\ lines # <<>>
    /\ Head(lines) = BadLine \/ Free(table) = {}
    /\ lines' = <<>>
    /\ UNCHANGED <<pc, table, timeout, inbox, msg, changed, announced>>

LoadDone ==
    /\ pc = "load" /\ lines = <<>>
    /\ pc' = "wait"
    /\ UNCHANGED <<lines, table, timeout, inbox, msg, changed, announced>>

---------------------------------------------------------------------------
(* Waiting: the choice of the timeout and what udp_recv returns.           *)

ChooseTimeout ==
    /\ pc = "wait"
    /\ timeout' = NextTimeout(table)
    /\ pc' = "recv"
    /\ UNCHANGED <<lines, table, inbox, msg, changed, announced>>

\* udp_recv returns a datagram of this kind; main resets timeout to -1 before
\* it reads it again.
Takes(kind) ==
    /\ pc = "recv" /\ inbox # <<>>
    /\ Head(inbox).kind = kind
    /\ inbox' = Tail(inbox)
    /\ timeout' = InfiniteTimeout

\* udp_recv returned 0.
Review ==
    /\ table' = RemoveExpired(table)
    /\ pc' = "wait"
    /\ UNCHANGED <<lines, msg, changed, announced>>

\* The wait has run out.  A datagram may have come at the last moment.
RecvTimeout ==
    /\ pc = "recv" /\ timeout = 0
    /\ timeout' = InfiniteTimeout
    /\ Review
    /\ UNCHANGED inbox

\* A datagram without payload gives 0 as well.
RecvEmpty ==
    /\ Takes("empty")
    /\ Review

RecvRequest ==
    /\ Takes("request")
    /\ msg' = Head(inbox)
    /\ pc' = "reply"
    /\ UNCHANGED <<lines, table, changed, announced>>

RecvResponse ==
    /\ Takes("response")
    /\ msg' = Head(inbox)
    /\ changed' = FALSE
    /\ pc' = "entries"
    /\ UNCHANGED <<lines, table, announced>>

RecvOther ==
    /\ Takes("other")
    /\ pc' = "wait"
    /\ UNCHANGED <<lines, table, msg, changed, announced>>

\* udp_recv returned -1: only 0 is told apart, so the error is copied as a
\* packet of (size_t) -1 bytes.  A datagram longer than ripv2_message_t, or one
\* whose length is not that of a header and whole entries (print_rip_packet
\* counts down to exactly 0), ends no better: the same step stands for it.
RecvError ==
    /\ pc = "recv"
    /\ pc' = "crashed"
    /\ UNCHANGED <<lines, table, timeout, inbox, msg, changed, announced>>

---------------------------------------------------------------------------
(* The loop on the entries of a response, one entry a step.  Each turn of  *)
(* the loop ends with its own update, once the flag has been raised: with  *)
(* a table that has some of the response's entries and not yet the others, *)
(* and for an entry that changes nothing as well.                          *)

ThisEntry  == Head(msg.entries)
ThisMetric == OneHopMore(ThisEntry.metric)
ThisSlot   == Find(table, ThisEntry.prefix)
ThisRoute  == Get(table, ThisSlot)

HasEntry == pc = "entries" /\ msg.entries # <<>>

\* Mutant: a known subnet gets a second route for another next hop.
IsNewForThisNextHop ==
    /\ ThisMetric < Unreachable
    /\ IF ThisSlot = -1 THEN TRUE ELSE ThisRoute.nextHop # msg.src

\* The first branch: nothing known of the subnet, and it can be reached.
IsNew == ThisSlot = -1 /\ ThisMetric < Unreachable

\* The end of a turn: "if (changed != 0)", then the next entry.
NextEntry ==
    /\ msg' = [msg EXCEPT !.entries = Tail(@)]
    /\ pc' = IF changed' THEN "update" ELSE "entries"
    /\ UNCHANGED <<lines, timeout, inbox, announced>>

\* The result of the add is ignored: a full table loses the route.
AddRoute ==
    /\ HasEntry /\ IsNew
    /\ table' = Add(table, NewRoute(ThisEntry.prefix, msg.src,
                                    ThisEntry.metric + 1, RouteTimeout))
    /\ changed' = TRUE
    /\ NextEntry

\* Mutant: the next hop's word restarts the timer and nothing else.
RefreshTimerOnly ==
    /\ HasEntry /\ ~IsNew
    /\ ThisRoute # NoRoute
    /\ msg.src = ThisRoute.nextHop
    /\ table' = [table EXCEPT ![ThisSlot].timer = RouteTimeout]
    /\ changed' = TRUE
    /\ NextEntry

RefreshFromNextHop ==
    /\ HasEntry /\ ~IsNew
    /\ ThisRoute # NoRoute
    /\ msg.src = ThisRoute.nextHop
    /\ table' = Refreshed(table, ThisSlot, ThisMetric)
    /\ changed' = TRUE
    /\ NextEntry

\* Mutant: the changed flag not raised for a better metric.
BetterMetricQuietly ==
    /\ HasEntry /\ ~IsNew
    /\ ThisRoute # NoRoute
    /\ msg.src # ThisRoute.nextHop
    /\ ThisMetric < ThisRoute.metric
    /\ table' = Refreshed(table, ThisSlot, ThisMetric)
    /\ UNCHANGED changed
    /\ NextEntry

BetterMetric ==
    /\ HasEntry /\ ~IsNew
    /\ ThisRoute # NoRoute
    /\ msg.src # ThisRoute.nextHop
    /\ ThisMetric < ThisRoute.metric
    /\ table' = Refreshed(table, ThisSlot, ThisMetric)
    /\ changed' = TRUE
    /\ NextEntry

\* The last branch: its test for the next hop was already made above and
\* cannot succeed here.
IgnoreEntry ==
    /\ HasEntry /\ ~IsNew
    /\ ThisRoute # NoRoute
    /\ msg.src # ThisRoute.nextHop
    /\ ThisMetric >= ThisRoute.metric
    /\ UNCHANGED <<table, changed>>
    /\ NextEntry

\* An unreachable subnet nobody knows: get(-1) is NULL, and is dereferenced.
UnknownUnreachable ==
    /\ HasEntry /\ ~IsNew
    /\ ThisRoute = NoRoute
    /\ pc' = "crashed"
    /\ UNCHANGED <<lines, table, timeout, inbox, msg, changed, announced>>

EndOfEntries ==
    /\ pc = "entries" /\ msg.entries = <<>>
    /\ pc' = "wait" /\ msg' = NoMsg
    /\ UNCHANGED <<lines, table, timeout, inbox, changed, announced>>

---------------------------------------------------------------------------
(* send_table, whose result main ignores.                                  *)

\* A send resolves the next hop's MAC first, and reads and drops what waits
\* in the socket until the ARP reply comes; without a route to the
\* destination it fails at once and drops nothing.
Transmit == \E k \in 0 .. Len(inbox) : inbox' = SubSeq(inbox, k + 1, Len(inbox))

SendReply ==
    /\ pc = "reply"
    /\ Transmit
    /\ pc' = "wait" /\ msg' = NoMsg
    /\ UNCHANGED <<lines, table, timeout, changed, announced>>

\* Mutant: the packet let go with its first update, in the middle of the loop.
SendUpdateDropsPacket ==
    /\ pc = "update"
    /\ Transmit
    /\ announced' = Advertised(table)
    /\ pc' = "entries" /\ msg' = NoMsg
    /\ UNCHANGED <<lines, table, timeout, changed>>

\* The loop goes on, the flag still raised: there is an update after every
\* entry that is left.
SendUpdate ==
    /\ pc = "update"
    /\ Transmit
    /\ announced' = Advertised(table)
    /\ pc' = "entries"
    /\ UNCHANGED <<lines, table, timeout, msg, changed>>

\* arp_resolve exits when its request cannot be sent, be it between two entries.
SendExits ==
    /\ pc \in {"reply", "update"}
    /\ pc' = "exited"
    /\ UNCHANGED <<lines, table, timeout, inbox, msg, changed, announced>>

\* Nothing bounds the copy into rip_entries: past its end the outcome is
\* whatever the overwritten stack gives, a longer datagram or a crash.
SendOverrun ==
    /\ pc \in {"reply", "update"}
    /\ Cardinality(Occupied(table)) > MaxEntries
    /\ pc' = "crashed"
    /\ UNCHANGED <<lines, table, timeout, inbox, msg, changed, announced>>

---------------------------------------------------------------------------
(* The environment.                                                        *)

Deliver(d) ==
    /\ ~Stopped
    /\ Len(inbox) < MaxInbox
    /\ inbox' = Append(inbox, d)
    /\ UNCHANGED <<pc, lines, table, timeout, msg, changed, announced>>

\* The datagrams a neighbour sends.  A response is as long as it likes, up to
\* what ripv2_message_t holds.
Arrives ==
    \E a \in Addr :
        \/ \E k \in {"request", "empty", "other"} :
               Deliver([kind |-> k, src |-> a, entries |-> <<>>])
        \/ \E n \in 0 .. MaxEntries : \E es \in [1 .. n -> Entry] :
               Deliver([kind |-> "response", src |-> a, entries |-> es])

\* Time passes for the timers and for the wait in udp_recv alike.
Tick ==
    /\ ~Stopped
    /\ Aged(table) # table \/ Older(timeout) # timeout
    /\ table' = Aged(table)
    /\ timeout' = Older(timeout)
    /\ UNCHANGED <<pc, lines, inbox, msg, changed, announced>>

---------------------------------------------------------------------------
Load    == LoadRoute \/ LoadFails \/ LoadDone
Receive == \/ ChooseTimeout \/ RecvTimeout \/ RecvEmpty
           \/ RecvRequest \/ RecvResponse \/ RecvOther
Process == \/ AddRoute \/ RefreshFromNextHop \/ BetterMetric
           \/ IgnoreEntry \/ UnknownUnreachable \/ EndOfEntries
Send    == SendReply \/ SendUpdate \/ SendExits \/ SendOverrun

Daemon == Load \/ Receive \/ Process \/ Send

Next == Daemon \/ RecvError \/ Arrives \/ Tick

\* main never blocks but in udp_recv, and the clock runs.  No fairness on the
\* neighbours, nor on the errors of the interface.
Fairness == WF_vars(Daemon) /\ WF_vars(Tick)

Spec == Init /\ [][Next]_vars /\ Fairness

---------------------------------------------------------------------------
(* Properties.                                                             *)

\* The wait in udp_recv (rip2_server.c:186-201) ends no later than the first
\* expiry: whatever the order of the finite and the infinite timers in the
\* table, whatever was refreshed since, no route can expire unattended.
WakesForEveryExpiry ==
    pc = "recv" => \A s \in Slots :
        table[s] # NoRoute /\ Finite(table[s]) =>
            timeout # InfiniteTimeout /\ timeout <= table[s].timer

\* Before the daemon looks at another entry, and when it is back at its wait, each
\* route of its table is as the file or the last update had it: no change of a
\* metric and no new route of an entry, nor of those before it, has slipped past
\* the changed flag and the update inside the loop (rip2_server.c:221, 278-280).
NothingUnannounced ==
    pc \in {"wait", "recv", "entries"} => Advertised(table) \subseteq announced

\* Two slots with the same subnet are only ever what the file brought: once
\* serving, no step of the daemon gives a subnet a second slot
\* (rip2_server.c:234-242, the find before the add).
NoNewDuplicates ==
    [][pc # "load" =>
        \A s, q \in Slots :
            /\ s # q
            /\ table'[s] # NoRoute /\ table'[q] # NoRoute
            /\ table'[s].prefix = table'[q].prefix
            => /\ table[s] # NoRoute /\ table[q] # NoRoute
               /\ table[s].prefix = table[q].prefix]_vars

\* A route that has not expired is never dropped, and one the file brought is
\* never dropped before a neighbour's word has given it a timer
\* (rip2_server.c:94-110, the remove; 240, the add into a free slot only).
OnlyExpiredRoutesGo ==
    [][\A s \in Slots : table[s] # NoRoute /\
           (table'[s] = NoRoute \/ table'[s].prefix # table[s].prefix)
           => table[s].timer = 0 /\ table'[s] = NoRoute]_vars

\* If the neighbours fall silent for ever, every route they taught goes: only
\* routes of the file nobody ever spoke for remain, unless the process died
\* (rip2_server.c:186-206, the wait and the review together).
SilenceForgets ==
    <>[](inbox = <<>>) =>
        <>[](Stopped \/ \A s \in Slots : table[s] # NoRoute => ~Finite(table[s]))

\* "We check if the route comes from our current next hop for this route"
\* (rip2_server.c:249): for an entry that is not of a new route there is a
\* route to compare with.
ComparedRouteExists ==
    HasEntry /\ ~IsNew => ThisRoute # NoRoute

=============================================================================
