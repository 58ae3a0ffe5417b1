------------------------------- MODULE RipHistory -------------------------------
(***************************************************************************)
(* RipDaemon with a history variable: what each neighbour last said of     *)
(* each subnet, as the daemon counts it (current_metric, the metric of the *)
(* entry and one more hop).  It only watches: every step is a step of      *)
(* RipDaemon.                                                              *)
(***************************************************************************)
EXTENDS RipDaemon

CONSTANT Silent  \* a neighbour that has said nothing of a subnet

ASSUME SilentAssumption == Silent \notin Nat

VARIABLE heard

HInit == Init /\ heard = [n \in Addr |-> [p \in Prefix |-> Silent]]

\* The daemon takes an entry at every step of its loop that consumes one.
Listens ==
    heard' = IF HasEntry /\ msg' # msg
             THEN [heard EXCEPT ![msg.src][ThisEntry.prefix] = ThisMetric]
             ELSE heard

HNext == Next /\ Listens

HSpec == HInit /\ [][HNext]_<<vars, heard>> /\ WF_<<vars, heard>>(Daemon /\ Listens)
                                            /\ WF_<<vars, heard>>(Tick /\ Listens)

---------------------------------------------------------------------------
\* Where the file lists no subnet twice, a route with a timer never claims a
\* longer way than its next hop last reported: good news of the next hop is taken
\* at once, whatever the other neighbours have made of the route meanwhile, and the
\* only metric that may stand against its word is a better one
\* (rip2_server.c:250-265).
NoWorseThanNextHop ==
    \A s \in Slots :
        LET r == table[s] IN
        r # NoRoute /\ Finite(r) /\ heard[r.nextHop][r.prefix] # Silent
            => r.metric <= heard[r.nextHop][r.prefix]

\* A route with a timer carries the metric its own next hop last reported:
\* what "Replace route: the new one has a better metric" (rip2_server.c:260)
\* promises of the route it replaces.
NextHopVouches ==
    \A s \in Slots :
        LET r == table[s] IN
        r # NoRoute /\ Finite(r) => r.metric = heard[r.nextHop][r.prefix]

=============================================================================
