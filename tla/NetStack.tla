-------------------------------- MODULE NetStack --------------------------------
(***************************************************************************)
(* One host's stack, from udp_send and udp_recv down to the raw interface: *)
(* udp.c, ipv4.c, arp.c and eth.c.                                         *)
(*                                                                         *)
(* The program is one thread, and the interface has one queue: whichever   *)
(* function waits (eth_recv, called for IP by ipv4_receive or for ARP by   *)
(* arp_resolve) reads its head, and what it is not looking for is gone.    *)
(* One step here is one frame taken by rawnet_recv, with all the checks    *)
(* made on it up to the next rawnet_recv or to the return of the call.     *)
(***************************************************************************)
EXTENDS Ipv4RouteTable, Sequences

CONSTANTS
    Mac,             \* Ethernet addresses
    MyMac,           \* that of the interface
    ZeroFirstOctet,  \* those whose first octet is 0
    GroupMacs,       \* those whose group bit (of the first octet) is set
    MyIP,            \* my_ip_addr
    GroupIPs,        \* the multicast addresses and 255.255.255.255
    MyPort,          \* the port given to udp_open
    Frames,          \* the frames that may reach the interface
    RouteTables,     \* what ipv4_open may have read from the route file
    Destinations,    \* where callers send to
    Lengths,         \* payload lengths
    Timeouts,        \* timeouts callers give to udp_recv
    ArpTimeout,      \* the 2000 ms of arp_resolve, in ticks
    MaxRx,           \* bound: frames waiting in the interface
    None             \* no frame

Infinite == -1

UdpHeader == 8
IpHeader  == 20

\* Frames carry IPv4 ("ip"), ARP ("arp") or anything else; "udp" is protocol 17.
\* len is the length of the UDP payload.
IpFrame == [type : {"ip"}, dmac : Mac, src : Address, dst : Address,
            proto : {"udp", "other"}, port : Nat, len : Nat]
ArpFrame == [type : {"arp"}, dmac : Mac, oper : {1, 2}, spa : Address, sha : Mac]
OtherFrame == [type : {"other"}, dmac : Mac]

Frame == IpFrame \cup ArpFrame \cup OtherFrame

ASSUME MacAssumption == /\ MyMac \in Mac /\ ZeroFirstOctet \subseteq Mac
                        /\ GroupMacs \subseteq Mac
                        /\ GroupMacs \cap (ZeroFirstOctet \cup {MyMac}) = {}
ASSUME AddressAssumption == /\ MyIP \in Address \ GroupIPs
                            /\ GroupIPs \subseteq Address
                            /\ Destinations \subseteq Address
ASSUME FramesAssumption == Frames \subseteq Frame /\ None \notin Frame
ASSUME TablesAssumption == RouteTables \subseteq Tables
ASSUME TimesAssumption  == /\ Timeouts \subseteq Nat \cup {Infinite}
                           /\ ArpTimeout \in Nat \ {0}
ASSUME SizesAssumption  == /\ MyPort \in Nat /\ Lengths \subseteq Nat
                           /\ MaxRx \in Nat \ {0}

VARIABLES
    pc,        \* "closed", "app", "recv" (in udp_recv), "arp" (in arp_resolve), "exited"
    iface,     \* eth_open succeeded
    table,     \* rt_table
    rx,        \* the queue of the interface
    callTimer, \* the timer of udp_recv, or of arp_resolve
    ipTimer,   \* the timer of ipv4_receive
    ethTimer,  \* the timer of eth_recv
    broadcast, \* the flag of ipv4_receive
    sending,   \* destination, next hop and length of the datagram being sent
    tx,        \* the last IP frame sent: its dmac and its destination
    ret        \* the value of the last call, and the frame it delivered

timers == <<callTimer, ipTimer, ethTimer>>
vars   == <<pc, iface, table, rx, callTimer, ipTimer, ethTimer, broadcast,
            sending, tx, ret>>

NotSending == [dst |-> Zero, hop |-> Zero, len |-> 0]

TypeOK ==
    /\ pc \in {"closed", "app", "recv", "arp", "exited"}
    /\ iface \in BOOLEAN
    /\ table \in Tables
    /\ rx \in Seq(Frame)
    /\ \A t \in {callTimer, ipTimer, ethTimer} : t \in Nat \cup {Infinite}
    /\ broadcast \in BOOLEAN
    /\ sending \in [dst : Address, hop : Address, len : Nat]
    /\ tx \in [dmac : Mac, dst : Address] \cup {None}
    /\ ret \in [value : Int, frame : IpFrame \cup {None}]

Init ==
    /\ pc = "closed"
    /\ iface = FALSE
    /\ table = EmptyTable
    /\ rx = <<>>
    /\ callTimer = Infinite /\ ipTimer = Infinite /\ ethTimer = Infinite
    /\ broadcast = FALSE
    /\ sending = NotSending
    /\ tx = None
    /\ ret = [value |-> 0, frame |-> None]

---------------------------------------------------------------------------
(* Opening.                                                                *)

\* eth_open: a handle, or NULL where there is no memory or no such interface.
EthOpens == iface' \in BOOLEAN

\* udp_open, ipv4_open: without a configuration the program exits; a bad route
\* file and an interface that cannot be opened go unnoticed.
Open ==
    /\ pc = "closed"
    /\ \/ pc' = "exited" /\ UNCHANGED <<iface, table>>
       \/ pc' = "app" /\ EthOpens /\ table' \in RouteTables
    /\ UNCHANGED <<rx, timers, broadcast, sending, tx, ret>>

---------------------------------------------------------------------------
(* Returning to the caller.                                                *)

\* The call ends; its timers and locals die with it.
Returns(value, frame) ==
    /\ pc' = "app"
    /\ ret' = [value |-> value, frame |-> frame]
    /\ callTimer' = Infinite /\ ipTimer' = Infinite /\ ethTimer' = Infinite
    /\ broadcast' = FALSE
    /\ sending' = NotSending
    /\ UNCHANGED <<iface, table>>

---------------------------------------------------------------------------
(* eth_recv: what it lets through.                                         *)

\* "dest_addr[0] && 0x1" holds of every address whose first octet is not 0.
EthForMe(f) == f.dmac = MyMac \/ f.dmac \notin ZeroFirstOctet

EthAccepts(f, type) == EthForMe(f) /\ f.type = type

Waiting == pc \in {"recv", "arp"}

TargetType == IF pc = "recv" THEN "ip" ELSE "arp"

\* The loop of eth_recv goes on with the same timer.
EthDrops ==
    /\ Waiting /\ rx # <<>>
    /\ ~EthAccepts(Head(rx), TargetType)
    /\ rx' = Tail(rx)
    /\ UNCHANGED <<pc, iface, table, timers, broadcast, sending, tx, ret>>

---------------------------------------------------------------------------
(* udp_recv and ipv4_receive.                                              *)

\* Every call starts its timer with what the timer of its caller has left.
CallRecv ==
    /\ pc = "app" /\ iface
    /\ \E t \in Timeouts : callTimer' = t /\ ipTimer' = t /\ ethTimer' = t
    /\ pc' = "recv"
    /\ broadcast' = FALSE
    /\ ret' = [value |-> 0, frame |-> None]
    /\ UNCHANGED <<iface, table, rx, sending, tx>>

\* eth_recv refuses a NULL interface.
CallRecvNoIface ==
    /\ pc = "app" /\ ~iface
    /\ Returns(-1, None)
    /\ UNCHANGED <<rx, tx>>

\* The flag once the packet has been looked at: it is never lowered.
FlagAfter(f) == broadcast \/ f.dst \in GroupIPs

IpAccepts(f) == (f.dst = MyIP \/ FlagAfter(f)) /\ f.proto = "udp"

TakesIp == pc = "recv" /\ rx # <<>> /\ EthAccepts(Head(rx), "ip")

\* Mutant: after a packet that is not wanted, eth_recv waits without limit.
IpDropsForEver ==
    /\ TakesIp
    /\ ~IpAccepts(Head(rx))
    /\ broadcast' = FlagAfter(Head(rx))
    /\ ethTimer' = Infinite
    /\ rx' = Tail(rx)
    /\ UNCHANGED <<pc, iface, table, callTimer, ipTimer, sending, tx, ret>>

\* ipv4_receive calls eth_recv again, for the time that it has left.
IpDrops ==
    /\ TakesIp
    /\ ~IpAccepts(Head(rx))
    /\ broadcast' = FlagAfter(Head(rx))
    /\ ethTimer' = ipTimer
    /\ rx' = Tail(rx)
    /\ UNCHANGED <<pc, iface, table, callTimer, ipTimer, sending, tx, ret>>

\* udp_recv calls ipv4_receive again: a new timer, and a new flag.
UdpDrops ==
    /\ TakesIp
    /\ IpAccepts(Head(rx)) /\ Head(rx).port # MyPort
    /\ broadcast' = FALSE
    /\ ipTimer' = callTimer /\ ethTimer' = callTimer
    /\ rx' = Tail(rx)
    /\ UNCHANGED <<pc, iface, table, callTimer, sending, tx, ret>>

\* Mutant: a datagram for another port ends the call.
RecvDeliversAnyPort ==
    /\ TakesIp
    /\ IpAccepts(Head(rx))
    /\ Returns(Head(rx).len, Head(rx))
    /\ rx' = Tail(rx)
    /\ UNCHANGED tx

RecvDelivers ==
    /\ TakesIp
    /\ IpAccepts(Head(rx)) /\ Head(rx).port = MyPort
    /\ Returns(Head(rx).len, Head(rx))
    /\ rx' = Tail(rx)
    /\ UNCHANGED tx

\* rawnet_recv returns 0, and so does every function above it.
RecvTimesOut ==
    /\ pc = "recv" /\ ethTimer = 0
    /\ Returns(0, None)
    /\ UNCHANGED <<rx, tx>>

RecvFails ==
    /\ pc = "recv"
    /\ Returns(-1, None)
    /\ UNCHANGED <<rx, tx>>

---------------------------------------------------------------------------
(* udp_send, ipv4_send and arp_resolve.                                    *)

\* No route: the send fails before anything goes out.
SendNoRoute ==
    /\ pc = "app"
    /\ \E dst \in Destinations : TableLookup(table, dst) = NoRoute
    /\ Returns(-1, None)
    /\ UNCHANGED <<rx, tx>>

\* Mutant: the header taken off the length, where it should be added.
CallSendShort ==
    /\ pc = "app" /\ iface
    /\ \E dst \in Destinations, n \in Lengths :
         LET r == TableLookup(table, dst) IN
         /\ r # NoRoute
         /\ sending' = [dst |-> dst, hop |-> NextHop(r, dst), len |-> n - UdpHeader]
    /\ pc' = "arp"
    /\ callTimer' = ArpTimeout /\ ethTimer' = ArpTimeout
    /\ ret' = [value |-> 0, frame |-> None]
    /\ UNCHANGED <<iface, table, rx, ipTimer, broadcast, tx>>

\* The ARP request has been sent; there is no cache, so every send makes one.
CallSend ==
    /\ pc = "app" /\ iface
    /\ \E dst \in Destinations, n \in Lengths :
         LET r == TableLookup(table, dst) IN
         /\ r # NoRoute
         /\ sending' = [dst |-> dst, hop |-> NextHop(r, dst), len |-> n]
    /\ pc' = "arp"
    /\ callTimer' = ArpTimeout /\ ethTimer' = ArpTimeout
    /\ ret' = [value |-> 0, frame |-> None]
    /\ UNCHANGED <<iface, table, rx, ipTimer, broadcast, tx>>

\* The ARP request cannot be sent, for want of an interface or otherwise.
ArpExits ==
    /\ pc = "app"
    /\ \E dst \in Destinations : TableLookup(table, dst) # NoRoute
    /\ pc' = "exited"
    /\ UNCHANGED <<iface, table, rx, timers, broadcast, sending, tx, ret>>

\* Mutant: any ARP reply is taken for the answer.
IsReply(f) == f.oper = 2

IsAnswer(f) == f.spa = sending.hop /\ f.oper = 2

TakesArp == pc = "arp" /\ rx # <<>> /\ EthAccepts(Head(rx), "arp")

\* Mutant: the whole timeout given again in place of the time left.
ArpDropsRestarts ==
    /\ TakesArp
    /\ ~IsAnswer(Head(rx))
    /\ ethTimer' = ArpTimeout
    /\ rx' = Tail(rx)
    /\ UNCHANGED <<pc, iface, table, callTimer, ipTimer, broadcast, sending, tx, ret>>

\* arp_resolve calls eth_recv again, for the time that it has left.
ArpDrops ==
    /\ TakesArp
    /\ ~IsAnswer(Head(rx))
    /\ ethTimer' = callTimer
    /\ rx' = Tail(rx)
    /\ UNCHANGED <<pc, iface, table, callTimer, ipTimer, broadcast, sending, tx, ret>>

\* eth_send puts the frame on the wire, and returns the bytes after its header.
EthSends(dmac) == tx' = [dmac |-> dmac, dst |-> sending.dst]

\* udp_send takes its own header off what comes back, but not that of IP.
UdpSent(n) == n + UdpHeader + IpHeader - UdpHeader

\* The datagram goes to the address of the answer, unless eth_send fails.
ArpAnswers ==
    /\ TakesArp
    /\ IsAnswer(Head(rx))
    /\ rx' = Tail(rx)
    /\ \/ EthSends(Head(rx).sha) /\ Returns(UdpSent(sending.len), None)
       \/ Returns(-1, None) /\ UNCHANGED tx

ArpTimesOut ==
    /\ pc = "arp" /\ ethTimer = 0
    /\ Returns(-1, None)
    /\ UNCHANGED <<rx, tx>>

ArpFails ==
    /\ pc = "arp"
    /\ Returns(-1, None)
    /\ UNCHANGED <<rx, tx>>

---------------------------------------------------------------------------
(* The environment.                                                        *)

Arrives ==
    /\ pc \notin {"closed", "exited"}
    /\ Len(rx) < MaxRx
    /\ \E f \in Frames : rx' = Append(rx, f)
    /\ UNCHANGED <<pc, iface, table, timers, broadcast, sending, tx, ret>>

Older(t) == IF t > 0 THEN t - 1 ELSE t

Tick ==
    /\ callTimer > 0
    /\ callTimer' = Older(callTimer)
    /\ ipTimer' = Older(ipTimer)
    /\ ethTimer' = Older(ethTimer)
    /\ UNCHANGED <<pc, iface, table, rx, broadcast, sending, tx, ret>>

Recv == EthDrops \/ IpDrops \/ UdpDrops \/ RecvDelivers \/ RecvTimesOut
Send == ArpDrops \/ ArpAnswers \/ ArpTimesOut
Call == CallRecv \/ CallRecvNoIface \/ CallSend \/ SendNoRoute \/ ArpExits

Next == Open \/ Call \/ Recv \/ RecvFails \/ Send \/ ArpFails \/ Arrives \/ Tick

\* A waiting call goes on reading, and the clock runs; nothing is assumed of
\* the callers, of the network or of the errors of the interface.
Spec == Init /\ [][Next]_vars /\ WF_vars(Recv \/ Send) /\ WF_vars(Tick)

---------------------------------------------------------------------------
(* Properties.                                                             *)

\* However many frames a call has had to throw away, and whatever layer threw
\* them, it still waits exactly as long as its caller said: the nested timers
\* of udp_recv, ipv4_receive, arp_resolve and eth_recv are handed the time that
\* is left, not the timeout (udp.c:75, ipv4.c:242, arp.c:94, eth.c:269).
WaitEndsInTime ==
    Waiting => /\ ethTimer = callTimer
               /\ pc = "recv" => ipTimer = callTimer

\* An IP frame goes out only to an address that the next hop of its route, and
\* nobody else, has given in an ARP reply: neither an older reply of another
\* host nor a request is mistaken for it (arp.c:93-116, ipv4.c:146-189).
SentToNextHop ==
    tx # None =>
        \E f \in Frames :
            /\ f.type = "arp" /\ f.oper = 2
            /\ f.sha = tx.dmac
            /\ f.spa = NextHop(TableLookup(table, tx.dst), tx.dst)

\* Once the wire is silent, every call that has a timeout returns, or ended the
\* program (eth.c:268-289, the loops above it).
CallsEnd ==
    <>[](rx = <<>>) =>
        []((Waiting /\ callTimer # Infinite) => <>(pc \in {"app", "exited"}))

\* A packet that udp_recv hands over was sent to this host or to a group: the
\* flag is for "broadcast or multicast" packets (ipv4.c:239), one of which
\* must not open the door for the next.
DeliversOwnOnly ==
    ret.frame # None => ret.frame.dst \in GroupIPs \cup {MyIP}

\* A frame that is let through was sent to this interface or has the "bit grupo"
\* (eth.c:267) of its destination set.
TakesOwnFramesOnly ==
    ret.frame # None => ret.frame.dmac \in GroupMacs \cup {MyMac}

\* The frames udp_recv is looking for.
Wanted(f) ==
    /\ EthAccepts(f, "ip")
    /\ f.dst \in GroupIPs \cup {MyIP}
    /\ f.proto = "udp"
    /\ f.port = MyPort

\* Those of a queue, in their order: what is kept of each number of frames.
Keep(s, f) == IF Wanted(f) THEN Append(s, f) ELSE s

Kept(q) ==
    LET kept[n \in 0 .. Len(q)] == IF n = 0 THEN <<>> ELSE Keep(kept[n - 1], q[n])
    IN  kept

WantedOf(q) == Kept(q)[Len(q)]

\* What the caller is doing, and what the value of its last call says: the 0 of
\* an empty datagram and the 0 of a timer are one.
Mode == CASE pc = "closed" -> "closed"
          [] pc = "app"    -> "idle"
          [] pc = "recv"   -> "receiving"
          [] pc = "arp"    -> "sending"
          [] OTHER         -> "gone"

Said == CASE ret.value < 0 -> "error"
          [] ret.value = 0 -> "nothing"
          [] OTHER         -> "bytes"

\* Where no frame brings another host's packets, the stack is the queue of
\* datagrams its callers take it for: nothing is reordered, duplicated or
\* invented, only a send loses what waits, and a receive returns 0 only when its
\* time has run out or when it has taken an empty datagram (udp.c:32-101).
Socket == INSTANCE UdpSocket WITH
    Datagrams <- {f \in Frames : Wanted(f)},
    Empty     <- {f \in Frames : Wanted(f) /\ f.len = 0},
    Timeouts  <- Timeouts,
    Nothing   <- None,
    mode   <- Mode,
    queue  <- WantedOf(rx),
    left   <- callTimer,
    got    <- ret.frame,
    result <- Said

ImplementsSocket == Socket!Spec

=============================================================================
