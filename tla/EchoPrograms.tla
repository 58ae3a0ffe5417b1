------------------------------ MODULE EchoPrograms ------------------------------
(***************************************************************************)
(* The programs that try a layer: udp_server, ipv4_server and eth_server   *)
(* send back what comes; udp_client, ipv4_client and eth_client send one   *)
(* request and wait for one packet; arp_client asks for an address.        *)
(*                                                                         *)
(* All hosts are on one wire, which may lose any packet.  One layer is     *)
(* tried at a time.  The server runs once; a client, which is one shot,    *)
(* may be started again, and then finds what comes late for the run        *)
(* before.  Where the layer is "arp" the kernel of the server's host, which *)
(* is not part of this code, gives the answers.                            *)
(*                                                                         *)
(* The calls of a layer are taken whole here; NetStack.tla is about their  *)
(* inside.  What is left of them is what the programs see: a send by IP or *)
(* UDP first reads, and drops, part of the program's own queue (ARP), and  *)
(* may fail; a receive returns a number of bytes, 0 or -1.                 *)
(***************************************************************************)
EXTENDS ConfigFile

CONSTANTS
    Layers,       \* the layers tried: subset of {"eth", "ip", "udp", "arp"}
    Server,       \* the host of the server
    Clients,      \* the hosts of the clients
    Nobody,       \* no host
    Heard,        \* those whose card has a first octet that is not 0, Nobody's too
    IpOf,         \* the address of each host
    FilesOf,      \* the configuration files a host may have
    Targets,      \* what is typed for the address of the server
    Lengths,      \* what is typed for the length of a request
    Patience,     \* the timeout of a client, for each layer, in ticks
    MaxRuns,      \* bound: how often each client is started
    MaxRx,        \* bound: packets waiting in an interface
    None          \* no packet

Hosts == {Server} \cup Clients

UdpMaxPayload  == 1472
Ipv4MaxPayload == 1480
EthMtu         == 1500

\* The host an address belongs to.
HostAt(a) == IF \E h \in Hosts : IpOf[h] = a
             THEN CHOOSE h \in Hosts : IpOf[h] = a ELSE Nobody

Reached == {HostAt(StrAddr(t)) : t \in {u \in Targets : Parses(u)}}

ASSUME HostsAssumption ==
    /\ Server \notin Clients /\ Nobody \notin Hosts
    /\ Heard \subseteq Hosts \cup {Nobody}
    /\ IpOf \in [Hosts -> Address]
ASSUME LayersAssumption ==
    /\ Layers \subseteq {"eth", "ip", "udp", "arp"}
    /\ \A l \in Layers : Patience[l] \in Nat
ASSUME InputsAssumption ==
    /\ Targets \subseteq Texts
    /\ Lengths \subseteq Int
    /\ \A h \in Hosts : \A f \in FilesOf[h] : f = NoFile \/ f \in File

\* What a file that can be read gives is the address the host does have, and
\* what is typed names the server, or a host that is not there.
ASSUME FilesAssumption ==
    \A h \in Hosts : \A f \in FilesOf[h] :
        ConfigRead(f).err = 0 => ConfigRead(f).addr = IpOf[h]
ASSUME TargetsAssumption == Reached \subseteq {Server, Nobody}

\* A request is known by its client, the client's run and its length; nothing
\* on the wire says so much.
Request == [client : Clients, run : Nat, len : Nat]

\* len is the length given to the send of the layer; header, the words of the
\* IP header, its checksum among them.
Packet == [from : Hosts, to : Hosts \cup {Nobody}, len : Nat, req : Request,
           header : Seq(Word)]

ASSUME NoneAssumption == None \notin Packet

Job == [to : Hosts \cup {Nobody}, len : Nat, addr : Address, asItself : BOOLEAN]

NoJob == [to |-> Nobody, len |-> 0, addr |-> ZeroAddress, asItself |-> FALSE]

\* How a run ends: what the client reports, and the packet it took.
Result == [kind : {"answered", "silent", "failed"}, value : Int,
           got : Packet \cup {None}]

VARIABLES
    layer,    \* the layer that is tried
    pc,       \* where main of each host's program is
    ifaces,   \* the hosts whose raw interface a program has open
    rx,       \* what waits in each interface
    job,      \* the arguments and the address of a client
    left,     \* what is left of a client's wait
    results   \* history: how each run of a client ended

vars == <<layer, pc, ifaces, rx, job, left, results>>

TypeOK ==
    /\ layer \in Layers
    /\ pc \in [Hosts -> {"off", "opened", "wait", "gone", "crashed"}]
    /\ ifaces \subseteq Hosts
    /\ rx \in [Hosts -> Seq(Packet)]
    /\ job \in [Clients -> Job]
    /\ left \in [Clients -> Int]
    /\ results \in [Clients -> Seq(Result)]

Init ==
    /\ layer \in Layers
    /\ pc = [h \in Hosts |-> "off"]
    /\ ifaces = IF layer = "arp" THEN {Server} ELSE {}
    /\ rx = [h \in Hosts |-> <<>>]
    /\ job = [c \in Clients |-> NoJob]
    /\ left = [c \in Clients |-> 0]
    /\ results = [c \in Clients |-> <<>>]

---------------------------------------------------------------------------
(* The wire.                                                               *)

\* The interface pads a short frame, or does not.
FrameLengths(n) == {n} \cup (IF n < 46 THEN {46} ELSE {})

\* Who may read a packet of h: the host it was sent to; and, as "&&" in place of
\* "&" lets frames for other cards in, whoever has no check behind eth_recv that
\* it fails.  That of IP is the destination; that of arp_resolve is the address
\* asked for, in a reply to anybody.  A card does not hear its own frames.
Takes(h, p, g) ==
    \/ g = p.to
    \/ p.to \in Heard /\ layer = "eth"
    \/ p.to \in Heard /\ layer = "arp" /\ h = Server /\ job[g].to = Server

Readers(h, p) == {g \in ifaces \ {h} : Takes(h, p, g)}

\* What h has read of its queue is gone: n packets.  The packet it sends is
\* queued with some of those who may read it, and lost to the others.
Sends(h, n, p) ==
    LET rest == [rx EXCEPT ![h] = SubSeq(@, n + 1, Len(@))] IN
    \E to \in SUBSET Readers(h, p) :
       /\ \A g \in to : Len(rest[g]) < MaxRx
       /\ rx' = [g \in Hosts |-> IF g \in to THEN Append(rest[g], p) ELSE rest[g]]

\* The header of an IP packet with so many bytes after it, from ipv4_send.
Header(proto, n, src, dst) ==
    LET words == HeaderWords(IpHeaderLength + n, proto, src, dst)
    IN  Append(words, Checksum(words))

EthPacket(from, to, n, req) ==
    [from |-> from, to |-> to, len |-> n, req |-> req, header |-> <<>>]

\* The protocol typed for ipv4_client and ipv4_server is any that is not UDP.
IpPacket(from, to, n, req) ==
    [EthPacket(from, to, n, req) EXCEPT !.header = Header(6, n, IpOf[from], IpOf[to])]

UdpPacket(from, to, n, req) ==
    [EthPacket(from, to, n, req) EXCEPT
        !.header = Header(17, n + 8, IpOf[from], IpOf[to])]

---------------------------------------------------------------------------
(* What the clients have in common.                                        *)

ClientEnds(c, kind, value, got) ==
    /\ results' = [results EXCEPT ![c] =
                       Append(@, [kind |-> kind, value |-> value, got |-> got])]
    /\ pc' = [pc EXCEPT ![c] = "off"]
    /\ job' = [job EXCEPT ![c] = NoJob]
    /\ left' = [left EXCEPT ![c] = 0]
    /\ ifaces' = ifaces \ {c}
    /\ UNCHANGED layer

\* The program ends and its interface with it.
ClientGivesUp(c) ==
    /\ ClientEnds(c, "failed", -1, None)
    /\ rx' = [rx EXCEPT ![c] = <<>>]

Starts(c, l) == layer = l /\ pc[c] = "off" /\ Len(results[c]) < MaxRuns[c]

\* The interface is open from now on, or could not be opened.
ClientOpens(c, to, n, addr, asItself) ==
    /\ pc' = [pc EXCEPT ![c] = "opened"]
    /\ ifaces' \in {ifaces, ifaces \cup {c}}
    /\ job' = [job EXCEPT ![c] =
                   [to |-> to, len |-> n, addr |-> addr, asItself |-> asItself]]
    /\ UNCHANGED <<layer, rx, left, results>>

CanSend(c, l) == layer = l /\ pc[c] = "opened" /\ c \in ifaces

ThisRequest(c) ==
    [client |-> c, run |-> Len(results[c]) + 1, len |-> job[c].len]

\* Mutant: the wait has no timeout, as in rip2_client.c.
WaitsForEver(c) ==
    /\ pc' = [pc EXCEPT ![c] = "wait"]
    /\ left' = [left EXCEPT ![c] = -1]
    /\ UNCHANGED <<layer, ifaces, job, results>>

Waits(c) ==
    /\ pc' = [pc EXCEPT ![c] = "wait"]
    /\ left' = [left EXCEPT ![c] = Patience[layer]]
    /\ UNCHANGED <<layer, ifaces, job, results>>

\* The send fails: no interface, no route, no answer to ARP; or the program was
\* ended by arp_resolve.
ClientSendFails(c) ==
    /\ pc[c] = "opened"
    /\ ClientGivesUp(c)

\* The first packet that comes ends the run, with so many bytes.
Answered(c, l, n) ==
    /\ layer = l /\ pc[c] = "wait" /\ rx[c] # <<>>
    /\ ClientEnds(c, IF n = 0 THEN "silent" ELSE "answered", n, Head(rx[c]))
    /\ rx' = [rx EXCEPT ![c] = <<>>]

ClientTimesOut(c) ==
    /\ pc[c] = "wait" /\ left[c] = 0
    /\ ClientEnds(c, "silent", 0, None)
    /\ rx' = [rx EXCEPT ![c] = <<>>]

ClientRecvFails(c) ==
    /\ pc[c] = "wait"
    /\ ClientGivesUp(c)

---------------------------------------------------------------------------
(* udp_client.                                                             *)

\* The arguments, then udp_open, which exits without a configuration.
UdpClientStarts(c) ==
    /\ Starts(c, "udp")
    /\ \E f \in FilesOf[c], t \in Targets, n \in Lengths :
         IF Parses(t) /\ n \in 0 .. UdpMaxPayload /\ ConfigRead(f).err = 0
         THEN ClientOpens(c, HostAt(StrAddr(t)), n, ConfigRead(f).addr, TRUE)
         ELSE ClientGivesUp(c)

UdpClientSends(c) ==
    /\ CanSend(c, "udp") /\ job[c].to # Nobody
    /\ \E n \in 0 .. Len(rx[c]) :
         Sends(c, n, UdpPacket(c, job[c].to, job[c].len, ThisRequest(c)))
    /\ Waits(c)

\* An empty echo is the same 0 as no echo.
UdpClientReceives(c) ==
    /\ rx[c] # <<>>
    /\ Answered(c, "udp", Head(rx[c]).len)

---------------------------------------------------------------------------
(* ipv4_client.                                                            *)

\* The length is looked at after ipv4_open.
IpClientStarts(c) ==
    /\ Starts(c, "ip")
    /\ \E f \in FilesOf[c], t \in Targets, n \in Lengths :
         IF Parses(t) /\ ConfigRead(f).err = 0 /\ n \in 0 .. Ipv4MaxPayload
         THEN ClientOpens(c, HostAt(StrAddr(t)), n, ConfigRead(f).addr, TRUE)
         ELSE ClientGivesUp(c)

IpClientSends(c) ==
    /\ CanSend(c, "ip") /\ job[c].to # Nobody
    /\ \E n \in 0 .. Len(rx[c]) :
         Sends(c, n, IpPacket(c, job[c].to, job[c].len, ThisRequest(c)))
    /\ Waits(c)

\* ipv4_receive returns the length field of the header: that of the packet.
IpClientReceives(c) ==
    /\ rx[c] # <<>>
    /\ Answered(c, "ip", Head(rx[c]).len + IpHeaderLength)

---------------------------------------------------------------------------
(* eth_client.                                                             *)

\* An interface that cannot be opened ends the program.
EthClientStarts(c) ==
    /\ Starts(c, "eth")
    /\ \/ \E to \in Reached, n \in Lengths \cap (0 .. EthMtu) :
            /\ ClientOpens(c, to, n, ZeroAddress, TRUE)
            /\ c \in ifaces'
       \/ ClientGivesUp(c)

EthClientSends(c) ==
    /\ CanSend(c, "eth")
    /\ Sends(c, 0, EthPacket(c, job[c].to, job[c].len, ThisRequest(c)))
    /\ Waits(c)

EthClientReceives(c) ==
    /\ rx[c] # <<>>
    /\ \E n \in FrameLengths(Head(rx[c]).len) : Answered(c, "eth", n)

---------------------------------------------------------------------------
(* arp_client.                                                             *)

\* An address that cannot be parsed is reported and used all the same, for what
\* the variable happened to hold; of ipv4_config_getip only -1 is an error.
ArpClientStarts(c) ==
    /\ Starts(c, "arp")
    /\ \/ \E f \in FilesOf[c], t \in Targets :
            /\ ConfigGetip(f).err # -1
            /\ \E to \in IF Parses(t) THEN {HostAt(StrAddr(t))} ELSE Reached :
                 ClientOpens(c, to, 0, ConfigGetip(f).addr, AddressFirst(f))
            /\ c \in ifaces'
       \/ ClientGivesUp(c)

ArpClientSends(c) ==
    /\ CanSend(c, "arp")
    /\ Sends(c, 0, EthPacket(c, job[c].to, job[c].len, ThisRequest(c)))
    /\ Waits(c)

\* arp_resolve returns 1.
ArpClientReceives(c) == Answered(c, "arp", 1)

\* The kernel of the other host answers what its own address is asked for.
KernelReplies ==
    /\ layer = "arp" /\ rx[Server] # <<>>
    /\ LET p == Head(rx[Server]) IN Sends(Server, 1, EthPacket(Server, p.from, 0, p.req))
    /\ UNCHANGED <<layer, pc, ifaces, job, left, results>>

---------------------------------------------------------------------------
(* The servers.                                                            *)

ServerBecomes(state) == pc' = [pc EXCEPT ![Server] = state]

\* udp_open and ipv4_open go on without an interface, and the first receive
\* then fails.
ServerOpens(l) ==
    /\ layer = l /\ pc[Server] = "off"
    /\ \E f \in FilesOf[Server] :
         IF ConfigRead(f).err = 0
         THEN ServerBecomes("wait") /\ ifaces' \in {ifaces, ifaces \cup {Server}}
         ELSE ServerBecomes("gone") /\ UNCHANGED ifaces
    /\ UNCHANGED <<layer, rx, job, left, results>>

UdpServerStarts == ServerOpens("udp")
IpServerStarts  == ServerOpens("ip")

EthServerStarts ==
    /\ layer = "eth" /\ pc[Server] = "off"
    /\ \/ ServerBecomes("wait") /\ ifaces' = ifaces \cup {Server}
       \/ ServerBecomes("gone") /\ UNCHANGED ifaces
    /\ UNCHANGED <<layer, rx, job, left, results>>

\* The process is gone, its interface closed.
ServerEnds(state) ==
    /\ ServerBecomes(state)
    /\ ifaces' = ifaces \ {Server}
    /\ rx' = [rx EXCEPT ![Server] = <<>>]

\* The receive fails, and each of the three servers exits.
ServerRecvFails ==
    /\ pc[Server] = "wait"
    /\ ServerEnds("gone")
    /\ UNCHANGED <<layer, job, left, results>>

Serves(l) == layer = l /\ pc[Server] = "wait" /\ rx[Server] # <<>>

Asked == Head(rx[Server])

\* The echo of what is at the head of the queue, with so many bytes of it.
UdpEcho(n) == UdpPacket(Server, Asked.from, n, Asked.req)
IpEcho(n)  == IpPacket(Server, Asked.from, n, Asked.req)

\* The send drops some of the queue behind what is echoed.
Echoes(p) ==
    /\ \E m \in 1 .. Len(rx[Server]) : Sends(Server, m, p)
    /\ UNCHANGED <<pc, ifaces>>

\* Mutant: the packet is left in the queue when it has been sent back.
UdpServerEchoesAgain ==
    /\ Serves("udp")
    /\ Sends(Server, 0, UdpEcho(Asked.len))
    /\ UNCHANGED <<pc, ifaces, layer, job, left, results>>

\* Mutant: the header taken off twice.
UdpServerEchoesShort ==
    /\ Serves("udp")
    /\ \/ Echoes(UdpEcho(Asked.len - 8))
       \/ ServerEnds("gone")
    /\ UNCHANGED <<layer, job, left, results>>

\* A send that fails, for this client, ends the server for all.
UdpServerEchoes ==
    /\ Serves("udp")
    /\ \/ Echoes(UdpEcho(Asked.len))
       \/ ServerEnds("gone")
    /\ UNCHANGED <<layer, job, left, results>>

\* What came back from ipv4_receive is the length with the header.
EchoLength == Asked.len + IpHeaderLength

\* Mutant: a header more for every echo.
IpServerEchoesTwoHeaders ==
    /\ Serves("ip")
    /\ \/ /\ EchoLength <= Ipv4MaxPayload
          /\ Echoes(IpEcho(EchoLength + IpHeaderLength))
       \/ ServerEnds("gone")
    /\ UNCHANGED <<layer, job, left, results>>

\* Where the echo is longer than the payload of a packet, the copy into it runs
\* past its end; if the process outlives that, no frame can carry the echo and
\* the send fails.
IpServerEchoes ==
    /\ Serves("ip")
    /\ \/ EchoLength <= Ipv4MaxPayload /\ Echoes(IpEcho(EchoLength))
       \/ EchoLength > Ipv4MaxPayload /\ ServerEnds("crashed")
       \/ ServerEnds("gone")
    /\ UNCHANGED <<layer, job, left, results>>

\* A send that fails is reported, and the server goes on.
EthServerEchoes ==
    /\ Serves("eth")
    /\ \E n \in FrameLengths(Asked.len) :
         Sends(Server, 1, EthPacket(Server, Asked.from, n, Asked.req))
    /\ UNCHANGED <<pc, ifaces, layer, job, left, results>>

---------------------------------------------------------------------------
Tick ==
    /\ \E c \in Clients : left[c] > 0
    /\ left' = [c \in Clients |-> IF left[c] > 0 THEN left[c] - 1 ELSE left[c]]
    /\ UNCHANGED <<layer, pc, ifaces, rx, job, results>>

ClientStarts(c) == \/ UdpClientStarts(c) \/ IpClientStarts(c)
                   \/ EthClientStarts(c) \/ ArpClientStarts(c)

ClientSends(c) == \/ UdpClientSends(c) \/ IpClientSends(c) \/ EthClientSends(c)
                  \/ ArpClientSends(c) \/ ClientSendFails(c)

ClientReceives(c) ==
    \/ UdpClientReceives(c) \/ IpClientReceives(c) \/ EthClientReceives(c)
    \/ ArpClientReceives(c) \/ ClientTimesOut(c)

ServerStarts == UdpServerStarts \/ IpServerStarts \/ EthServerStarts
ServerEchoes == UdpServerEchoes \/ IpServerEchoes \/ EthServerEchoes

Next ==
    \/ \E c \in Clients : ClientStarts(c) \/ ClientSends(c) \/ ClientReceives(c)
                              \/ ClientRecvFails(c)
    \/ ServerStarts \/ ServerEchoes \/ ServerRecvFails
    \/ KernelReplies
    \/ Tick

\* A program that was started runs, and the clock does; nothing is assumed of
\* the server, of the wire, or that a client is ever started.
Spec ==
    /\ Init /\ [][Next]_vars
    /\ \A c \in Clients : WF_vars(ClientSends(c) \/ ClientReceives(c))
    /\ WF_vars(Tick)

---------------------------------------------------------------------------
(* Properties.                                                             *)

Got(c) == {i \in DOMAIN results[c] : results[c][i].got # None}

\* A packet a client takes for its answer is the answer to a request of its own,
\* of this run or, late, of an earlier one; no request has two answers, and they
\* come in the order of the requests (udp_client.c:125, ipv4_client.c:111,
\* eth_client.c:112 take whatever comes; the servers answer once, in order).
\* Below IP it is so of a client as long as no address but its own begins with an
\* octet that is not 0: of others the client would read the frames (eth.c:288).
AnswersOwnRequests ==
    \A c \in Clients : (layer \in {"eth", "arp"} => Heard \subseteq {c}) =>
        \A i \in Got(c) :
            LET req == results[c][i].got.req IN
            /\ req.client = c /\ req.run <= i
            /\ \A j \in Got(c) : j < i => results[c][j].got.req.run < req.run

\* How many bytes a client says it has received: by UDP those it sent; by IP
\* two headers more, one added by each receive (ipv4.c:288, ipv4_server.c:81);
\* by Ethernet those it sent, or a frame's least (eth_server.c:90).
EchoHasLength ==
    \A c \in Clients : \A i \in Got(c) :
        LET r == results[c][i] IN
        CASE layer = "udp" -> r.value = r.got.req.len
          [] layer = "ip"  -> r.value = r.got.req.len + 2 * IpHeaderLength
          [] layer = "eth" -> r.value \in FrameLengths(r.got.req.len)
          [] layer = "arp" -> r.value = 1

\* The header of every packet on its way passes the test of RFC 791, the words
\* and the checksum adding up to all ones, whatever its length and addresses
\* (ipv4.c:307, the loop over the carries).
HeaderVerifies ==
    \A h \in Hosts : \A i \in DOMAIN rx[h] :
        rx[h][i].header # <<>> => Folded[WordSum(rx[h][i].header)] = 65535

\* arp_client asks with the address ipv4_open would use, although it reads the
\* file with another reader that gives up at the line of the mask, as long as
\* the file has its addresses before that (ipv4_config.c:207-234).
AsksAsItself ==
    \A c \in Clients : job[c].asItself /\ layer = "arp" => job[c].addr = IpOf[c]

\* Every run of a client ends, whatever becomes of the server and of the wire:
\* in contrast to rip2_client, each has a timeout (udp_client.c:123,
\* ipv4_client.c:109, eth_client.c:111, arp.c:89).
ClientsEnd ==
    \A c \in Clients :
        (pc[c] = "opened" \/ pc[c] = "wait") ~> (pc[c] = "off")

\* "Once we receive the packet, we sent it back" (ipv4_server.c:80): the echo is
\* as long as the request.
EchoIsRequest ==
    \A c \in Clients : \A i \in Got(c) :
        results[c][i].value = results[c][i].got.req.len

=============================================================================
