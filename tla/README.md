# A verification of the advanced-networks protocol stack

The repository (C, `src/`) is a small user-space network stack built on the
external library *librawnet*: Ethernet, ARP, IPv4 with a static route table,
UDP, and on top of them a RIPv2 daemon with its client, and echo programs for
each layer. This directory holds TLA+ models of that code, TLC runs that check
them on small instances, and proofs that TLAPS checks for every instance.

Everything is single-threaded C. What is concurrent is the world outside: the
neighbours and their datagrams, the queue of the interface, and the clock
behind `timerms_left`. The hard behaviour is in how the daemon's waits, its
timers and the traffic interleave, and in what four nested receive loops do with
frames that are not for them.

## Inventory

| Part | State | Operations | Talks to |
|---|---|---|---|
| RIPv2 daemon, `rip2_server.c` | `rip_table`, the timeout of the wait, the packet at hand, `changed` | load the file; choose a timeout; receive; answer a request; process a response entry by entry, with a multicast update after each entry from the first that changes something; remove expired routes | RIP table (calls), UDP (calls), neighbours (datagrams) |
| RIPv2 route table, `ripv2_route_table.c` | 256 slots, NULL or a route with a timer | create, add, remove, get, find, lookup, read, write, print, free | files; daemon and client |
| RIPv2 client, `rip2_client.c` | none that lasts | one request, one wait, one response from a file | UDP |
| UDP, `udp.c` | `port` | open, send, recv, close | IPv4 |
| IPv4, `ipv4.c` | `iface`, `rt_table`, `my_ip_addr` | open, send, receive, close, checksum, conversions | ARP, Ethernet, route table, configuration |
| IPv4 route table, `ipv4_route_table.c` | 256 slots | create, add, remove, get, find, lookup, read, write, print, free | files; IPv4 |
| ARP, `arp.c` | none (no cache) | resolve | Ethernet |
| Ethernet, `eth.c` | the raw interface and its MAC | open, send, recv, poll, close, MAC conversions | librawnet |
| Configuration, `ipv4_config.c` | none | two parsers of the same file | files; IPv4 |
| Echo programs and tools, `*_server.c`, `*_client.c` | none that lasts | send, wait, print, send back | each its layer |
| librawnet, timerms (external) | the queue of the interface; clocks | send, recv, poll; reset, left | the wire |

What makes each part correct:

* **Daemon**: a route that expires is noticed; what neighbours stop advertising
  goes, what they advertise stays; one subnet has one route; a route says what
  its next hop says; every change is announced; no traffic kills the daemon.
* **Route tables**: add never overwrites, find and remove touch what they name,
  lookup is a longest-prefix match in whatever order the slots were filled.
* **UDP/IPv4/ARP/Ethernet**: the caller's datagrams arrive once, whole and in
  order; others' do not; every call with a timeout returns in that time; a packet
  goes to the address of its next hop.
* **Configuration and route files**: a bad line is reported, and what was read
  before it is known; the two readers of a configuration agree; what is written
  and read again routes as before.
* **The network of daemons**: no route is better than where it comes from; metrics
  stop at infinity; neighbours that have heard each other agree; updates die out.
* **Clients and servers**: an answer is the answer to one's own request, once, in
  order and of the length that was sent; a client with a timeout ends.

The hazards, line by line, are in `PROJECT.json`.

## Modules

| Module | What it is |
|---|---|
| `RipRouteTable` | the operations of `ripv2_route_table.c` on an array of slots, the scans `main` makes over it (next timeout, expiry, advertisement), what one entry of a response does to a table (`AfterEntry`), and the clock |
| `RipDaemon` | `main` of `rip2_server.c`, as a state machine with its neighbours, its socket queue and the clock |
| `RipHistory` | `RipDaemon` and a history variable: what each neighbour last said of each subnet |
| `RipNetwork` | several daemons and the test client `rip2_client.c`, which hear, lose, die and start again |
| `Ipv4RouteTable` | the operations of `ipv4_route_table.c`, addresses and masks being sets of bits |
| `Ipv4Routes` | the life of such a table: the reading of a file, then adds and removes, and what becomes of it when it is written and read again |
| `Ipv4Header` | the pure functions of `ipv4.c`: parsing an address, group addresses, the header `ipv4_send` makes, and its checksum, in the widths of the code |
| `ConfigFile` | the two readers of `ipv4_config.c` over the lines of one file |
| `EchoPrograms` | the servers and clients of UDP, IPv4 and Ethernet, and `arp_client`, over a lossy wire; uses `ConfigFile` and `Ipv4Header` |
| `UdpSocket` | abstract: what `udp.c` promises its callers, a queue of datagrams |
| `NetStack` | `udp.c`, `ipv4.c`, `arp.c`, `eth.c` of one host, down to the interface queue; implements `UdpSocket` |
| `RipRouteTableProofs`, `RipDaemonProofs`, `RipNetworkProofs`, `Ipv4RouteTableProofs`, `Ipv4RoutesProofs`, `NetStackProofs`, `EchoProgramsProofs` | theorems and their proofs, beside the module each is named after; those about `RipHistory` are in `RipDaemonProofs`, those about `ConfigFile` and `Ipv4Header` in `EchoProgramsProofs` |
| `OrderProofs` | what they share: least elements, the order of a set of slots, induction over a set of numbers, functions defined by recursion, folds over a sequence |
| `MCRipDaemon`, `MCRipHistory`, `MCRipNetwork`, `MCIpv4Routes`, `MCEchoPrograms`, `MCNetStack` | the instances TLC checks |

The layers are joined by what one promises to the next. `NetStack` shows what a
send and a receive do to the queue of the interface, whoever calls: datagrams for
the caller come once and in order, and a send that waits for ARP may lose part of
the queue. `RipDaemon`, `RipNetwork` and `EchoPrograms` take a call whole, as
just that. `RipNetwork` takes a daemon in larger steps than `RipDaemon` and shares
the body of its loop (`AfterEntry`, with the test for an update at its end); that the
five actions of `RipDaemon` for an entry are that body is a theorem.

### RipDaemon

`pc` is where `main` stands: `load` (in `ripv2_route_table_read`), `wait` (the
head of the `while`), `recv` (in `udp_recv`), `entries` (the `for` over the
entries), `reply` and `update` (in `send_table`), and the two ways a process
ends. One action is the code between two points where the outside can be
noticed: a line of the file, the scan for the timeout, the return of
`udp_recv`, one entry, one send, the end of the entries. Between any two of
them the environment may act: a datagram arrives (`Arrives`), or time passes
for every timer and for the wait at once (`Tick`).

| Action | Code |
|---|---|
| `LoadRoute`, `LoadFails`, `LoadDone` | `ripv2_route_table_read`; its result is ignored by `main` |
| `ChooseTimeout` | rip2_server.c:179-197 |
| `RecvTimeout`, `RecvEmpty` | `udp_recv` returned 0, `review_table_timers` |
| `RecvRequest`, `RecvResponse`, `RecvOther`, `RecvError` | 207-229, by command; an error or a malformed length is used as a length |
| `AddRoute`, `RefreshFromNextHop`, `BetterMetric`, `IgnoreEntry`, `UnknownUnreachable` | one turn of the loop: the branch, 234-276, and the test of `changed`, 278 (`NextEntry`) |
| `SendUpdate` | 279: the multicast, after which the loop goes on |
| `EndOfEntries` | 280-283: out of the loop, back to the `while` |
| `SendReply`, `SendExits`, `SendOverrun` | 215-219, `send_table`, and how either send may end the process |

The update stands inside the loop over the entries, and `changed` is set to 0 only
before it (221). So a response of n entries gives rise to an update after the first
entry that changes something and after each one that follows, whether it changes
anything or not; all but the last are of a table that has the response half worked
off. At each of them ARP may drop what has come meanwhile, or end the daemon.

Abstractions. A subnet and its mask are one value: the code always compares
both. The interface name is dropped, as are the route tag, version and family,
which nothing reads. `memcmp(route->next_hop, source_ip)` at line 262 is what it
is, a comparison without effect, so `BetterMetric` leaves the next hop alone.
What `udp_send` does to the daemon is `Transmit`: while ARP waits for its answer,
any number of waiting datagrams is read and thrown away (`NetStack` shows that
this, and no more, is what happens). Metrics on the wire are naturals: the sign
of a metric of 2^31 or more is out of the model. `announced` is a history
variable: what the last update told, or tried to tell, the neighbours.

### RipRouteTable, Ipv4RouteTable

Functions from slots to a route or NULL. `Find` and `Add` name the least slot
that the code's ascending loop with `break` would reach; `TableLookup` is the
loop itself, `Scan` being the running best after each slot and `Better` one turn,
because the ties are what the property is about. In `Ipv4RouteTable` `&` is
intersection, and the switch over mask octets is `Counted`, the ones it counts: an
octet whose ones are not leading counts none.

In `Ipv4Routes`, `Output` is the lines `ipv4_route_table_output` writes and `Loaded`
the table a reader makes of them (`LoadedAfter` each number of lines); a table is
written at any moment and left as it was. The text of a line is not modelled, its
route is.

### RipNetwork

A daemon is what it is in `RipDaemon`, in the steps others can tell apart:
`AnswerRequest`, `TakeResponse`, `StepEntry` (one turn of the loop), `SendUpdate` (the
update that ends a turn, `Due`), `EndOfEntries`, `Review`. `Dies` is an operator's kill
(`Kill`), the NULL route of line 248, or a send that ends the process (`SendEnds`), which
may be between two entries; `Restart` reads the file again. `ClientAsks` and
`ClientAnnounces` are the two halves of `rip2_client.c`.
Three facts of the code shape it:

* An update is addressed to 224.0.0.9, but `ipv4_send` treats that as any address:
  it looks for a route, asks by ARP for the next hop, and sends to that one
  hardware address. So it is meant for one hearer, `GroupHop[d]`; but if the first octet
  of that card is not 0 (`Heard`), the `&&` of `eth.c:288` lets the frame in everywhere,
  IP lets in what is for a group, and every daemon on the wire may hear it (`Hearers`).
* Nothing is periodic. A lost update is not repeated, but for the updates after the
  later entries of the same response; then only the next change of some route makes a
  new one. `told` is the history of that: who has had, or has in its queue, whose last
  update.
* The client waits without a timeout, on a port that is closed as soon as it ends.
  `lost` is the history of what it will never get.

Other traffic than RIP is left out, so that the flag of `ipv4_receive` for group packets
is never up when a packet for another host comes. Tables of more than 25 routes, which
overrun a message, are counted in `RipDaemon` (`SendOverrun`); here any send may end the
process. What ARP does to the sender's queue is in every send (`AfterDrop`).

### ConfigFile, Ipv4Header, EchoPrograms

`ConfigRead` and `ConfigGetip` are folds over the lines that end with the first
error, as the two loops do; `GetipLine` keeps the `err` of 2 that a line of another
variable leaves. `StrAddr` cuts each number to an octet, as the assignment does.
`Folded` is the loop over the carries. A text that stands for an address is the
numbers `sscanf` finds in it.

In `EchoPrograms`, `pc` of a host is where its `main` is; opening, sending and
receiving are one action each for each program, because each program checks,
ignores or exits on errors in its own way: `UdpServerEchoes` and `IpServerEchoes`
end the server when a send fails, `EthServerEchoes` does not; `udp_client` looks at
the length before it opens, `ipv4_client` after; `arp_client` goes on with an address
it could not parse. `Answered` takes the first packet in the queue, and
`IpClientReceives` counts its header. Interfaces pad short frames, or do not
(`FrameLengths`). `Readers` says who may read a frame: the host it is for, and, as
`&&` in `eth.c:288` lets in every frame for a card whose first octet is not 0
(`Heard`), the others too, as far as nothing behind `eth_recv` stops it. IP looks at
the destination, `arp_resolve` at the address a reply is about; `eth_client` and
`eth_server` look at nothing. The contents of a packet are the identity of the request it
answers, which the code does not carry and the properties need.

### NetStack

One step is one frame taken by `rawnet_recv` and judged by every layer up to the
next `rawnet_recv` or to the return of the call: `EthDrops`, `IpDrops`,
`UdpDrops`, `RecvDelivers` for a receive, `EthDrops`, `ArpDrops`, `ArpAnswers`
for a send. The three nested timers of `udp_recv`, `ipv4_receive` and `eth_recv`
are variables, each restarted where the code restarts it; so is the flag for
group packets, which `ipv4_receive` raises and never lowers. `ret` is what the
last call returned. A configuration that is read, the route table and whether
`eth_open` succeeded are choices of `Open`.

`ImplementsSocket` is the refinement: the interface queue, cut down to the
datagrams for this host and port, is the queue of `UdpSocket`; frames that are
dropped are stutters; the time left of the caller's timeout is the same, and what
the value of the last call says (`Said`: more than 0, 0, or -1) is the `result` of the
socket. A receive returns 0 in `TimesOut`, when no time is left, or for a datagram
without payload, which it takes off the queue (`udp.c:95-99`): the caller cannot tell
the two apart, which is why the daemon's review may run early (`RecvEmpty`). An error
may come at any moment, since the interface may fail.

## Runs

`tlc -config X.cfg MCModule.tla`; the names are those of `PROJECT.json`.

| Run | Bounds | Shows |
|---|---|---|
| `rip_daemon` | 2 subnets, 2 neighbours, 3 slots, infinity 4, route timeout 2, metrics 1 and 4, 2 entries a response, 1 waiting datagram, 4 route files | the type; `WakesForEveryExpiry`; `NothingUnannounced`; `NoNewDuplicates`; `OnlyExpiredRoutesGo` |
| `rip_one_subnet` | the same with 1 subnet (which a response may name twice), 2 slots, metrics 1, 2, 4, what was heard | `NoWorseThanNextHop`; `SilenceForgets` (liveness) |
| `rip_network` | 2 subnets, 2 daemons, one the other's gateway and the other overheard, the client, 2 slots, infinity 4, route timeout 1, 2 waiting datagrams, 1 restart, 2 runs of the client, 2 files of the client, of 1 and of 2 entries | `MetricHasOrigin`; `NoneAboveInfinity`; `NeighbourBelieves`; `UpdatesSettle`, `ClientServed` (liveness) |
| `ipv4_routes` | addresses of 2 octets of 2 bits, 8 routes, 3 slots, 5 files | `LookupMostSpecific`; `AddNeverDivertsSpecific`; `WrittenComesBack` |
| `net_stack` | addresses of 3 bits, 5 MACs, 10 frames, 2 waiting, timeouts -1, 0, 2 | `WaitEndsInTime`; `SentToNextHop`; `CallsEnd` (liveness); `ImplementsSocket` |
| `programs` | a server, 2 clients in different subnets, one of them run twice, 4 layers, one card (`c1`'s) whose frames the others read, 5 configuration files, 3 addresses typed, lengths -1, 0, 100, 1480, 2 waiting packets | `AnswersOwnRequests`; `EchoHasLength`; `HeaderVerifies`; `AsksAsItself`; `ClientsEnd` (liveness) |
| `rip_crash` | as `rip_daemon`, smaller | finding: NULL route used |
| `rip_next_hop` | as `rip_one_subnet` | finding: metric without next hop |
| `ipv4_duplicates` | as `ipv4_routes` | finding: duplicates read |
| `stack_sticky`, `stack_group` | 3 and 2 frames | findings: foreign packets and frames let in |
| `echo_growth` | as `programs`, IPv4 only, the repository's own file | finding: the echo grows |

Why the bounds are enough to be worth running. Two entries and two subnets let the
first entry change the table, the second one nothing, or the other way round, with
updates after either. A file of one subnet in three lines fills the table; the slots
give every order of a finite and an infinite timer, and let a
slot be freed and filled again. Two neighbours are a next hop and a rival. A
route timeout of 2 has a route that is fresh, one that is half gone and one that
has expired at once. Infinity 4 leaves metrics that grow to it and jump to it,
and 3 + 1 = 4 is the metric that becomes unreachable by the added hop. A message
of two entries overflows with the three routes of a full table, so `SendOverrun` is
taken, in the middle of the loop too; and one response may change the same route
twice. For addresses, two octets show the switch on a full octet followed by a partial one,
and three slots let a route in the middle be removed and its hole be written
over or read past. For frames, two in the queue are one that is dropped and one
that is wanted, in either order.

For the network, two daemons that believe each other are the shortest circle, and
the one in which counting to infinity, answers to answers and routes learned back
after they expired all happen; the proofs do the rest for any number. One restart
is enough for a daemon to come back while the other still has what it had told. Two
runs of the client give a late reply of the first to the second. In `programs` the
second run of `c1` finds the late echo of its first, the other client's traffic mixes
in, and 1480 with a header no longer fits a packet; 0 is the length whose echo cannot
be told from silence. The addresses of the server and of `c1` are those of the
repository's files, so that the sums of the checksum are real ones; that of `c2` is
in another subnet, and for its request of 100 bytes by UDP the carries carry again.
By Ethernet the echoes for `c1`, whose card has a first octet that is not 0, are read
by `c2` as well: `AnswersOwnRequests` is then about `c1` alone, by UDP and IP about both.

Deadlock is not checked where a process really ends (`crashed`, `exited`, a client
that is done, daemons that have settled), and, in `ipv4_routes`, it is: a table can
always be changed.

Fairness. `main` blocks nowhere but in `udp_recv`, so the daemon's own steps are
weakly fair, as is the clock: a timer that runs does run out. Nothing is assumed
of the neighbours, of the files, of errors, or that a queue is ever empty;
`SilenceForgets` and `CallsEnd` state the silence they need as a hypothesis,
since the code does not remove an expired route, nor return from a wait, while
it is fed. `RecvError` is not fair: the interface may never fail.

In `RipNetwork` every daemon that runs, a client that has its answer, and the clock
are weakly fair; no datagram need arrive, and nobody need be killed, started or
asked. `UpdatesSettle` names the two cases in which updates do not die out: next hops
in a circle, where each word of the next hop is announced although it changes
nothing, and routes that go on expiring just before they are learned again from the
next update, which breaks the circle for a moment and not the exchange.
`ClientServed` names the one in which the client waits for ever, something
lost. In `EchoPrograms` a client that was started and the clock go on; the server
need not, so `ClientsEnd` is about clients alone.

## Findings

Six, each the counterexample of a run, each against a comment or a document of
the repository: a NULL route used for an unknown unreachable subnet
(`rip2_server.c:250`), a `memcmp` where a copy was meant (262), duplicate routes
read from a file (`ipv4_route_table.c:565`), a flag for group packets that is
never lowered (`ipv4.c:272`), a group bit tested with `&&` (`eth.c:288`), and a
length that is returned with its header, so that the echo of `ipv4_server` is
20 bytes longer than the request and the client counts 40 (`ipv4.c:288`,
`ipv4_server.c:81`). What the `&&` costs the programs is in the first line of
`AnswersOwnRequests`: below IP a client takes the echoes for a card whose first octet is
not 0 for answers to its own requests, and nothing in `eth_client.c:110-112` or in
`eth_recv` looks at who sent a frame, or to whom.

## Proofs

`tlapm` on each of the eight modules whose name ends in `Proofs`. They hold for every
set of subnets, addresses and frames, every table size, infinity, timeout, file and
traffic; they assume only the named `ASSUME`s of the modules (sizes are positive, NULL
is not a route, the files are sequences of routes and bad lines, the routes of a
file have no timer, hosts are distinct, what is typed for a length is an integer and
for an address is numbers, the addresses typed are the server's or nobody's, the
file a host reads holds the host's address), but for four hypotheses that the code does
not check, each named in the theorem that needs it: `FilesAreDistinct`,
`BootsAreDistinct`, `MasksArePrefixes` and `FramesAreOwn`.

The daemon.

* `TypeCorrect`: `Spec => []TypeOK`, one step per action. `EntryFacts` gathers
  what an entry, its slot and its route are.
* `WakesInTime`: `WakesForEveryExpiry` is inductive by itself with the type,
  because only `ChooseTimeout` enters the wait and a tick ages the wait and the
  routes alike; `NextTimeoutIsLeast` is the lemma about the scan.
* `AllAnnounced`: `Unannounced` says the same of the points the property leaves out,
  while the file is read and before a reply: only in `update`, at the end of a turn of
  the loop, may the table say something new, and that turn sends it before the next
  entry is looked at.
* `NoDuplicatesAdded`, `OnlyExpiredGo`: action properties, from the type and
  `TableSteps`, which says that a step leaves each slot alone, ages it, empties it
  when expired, refreshes it, or fills it after a find that failed.
* `BelievesNextHop`: `NoWorseThanNextHop`, under the hypothesis
  `FilesAreDistinct`. The code does not check it and it is needed: of two lines of
  one subnet the second is hidden from `find`, its next hop is not listened to, and
  when the first expires the second surfaces with whatever it had. The inductive
  invariant `HInv` has three parts: while the file is read, nobody has been
  heard and the lines to come are of new subnets (`Loading`); no subnet has two
  slots (`OneSlotEach`, kept by `NoSecondSlot` once serving); and the next hop of a
  route *without* a timer has not been heard at all, for its word would have
  given the route one (`Believed`). `NextBelieved` goes through the branches
  of the loop: the one for a better metric is where the second part is needed.

The stack.

* `WaitsInTime`: `WaitEndsInTime` is inductive by itself, one step per action.
* `SendsToNextHop`: the invariant `Resolving` adds that what waits are frames of
  the wire, that `arp_resolve` looks for the next hop of the datagram being sent,
  and that nothing has been sent before the routes were read. What
  `TableLookup` returns is never expanded: any lookup would do.
* `NetTypeCorrect`: the type, one step per action; of a lookup it needs `LookupType`.
* `StackImplementsSocket`: `ImplementsSocket`, under `FramesAreOwn`: no packet for
  the port comes that is for another host. Without it the sticky flag of
  `ipv4_receive` lets one through, which is the finding of `stack_sticky`. The mapping
  cuts the queue down to what is wanted (`Kept`); `WantedOfAppend` and `WantedOfRead`
  say what an arrival and a read do to that, by induction over the queue, and
  `StepIsSocketStep` goes through the actions. It needs the type, that nothing is
  held in `ret` while a call waits, and `WaitEndsInTime`: the timer that ends
  the call is that of `eth_recv`, the time the caller gave is that of `udp_recv`.

The IPv4 route table.

* `LookupIsBest`: what the loop ends with is the first of the longest masks that
  match (`FirstBest`). `BestOf` is the invariant of the loop, `TurnKeepsBest` one turn.
* `MostSpecificFound` (`LookupMostSpecific`) and `AddedNeverDiverts`
  (`AddNeverDivertsSpecific`), under `MasksArePrefixes`: of two masks whose ones come
  first the longer has all the ones of the other (`LongerHasAll`), so that the longest
  is the most specific. Of other masks the code counts some of the ones and not
  others, and the longest need not be; a file may hold them, since
  nothing looks.
* `WrittenRoutesAsBefore` (`WrittenComesBack`), without a hypothesis: writing keeps the
  order of the slots and closes the holes, so the first of the longest stays the
  first.
* `RoutesTypeCorrect`: the type and `CountIsRoutes`: while the file is read the count of
  routes is that of the occupied slots, which bounds it.

The network.

* `EntryStepIsAfterEntry`: a step of `RipDaemon` for one entry leaves the table and
  `changed` that `AfterEntry` computes for `RipNetwork`, and goes to an update if and
  only if `AfterEntry` says that one is due, or both end: what is proved of the
  network's daemons is about the same loop.
* `NetworkTypeCorrect`, `OriginsRespected` (`MetricHasOrigin`), `InfinityIsBound`
  (`NoneAboveInfinity`): one argument, used three times. Take a set E of
  entries and a set R of routes that are `Closed`: a route of R is advertised as
  an entry of E, what a daemon makes of an entry of E is in R, and a route of R
  that ages or is refreshed by an entry of E stays in R. Then, if files
  and client start inside, the network stays inside: `Within(E, R)`, tables in
  R and jobs and datagrams in E, is inductive, with one step per action. The
  invariant must speak of what is on its way and of jobs half done as well as
  of tables, since a route comes back after everyone who sent it has lost it. Each
  theorem then only has to name its two sets and show them closed: all entries and
  routes; those that cost at least what some file says; those of 16 and less.
* `NeighboursAgree` (`NeighbourBelieves`), under `BootsAreDistinct`: no file names a
  subnet twice, for the second of two routes would be announced after the first, and the
  neighbour would keep what was said last. The inductive invariant `Heeded` says, of a
  daemon that owes no update, be it half through a response, and of whoever it has told,
  that the latter `Catches` each of its routes: the last of its datagrams that waits
  names the route with its metric; or none waits, one is being worked off, and what is
  left of it names the route or the table is near enough already; or nothing of it is on
  its way, and the table is. One lemma for each thing that can happen to a hearer
  (`CatchesOther`, `CatchesFresh`, `CatchesDrop`, `CatchesTake`, `CatchesEntry`,
  `CatchesSmaller`), `EntryMoves` for what an entry does to a table, `TableTold` for
  what `send_table` says; `SourceSteps` shows that who is quiet and told has not changed
  what it told: a turn of the loop that has changed something ends in an update that is
  due.

The echo programs, the configuration and the checksum.

* `ChecksumVerifies`: `FoldedIs` says what the loop over the carries computes, the
  remainder by 65535, with 65535 itself in place of 0 for all but 0; it is proved by the
  least number for which the loop would end with another. `WordSumAppend` is one word
  more for the sum, and `Completed` the sum of both.
* `ReadersAgree`: the two readers of a configuration end with the same address, for
  every file that `ipv4_config_read` accepts and that has no address after its mask
  (`AddressFirst`). Up to the mask they go line by line together, after it neither
  address changes; that no line was an error for the first reader follows from its
  last state, backwards, since an error stays.
* `EchoTypeCorrect`, `HeadersVerify`, `EchoesHaveLength`, `ArpAsksAsItself`: from one
  invariant, `Content`. `Mail` says what may wait at a host, `Task` what a
  client may be about to do, `Outcome` how a run of it may have ended: the length of
  an echo is a fact about packets still on their way, and the address a client asks
  with one about the file it has read. `HeadersVerify` rests on `ChecksumVerifies`,
  `ArpAsksAsItself` on `ReadersAgree`.
* `AnswersInOrder` (`AnswersOwnRequests`): the inductive invariant is `Content` with
  `Order`. Along the requests of one client, the runs that are answered come before
  those whose answer waits at the client, those before the ones that wait at the
  server, each of the three in order, and none is of a request yet to come
  (`InOrder`). Only the first part is in the property; without the other two a late echo
  and a lost packet could not be told from one that overtakes. Of a client
  that reads the frames for another card (`Overhears`: by Ethernet and ARP, if that
  card's first octet is not 0) `Order` does not hold, and the property, by its first
  line, says nothing. By UDP and IP it holds of every client, whatever the cards let in.
  One lemma for each
  thing that can happen to the queues (`InOrderFewer`, `InOrderAsked`, `InOrderEchoed`,
  `InOrderNothing`, `InOrderTook`).
* `NextMoves` makes both invariants short: all actions of the programs are
  steps of five kinds (`Moves`: a start, a request, an answer, an end, and what
  changes no queue but the server's), whichever layer is tried, and an invariant is
  shown for the five.

Recursion. The induction theorems of the library take a predicate as parameter, which
no backend here can instantiate. `OrderProofs` does without: `MinIsLeast` gives the
least number of a set, so that a claim is proved by looking at the least counterexample
(`SlotsEnumerable`: the slots of a table can be listed in their order, which
`EntriesOf` and `Output` choose), or by `SetInduction` over the *set* of the numbers
for which it holds. That a function defined by recursion exists at all is proved in the
same way (`IterationExists`, `ScanExists`, `KeptExists`). A fold of the community modules
is a recursion over sets of indices: `FoldExists` and `FoldRuns` turn it into a sequence
of states, one for each line or word taken (`WordSumRuns`, `ReadLineRuns`,
`GetipLineRuns`), which can be reasoned about by induction.

Only model-checked: `SilenceForgets`, `CallsEnd`, `UpdatesSettle`, `ClientServed` and
`ClientsEnd`, since liveness under fairness is beyond TLAPS here; and the six properties
that the runs of the findings refute. Every invariant and every action property of
the other runs, and the refinement, is proved.

## Not modelled

* Printing and conversion to text (`*_print`, `*_str`, `print_pkt`, the usage
  messages), the freeing of memory, and `udp_close`, `ipv4_close`, `eth_close`, which end
  a process here.
* `eth_poll` and `ripv2_route_table_lookup`, which nothing calls.
* `ripv2_route_table_output` and `_write`, which nothing calls either; the reader of
  such a file does not look at the column of the timer, so a route with a timer
  would come back as one that never expires.
* The value `ipv4_route_table_write` returns (its comment says the number of routes;
  `output` always returns 0, so the sum is 0) and errors of the file system while it
  writes.
* That `ipv4_config_getip` returns 2 for the repository's own file, where its comment
  (`ipv4_config.c:157`) says 0: `ConfigGetip` does so, no property asks for
  the value, and its one caller only tests for -1.
* Metrics of 2^31 and more, which the code would take for negative.
* The inside of librawnet and timerms, which are not in the repository: NetStack
  and EchoPrograms model them from how they are used, and are marked external.
* `rip.c`, which is empty, and the request a daemon would send when it starts, which is
  commented out.
