----------------------------- MODULE NetStackProofs -----------------------------
(***************************************************************************)
(* Proofs about NetStack, for every route table, every set of frames and   *)
(* every timeout.  Of what ipv4_route_table_lookup returns only the type   *)
(* is used: the proofs hold whatever route it finds.                       *)
(***************************************************************************)
EXTENDS NetStack, Ipv4RouteTableProofs, SequenceTheorems

---------------------------------------------------------------------------
(* The nested timers.                                                      *)

\* Every step keeps the timers of the layers that wait equal: a call starts
\* them together, a layer that drops a frame hands the time it has left to the
\* ones below it, and the clock runs for all of them.
LEMMA NextWaitEndsInTime == WaitEndsInTime /\ [Next]_vars => WaitEndsInTime'
<1> SUFFICES ASSUME WaitEndsInTime, [Next]_vars PROVE WaitEndsInTime'
  OBVIOUS
<1> USE DEF WaitEndsInTime, Waiting
<1>1. CASE Open \/ ArpExits
  BY <1>1 DEF Open, EthOpens, ArpExits
<1>2. CASE CallRecv
  BY <1>2 DEF CallRecv
<1>3. CASE CallSend
  BY <1>3 DEF CallSend
<1>4. CASE CallRecvNoIface \/ SendNoRoute
  BY <1>4 DEF CallRecvNoIface, SendNoRoute, Returns
<1>5. CASE EthDrops
  BY <1>5 DEF EthDrops, timers
<1>6. CASE IpDrops
  BY <1>6 DEF IpDrops, TakesIp
<1>7. CASE UdpDrops
  BY <1>7 DEF UdpDrops, TakesIp
<1>8. CASE RecvDelivers \/ RecvTimesOut \/ RecvFails
  BY <1>8 DEF RecvDelivers, RecvTimesOut, RecvFails, Returns
<1>9. CASE ArpDrops
  BY <1>9 DEF ArpDrops, TakesArp
<1>10. CASE ArpAnswers \/ ArpTimesOut \/ ArpFails
  BY <1>10 DEF ArpAnswers, ArpTimesOut, ArpFails, Returns
<1>11. CASE Arrives
  BY <1>11 DEF Arrives, timers
<1>12. CASE Tick
  BY <1>12 DEF Tick
<1>13. CASE UNCHANGED vars
  BY <1>13 DEF vars, timers
<1>14. QED
  BY <1>1, <1>2, <1>3, <1>4, <1>5, <1>6, <1>7, <1>8, <1>9, <1>10, <1>11, <1>12, <1>13
     DEF Next, Call, Recv, Send

\* However many frames the layers have thrown away, each of them waits for
\* exactly what is left of the timeout of the caller.
THEOREM WaitsInTime == Spec => []WaitEndsInTime
<1>1. Init => WaitEndsInTime
  BY DEF Init, WaitEndsInTime, Waiting
<1>2. QED
  BY <1>1, NextWaitEndsInTime, PTL DEF Spec

---------------------------------------------------------------------------
(* Who a frame is sent to.                                                 *)

\* The inductive invariant: only frames of the wire are ever taken from the
\* queue, arp_resolve looks for the next hop of the datagram's destination, and
\* nothing has been sent before the routes were read.
Resolving ==
    /\ rx \in Seq(Frames)
    /\ pc = "closed" => tx = None
    /\ pc = "arp" => sending.hop = NextHop(TableLookup(table, sending.dst), sending.dst)
    /\ SentToNextHop

\* A frame read from the queue, and the queue that is left.
LEMMA HeadOfQueue ==
    ASSUME rx \in Seq(Frames), rx # <<>>
    PROVE  Head(rx) \in Frames /\ Tail(rx) \in Seq(Frames)
BY HeadTailProperties

\* Every step keeps Resolving: only the answer of the next hop gives the
\* address a frame is sent to.
LEMMA NextResolving == Resolving /\ [Next]_vars => Resolving'
<1> SUFFICES ASSUME Resolving, [Next]_vars PROVE Resolving'
  OBVIOUS
<1> USE DEF Resolving, SentToNextHop
<1>1. CASE Open
  BY <1>1 DEF Open, EthOpens
<1>2. CASE ArpExits
  BY <1>2 DEF ArpExits
<1>3. CASE CallRecv
  BY <1>3 DEF CallRecv
<1>4. CASE CallSend
  <2>1. PICK dst \in Destinations, n \in Lengths :
           sending' = [dst |-> dst, hop |-> NextHop(TableLookup(table, dst), dst), len |-> n]
    BY <1>4 DEF CallSend
  <2>2. /\ pc' = "arp"
        /\ UNCHANGED <<table, rx, tx>>
    BY <1>4 DEF CallSend
  <2>3. sending'.hop = NextHop(TableLookup(table', sending'.dst), sending'.dst)
    BY <2>1, <2>2
  <2>4. QED
    BY <2>2, <2>3
<1>5. CASE CallRecvNoIface \/ SendNoRoute
  BY <1>5 DEF CallRecvNoIface, SendNoRoute, Returns
<1>6. CASE EthDrops \/ IpDrops \/ UdpDrops \/ ArpDrops
  <2>1. rx # <<>> /\ rx' = Tail(rx) /\ UNCHANGED <<pc, table, sending, tx>>
    BY <1>6 DEF EthDrops, IpDrops, TakesIp, UdpDrops, ArpDrops, TakesArp
  <2>2. rx' \in Seq(Frames)
    BY <2>1, HeadOfQueue
  <2>3. QED
    BY <2>1, <2>2
<1>7. CASE RecvDelivers
  <2>1. rx # <<>> /\ rx' = Tail(rx) /\ pc' = "app" /\ UNCHANGED <<table, tx>>
    BY <1>7 DEF RecvDelivers, TakesIp, Returns
  <2>2. rx' \in Seq(Frames)
    BY <2>1, HeadOfQueue
  <2>3. QED
    BY <2>1, <2>2
<1>8. CASE RecvTimesOut \/ RecvFails \/ ArpTimesOut \/ ArpFails
  BY <1>8 DEF RecvTimesOut, RecvFails, ArpTimesOut, ArpFails, Returns
<1>9. CASE ArpAnswers
  <2> DEFINE f == Head(rx)
  <2>1. /\ pc = "arp" /\ rx # <<>> /\ rx' = Tail(rx)
        /\ pc' = "app" /\ table' = table
        /\ f.type = "arp" /\ f.oper = 2 /\ f.spa = sending.hop
    BY <1>9 DEF ArpAnswers, TakesArp, EthAccepts, IsAnswer, Returns
  <2>2. f \in Frames /\ rx' \in Seq(Frames)
    BY <2>1, HeadOfQueue
  <2>3. CASE tx' = [dmac |-> f.sha, dst |-> sending.dst]
    <3>1. tx'.dmac = f.sha /\ tx'.dst = sending.dst
      BY <2>3
    <3>2. f.spa = NextHop(TableLookup(table', tx'.dst), tx'.dst)
      BY <2>1, <3>1
    <3>3. QED
      BY <2>1, <2>2, <3>1, <3>2
  <2>4. CASE tx' = tx
    BY <2>1, <2>2, <2>4
  <2>5. QED
    BY <1>9, <2>3, <2>4 DEF ArpAnswers, EthSends
<1>10. CASE Arrives
  <2>1. UNCHANGED <<pc, table, sending, tx>> /\ rx' \in Seq(Frames)
    BY <1>10 DEF Arrives
  <2>2. QED
    BY <2>1
<1>11. CASE Tick
  BY <1>11 DEF Tick
<1>12. CASE UNCHANGED vars
  BY <1>12 DEF vars
<1>13. QED
  BY <1>1, <1>2, <1>3, <1>4, <1>5, <1>6, <1>7, <1>8, <1>9, <1>10, <1>11, <1>12
     DEF Next, Call, Recv, Send

\* Whatever replies are on the wire, an IP frame leaves only for an address the
\* next hop of its route has claimed in an ARP reply.
THEOREM SendsToNextHop == Spec => []SentToNextHop
<1>1. Init => Resolving
  BY EmptySeq DEF Init, Resolving, SentToNextHop
<1>2. Resolving => SentToNextHop
  BY DEF Resolving
<1>3. QED
  BY <1>1, <1>2, NextResolving, PTL DEF Spec

---------------------------------------------------------------------------
(* The type.                                                               *)

\* What is read from a queue, and what is left of it.
LEMMA HeadTailType ==
    ASSUME rx \in Seq(Frame), rx # <<>>
    PROVE  Head(rx) \in Frame /\ Tail(rx) \in Seq(Frame)
BY HeadTailProperties

\* A call that returns leaves its variables in type.
LEMMA ReturnsType ==
    ASSUME TypeOK, NEW v \in Int, NEW f \in IpFrame \cup {None}, Returns(v, f),
           rx' \in Seq(Frame), tx' \in [dmac : Mac, dst : Address] \cup {None}
    PROVE  TypeOK'
<1>1. sending' \in [dst : Address, hop : Address, len : Nat]
  BY DEF Returns, NotSending, Zero, Address
<1>2. QED
  BY <1>1 DEF TypeOK, Returns

LEMMA NextNetTypeOK == TypeOK /\ [Next]_vars => TypeOK'
<1> SUFFICES ASSUME TypeOK, [Next]_vars PROVE TypeOK'
  OBVIOUS
<1> USE DEF TypeOK, Infinite
<1>0. rx \in Seq(Frame) /\ None \in IpFrame \cup {None}
  OBVIOUS
<1>1. CASE Open
  <2>1. iface' \in BOOLEAN /\ table' \in Tables
    BY <1>1, TablesAssumption DEF Open, EthOpens
  <2>2. pc' \in {"closed", "app", "recv", "arp", "exited"}
    BY <1>1 DEF Open
  <2>3. QED
    BY <1>1, <2>1, <2>2 DEF Open, timers
<1>2. CASE ArpExits
  BY <1>2 DEF ArpExits, timers
<1>3. CASE CallRecv
  <2>1. /\ pc' = "recv" /\ broadcast' = FALSE /\ ret' = [value |-> 0, frame |-> None]
        /\ callTimer' \in Timeouts /\ ipTimer' \in Timeouts /\ ethTimer' \in Timeouts
        /\ UNCHANGED <<iface, table, rx, sending, tx>>
    BY <1>3 DEF CallRecv
  <2>2. Timeouts \subseteq Nat \cup {-1}
    BY TimesAssumption
  <2>3. ret' \in [value : Int, frame : IpFrame \cup {None}]
    BY <2>1
  <2>4. QED
    BY <2>1, <2>2, <2>3
<1>4. CASE CallSend
  <2>1. PICK dst \in Destinations, n \in Lengths :
           /\ TableLookup(table, dst) # NoRoute
           /\ sending' = [dst |-> dst, hop |-> NextHop(TableLookup(table, dst), dst), len |-> n]
    BY <1>4 DEF CallSend
  <2>2. TableLookup(table, dst) \in Route /\ dst \in Address /\ n \in Nat
    BY <2>1, LookupType, AddressAssumption, SizesAssumption
  <2>3. NextHop(TableLookup(table, dst), dst) \in Address
    BY <2>2 DEF NextHop, Route
  <2>4. sending' \in [dst : Address, hop : Address, len : Nat]
    BY <2>1, <2>2, <2>3
  <2>5. /\ pc' = "arp" /\ ret' = [value |-> 0, frame |-> None]
        /\ callTimer' = ArpTimeout /\ ethTimer' = ArpTimeout
        /\ UNCHANGED <<iface, table, rx, ipTimer, broadcast, tx>>
    BY <1>4 DEF CallSend
  <2>6. ArpTimeout \in Nat /\ ret' \in [value : Int, frame : IpFrame \cup {None}]
    BY <2>5, TimesAssumption
  <2>7. QED
    BY <2>4, <2>5, <2>6
<1>5. CASE CallRecvNoIface \/ SendNoRoute \/ RecvFails \/ ArpTimesOut \/ ArpFails
  <2>1. Returns(-1, None) /\ UNCHANGED <<rx, tx>>
    BY <1>5 DEF CallRecvNoIface, SendNoRoute, RecvFails, ArpTimesOut, ArpFails
  <2>2. QED
    BY <2>1, <1>0, ReturnsType
<1>6. CASE RecvTimesOut
  BY <1>6, <1>0, ReturnsType DEF RecvTimesOut
<1>7. CASE EthDrops \/ IpDrops \/ UdpDrops \/ ArpDrops
  <2>1. rx # <<>> /\ rx' = Tail(rx) /\ UNCHANGED <<pc, iface, table, sending, tx, ret>>
    BY <1>7 DEF EthDrops, IpDrops, TakesIp, UdpDrops, ArpDrops, TakesArp
  <2>2. rx' \in Seq(Frame)
    BY <1>0, <2>1, HeadTailType
  <2>3. /\ callTimer' = callTimer /\ broadcast' \in BOOLEAN
        /\ ipTimer' \in {ipTimer, callTimer}
        /\ ethTimer' \in {ethTimer, ipTimer, callTimer}
    BY <1>7 DEF EthDrops, IpDrops, UdpDrops, ArpDrops, FlagAfter, timers
  <2>4. QED
    BY <2>1, <2>2, <2>3
<1>8. CASE RecvDelivers
  <2> DEFINE f == Head(rx)
  <2>1. rx # <<>> /\ rx' = Tail(rx) /\ tx' = tx /\ Returns(f.len, f) /\ f.type = "ip"
    BY <1>8 DEF RecvDelivers, TakesIp, EthAccepts
  <2>2. f \in Frame /\ rx' \in Seq(Frame)
    BY <1>0, <2>1, HeadTailType
  <2>3. f \in IpFrame
    BY <2>1, <2>2 DEF Frame, ArpFrame, OtherFrame
  <2>4. f.len \in Int
    BY <2>3 DEF IpFrame
  <2> HIDE DEF f
  <2>5. QED
    BY <2>1, <2>2, <2>3, <2>4, ReturnsType
<1>9. CASE ArpAnswers
  <2> DEFINE f == Head(rx)
  <2>1. rx # <<>> /\ rx' = Tail(rx) /\ f.type = "arp"
    BY <1>9 DEF ArpAnswers, TakesArp, EthAccepts
  <2>2. f \in Frame /\ rx' \in Seq(Frame)
    BY <1>0, <2>1, HeadTailType
  <2>3. f.sha \in Mac
    BY <2>1, <2>2 DEF Frame, IpFrame, ArpFrame, OtherFrame
  <2>4. CASE EthSends(f.sha) /\ Returns(UdpSent(sending.len), None)
    <3>1. tx' \in [dmac : Mac, dst : Address]
      BY <2>3, <2>4 DEF EthSends
    <3>2. UdpSent(sending.len) \in Int
      BY DEF UdpSent, UdpHeader, IpHeader
    <3>3. QED
      BY <1>0, <2>2, <2>4, <3>1, <3>2, ReturnsType
  <2>5. CASE Returns(-1, None) /\ UNCHANGED tx
    BY <1>0, <2>2, <2>5, ReturnsType
  <2>6. QED
    BY <1>9, <2>4, <2>5 DEF ArpAnswers
<1>10. CASE Arrives
  <2>1. rx' \in Seq(Frame)
    BY <1>10, FramesAssumption DEF Arrives
  <2>2. QED
    BY <1>10, <2>1 DEF Arrives, timers
<1>11. CASE Tick
  <2>1. \A t \in Nat \cup {-1} : Older(t) \in Nat \cup {-1}
    BY DEF Older
  <2>2. QED
    BY <1>11, <2>1 DEF Tick
<1>12. CASE UNCHANGED vars
  BY <1>12 DEF vars
<1>13. QED
  BY <1>1, <1>2, <1>3, <1>4, <1>5, <1>6, <1>7, <1>8, <1>9, <1>10, <1>11, <1>12
     DEF Next, Call, Recv, Send

LEMMA InitNetTypeOK == Init => TypeOK
<1> SUFFICES ASSUME Init PROVE TypeOK
  OBVIOUS
<1>1. table \in Tables /\ rx \in Seq(Frame)
  BY EmptySeq DEF Init, EmptyTable, Tables
<1>2. sending \in [dst : Address, hop : Address, len : Nat]
  BY DEF Init, NotSending, Zero, Address
<1>3. ret \in [value : Int, frame : IpFrame \cup {None}]
  BY DEF Init
<1>4. tx \in [dmac : Mac, dst : Address] \cup {None}
  BY DEF Init
<1>5. QED
  BY <1>1, <1>2, <1>3, <1>4 DEF Init, TypeOK, Infinite

\* Timers, queue, route table and what is being sent keep their types, for every
\* table that was read and every frame.
THEOREM NetTypeCorrect == Spec => []TypeOK
<1>1. QED
  BY InitNetTypeOK, NextNetTypeOK, PTL DEF Spec

---------------------------------------------------------------------------
(* What udp_recv keeps of a queue.                                         *)

IsKept(b, q, n) ==
    b = [k \in 0 .. n |-> IF k = 0 THEN <<>> ELSE Keep(b[k - 1], q[k])]

\* One frame more.
LEMMA KeptGoesOn ==
    ASSUME NEW q, NEW n \in Nat, NEW b, IsKept(b, q, n)
    PROVE  \E c : IsKept(c, q, n + 1)
<1> DEFINE c == [k \in 0 .. n + 1 |-> IF k = n + 1 THEN Keep(b[n], q[k]) ELSE b[k]]
<1>1. \A k \in 0 .. n : c[k] = b[k]
  OBVIOUS
<1>2. \A k \in 0 .. n : b[k] = IF k = 0 THEN <<>> ELSE Keep(b[k - 1], q[k])
  BY DEF IsKept
<1>3. ASSUME NEW k \in 0 .. n + 1
      PROVE  c[k] = IF k = 0 THEN <<>> ELSE Keep(c[k - 1], q[k])
  <2>1. CASE k = n + 1
    <3>1. k # 0 /\ k - 1 = n /\ n \in 0 .. n
      BY <2>1
    <3>2. c[k - 1] = b[n] /\ c[k] = Keep(b[n], q[k])
      BY <1>1, <2>1, <3>1
    <3>3. QED
      BY <3>1, <3>2
  <2>2. CASE k # n + 1
    <3>1. k \in 0 .. n /\ c[k] = b[k]
      BY <1>1, <2>2
    <3>2. k # 0 => k - 1 \in 0 .. n /\ c[k - 1] = b[k - 1]
      BY <1>1, <3>1
    <3>3. QED
      BY <1>2, <3>1, <3>2
  <2>3. QED
    BY <2>1, <2>2
<1>4. c = [k \in 0 .. n + 1 |-> c[k]]
  OBVIOUS
<1> HIDE DEF c
<1>5. c = [k \in 0 .. n + 1 |-> IF k = 0 THEN <<>> ELSE Keep(c[k - 1], q[k])]
  BY <1>3, <1>4
<1>6. QED
  BY <1>5 DEF IsKept

LEMMA KeptExists ==
    ASSUME NEW q, NEW n \in Nat
    PROVE  \E b : IsKept(b, q, n)
<1> DEFINE S == {m \in Nat : \E b : IsKept(b, q, m)}
<1>1. 0 \in S
  <2> DEFINE b == [k \in 0 .. 0 |-> <<>>]
  <2>1. b = [k \in 0 .. 0 |-> IF k = 0 THEN <<>> ELSE Keep(b[k - 1], q[k])]
    OBVIOUS
  <2>2. QED
    BY <2>1 DEF IsKept
<1>2. \A m \in Nat : m \in S => m + 1 \in S
  BY KeptGoesOn
<1> HIDE DEF S
<1>3. Nat \subseteq S
  BY <1>1, <1>2, SetInduction
<1>4. QED
  BY <1>3 DEF S

\* What is kept, frame by frame.
LEMMA KeptSteps ==
    ASSUME NEW q, Len(q) \in Nat
    PROVE  /\ Kept(q)[0] = <<>>
           /\ \A n \in 1 .. Len(q) : Kept(q)[n] = Keep(Kept(q)[n - 1], q[n])
<1>1. Kept(q) = CHOOSE b : IsKept(b, q, Len(q))
  BY DEF Kept, IsKept
<1>2. \E b : IsKept(b, q, Len(q))
  BY KeptExists
<1>3. IsKept(Kept(q), q, Len(q))
  BY <1>1, <1>2
<1> DEFINE b == Kept(q)
<1> HIDE DEF b
<1>4. b = [k \in 0 .. Len(q) |-> IF k = 0 THEN <<>> ELSE Keep(b[k - 1], q[k])]
  BY <1>3 DEF IsKept, b
<1>5. b[0] = <<>>
  BY <1>4
<1>6. \A n \in 1 .. Len(q) : b[n] = Keep(b[n - 1], q[n])
  BY <1>4
<1>7. QED
  BY <1>5, <1>6 DEF b

\* It is a sequence of frames.
LEMMA KeptType ==
    ASSUME NEW q \in Seq(Frames)
    PROVE  \A n \in 0 .. Len(q) : Kept(q)[n] \in Seq(Frames)
<1> DEFINE S == {n \in Nat : n <= Len(q) => Kept(q)[n] \in Seq(Frames)}
<1>1. 0 \in S
  <2>1. Len(q) \in Nat /\ <<>> \in Seq(Frames)
    OBVIOUS
  <2>2. Kept(q)[0] = <<>>
    BY <2>1, KeptSteps
  <2>3. QED
    BY <2>1, <2>2
<1>2. ASSUME NEW n \in Nat, n \in S PROVE n + 1 \in S
  <2>1. CASE n + 1 <= Len(q)
    <3>1. n + 1 \in 1 .. Len(q) /\ (n + 1) - 1 = n /\ n <= Len(q)
      BY <2>1
    <3>2. Kept(q)[n] \in Seq(Frames) /\ q[n + 1] \in Frames
      BY <1>2, <3>1
    <3>3. Keep(Kept(q)[n], q[n + 1]) \in Seq(Frames)
      BY <3>2 DEF Keep
    <3>4. Kept(q)[n + 1] = Keep(Kept(q)[n], q[n + 1])
      BY <3>1, KeptSteps
    <3>5. QED
      BY <3>3, <3>4
  <2>2. CASE ~ (n + 1 <= Len(q))
    BY <2>2
  <2>3. QED
    BY <2>1, <2>2
<1> HIDE DEF S
<1>3. Nat \subseteq S
  BY <1>1, <1>2, SetInduction
<1>4. QED
  BY <1>3 DEF S

\* A frame that arrives is kept at the end, if it is wanted.
LEMMA WantedOfAppend ==
    ASSUME NEW q \in Seq(Frames), NEW f \in Frames
    PROVE  WantedOf(Append(q, f)) =
             IF Wanted(f) THEN Append(WantedOf(q), f) ELSE WantedOf(q)
<1> DEFINE r == Append(q, f)
<1>1. /\ r \in Seq(Frames) /\ Len(r) = Len(q) + 1 /\ r[Len(q) + 1] = f
      /\ \A i \in 1 .. Len(q) : r[i] = q[i]
  OBVIOUS
<1> HIDE DEF r
<1> DEFINE S == {n \in Nat : n <= Len(q) => Kept(r)[n] = Kept(q)[n]}
<1>2. 0 \in S
  BY <1>1, KeptSteps
<1>3. ASSUME NEW n \in Nat, n \in S PROVE n + 1 \in S
  <2>1. CASE n + 1 <= Len(q)
    <3>1. /\ n + 1 \in 1 .. Len(q) /\ n + 1 \in 1 .. Len(r)
          /\ (n + 1) - 1 = n /\ n <= Len(q)
      BY <1>1, <2>1
    <3>2. Kept(r)[n] = Kept(q)[n] /\ r[n + 1] = q[n + 1]
      BY <1>1, <1>3, <3>1
    <3>3. Kept(r)[n + 1] = Kept(q)[n + 1]
      BY <1>1, <3>1, <3>2, KeptSteps
    <3>4. QED
      BY <3>3
  <2>2. CASE ~ (n + 1 <= Len(q))
    BY <2>2
  <2>3. QED
    BY <2>1, <2>2
<1> HIDE DEF S
<1>4. Nat \subseteq S
  BY <1>2, <1>3, SetInduction
<1>5. Kept(r)[Len(q)] = WantedOf(q)
  BY <1>4 DEF S, WantedOf
<1>6. Len(r) \in 1 .. Len(r) /\ Len(r) - 1 = Len(q) /\ r[Len(r)] = f
  BY <1>1
<1>7. WantedOf(r) = IF Wanted(f) THEN Append(WantedOf(q), f) ELSE WantedOf(q)
  <2>1. \A k \in 1 .. Len(r) : Kept(r)[k] = Keep(Kept(r)[k - 1], r[k])
    BY <1>1, KeptSteps
  <2>2. PICK k \in 1 .. Len(r) : k = Len(r)
    BY <1>6
  <2>3. Kept(r)[k] = Keep(Kept(r)[k - 1], r[k]) /\ k - 1 = Len(q) /\ r[k] = f
    BY <1>6, <2>1, <2>2
  <2>4. QED
    BY <1>5, <2>2, <2>3 DEF WantedOf, Keep
<1>8. QED
  BY <1>7 DEF r

\* The head of a queue is the head of what is kept, if it is wanted.
LEMMA WantedOfTail ==
    ASSUME NEW q \in Seq(Frames), q # <<>>
    PROVE  WantedOf(q) = (IF Wanted(Head(q)) THEN <<Head(q)>> ELSE <<>>) \o WantedOf(Tail(q))
<1> DEFINE r == Tail(q)
           first == IF Wanted(Head(q)) THEN <<Head(q)>> ELSE <<>>
<1>1. /\ r \in Seq(Frames) /\ Len(q) = Len(r) + 1 /\ Len(r) \in Nat
      /\ q[1] \in Frames /\ Head(q) = q[1]
      /\ \A i \in 1 .. Len(r) : q[i + 1] = r[i]
  BY HeadTailProperties
<1>2. first \in Seq(Frames)
  BY <1>1
<1>3. Kept(q)[1] = first
  <2>1. 1 \in 1 .. Len(q) /\ 1 - 1 = 0
    BY <1>1
  <2>2. Kept(q)[1] = Keep(<<>>, q[1])
    BY <1>1, <2>1, KeptSteps
  <2>3. Append(<<>>, q[1]) = <<q[1]>>
    BY <1>1
  <2>4. QED
    BY <1>1, <2>2, <2>3 DEF Keep
<1> HIDE DEF r, first
<1> DEFINE S == {n \in Nat : n <= Len(r) => Kept(q)[n + 1] = first \o Kept(r)[n]}
<1>4. 0 \in S
  <2>1. Kept(r)[0] = <<>> /\ first \o <<>> = first /\ 0 + 1 = 1
    BY <1>1, <1>2, KeptSteps
  <2>2. QED
    BY <1>3, <2>1
<1>5. ASSUME NEW n \in Nat, n \in S PROVE n + 1 \in S
  <2>1. CASE n + 1 <= Len(r)
    <3>1. /\ n + 1 \in 1 .. Len(r) /\ (n + 1) + 1 \in 1 .. Len(q)
          /\ (n + 1) - 1 = n /\ ((n + 1) + 1) - 1 = n + 1 /\ n \in 0 .. Len(r)
      BY <1>1, <2>1
    <3> DEFINE f == r[n + 1]
               s == Kept(r)[n]
    <3>2. q[(n + 1) + 1] = f /\ f \in Frames /\ s \in Seq(Frames)
      BY <1>1, <3>1, KeptType
    <3>3. Kept(q)[n + 1] = first \o s
      BY <1>5, <3>1
    <3>4. Kept(q)[(n + 1) + 1] = Keep(first \o s, f)
      <4>1. \A k \in 1 .. Len(q) : Kept(q)[k] = Keep(Kept(q)[k - 1], q[k])
        BY <1>1, KeptSteps
      <4> HIDE DEF f, s
      <4>2. PICK k \in 1 .. Len(q) : k = (n + 1) + 1
        BY <3>1
      <4>3. Kept(q)[k] = Keep(Kept(q)[k - 1], q[k])
        BY <4>1
      <4>4. k - 1 = n + 1
        BY <4>2
      <4>5. QED
        BY <3>2, <3>3, <4>2, <4>3, <4>4
    <3>5. Kept(r)[n + 1] = Keep(s, f)
      BY <1>1, <3>1, KeptSteps
    <3> HIDE DEF f, s
    <3>6. Append(first \o s, f) = first \o Append(s, f)
      <4>1. first \o s \in Seq(Frames) /\ <<f>> \in Seq(Frames)
        BY <1>2, <3>2
      <4>2. Append(first \o s, f) = (first \o s) \o <<f>> /\ Append(s, f) = s \o <<f>>
        BY <3>2, <4>1, AppendIsConcat
      <4>3. (first \o s) \o <<f>> = first \o (s \o <<f>>)
        BY <1>2, <3>2, <4>1, ConcatAssociative
      <4>4. QED
        BY <4>2, <4>3
    <3>7. Kept(q)[(n + 1) + 1] = first \o Kept(r)[n + 1]
      BY <3>4, <3>5, <3>6 DEF Keep
    <3>8. QED
      BY <3>7
  <2>2. CASE ~ (n + 1 <= Len(r))
    BY <2>2
  <2>3. QED
    BY <2>1, <2>2
<1> HIDE DEF S
<1>6. Nat \subseteq S
  BY <1>4, <1>5, SetInduction
<1>7. Kept(q)[Len(r) + 1] = first \o Kept(r)[Len(r)]
  BY <1>1, <1>6 DEF S
<1>8. QED
  BY <1>1, <1>7 DEF WantedOf, r, first

\* Reading a frame takes the head of what is kept, or leaves it alone.
LEMMA WantedOfRead ==
    ASSUME NEW q \in Seq(Frames), q # <<>>
    PROVE  /\ Wanted(Head(q)) => /\ WantedOf(q) # <<>>
                                 /\ Head(WantedOf(q)) = Head(q)
                                 /\ WantedOf(Tail(q)) = Tail(WantedOf(q))
           /\ ~Wanted(Head(q)) => WantedOf(Tail(q)) = WantedOf(q)
<1>1. Tail(q) \in Seq(Frames) /\ Head(q) \in Frames
  BY HeadTailProperties
<1>2. WantedOf(Tail(q)) \in Seq(Frames)
  <2>1. Len(Tail(q)) \in 0 .. Len(Tail(q))
    BY <1>1
  <2>2. QED
    BY <1>1, <2>1, KeptType DEF WantedOf
<1> DEFINE w == WantedOf(Tail(q))
           h == Head(q)
<1>3. WantedOf(q) = (IF Wanted(h) THEN <<h>> ELSE <<>>) \o w
  BY WantedOfTail
<1> HIDE DEF w, h
<1>4. h \in Frames /\ w \in Seq(Frames)
  BY <1>1, <1>2 DEF h, w
<1>5. <<h>> \o w # <<>> /\ Head(<<h>> \o w) = h /\ Tail(<<h>> \o w) = w /\ <<>> \o w = w
  BY <1>4, ConcatProperties, HeadTailProperties
<1>6. QED
  BY <1>3, <1>5 DEF w, h

---------------------------------------------------------------------------
(* The stack is a socket.                                                  *)

\* No frame brings an IP packet for this port that is neither for this host nor
\* for a group: then the flag of ipv4_receive makes no difference.
FramesAreOwn ==
    \A f \in Frames :
        (EthAccepts(f, "ip") /\ f.proto = "udp" /\ f.port = MyPort)
            => f.dst \in GroupIPs \cup {MyIP}

\* What the steps below need of the state they start from.
SocketInv ==
    /\ TypeOK
    /\ WaitEndsInTime
    /\ rx \in Seq(Frames)
    /\ Waiting => ret.frame = None

LEMMA NextSocketInv == SocketInv /\ Resolving /\ [Next]_vars => SocketInv'
<1> SUFFICES ASSUME SocketInv, Resolving, [Next]_vars PROVE SocketInv'
  OBVIOUS
<1>1. TypeOK' /\ WaitEndsInTime'
  BY NextNetTypeOK, NextWaitEndsInTime DEF SocketInv
<1>2. rx' \in Seq(Frames)
  BY NextResolving DEF Resolving
<1>3. (Waiting => ret.frame = None)'
  <2>1. CASE Open \/ ArpExits
    BY <2>1 DEF Open, ArpExits, Waiting
  <2>2. CASE CallRecv \/ CallSend
    BY <2>2 DEF CallRecv, CallSend
  <2>3. CASE CallRecvNoIface \/ SendNoRoute \/ RecvDelivers \/ RecvTimesOut \/ RecvFails
             \/ ArpAnswers \/ ArpTimesOut \/ ArpFails
    <3>1. pc' = "app"
      BY <2>3 DEF CallRecvNoIface, SendNoRoute, RecvDelivers, RecvTimesOut, RecvFails,
                  ArpAnswers, ArpTimesOut, ArpFails, Returns
    <3>2. QED
      BY <3>1 DEF Waiting
  <2>4. CASE EthDrops \/ IpDrops \/ UdpDrops \/ ArpDrops \/ Arrives \/ Tick \/ UNCHANGED vars
    <3>1. pc' = pc /\ ret' = ret
      BY <2>4 DEF EthDrops, IpDrops, UdpDrops, ArpDrops, Arrives, Tick, vars
    <3>2. QED
      BY <3>1 DEF SocketInv, Waiting
  <2>5. QED
    BY <2>1, <2>2, <2>3, <2>4 DEF Next, Call, Recv, Send
<1>4. QED
  BY <1>1, <1>2, <1>3 DEF SocketInv

\* A frame taken from the queue that nobody waits for changes nothing.
LEMMA UnwantedUnseen ==
    ASSUME rx \in Seq(Frames), rx # <<>>, ~Wanted(Head(rx)), rx' = Tail(rx),
           UNCHANGED <<pc, callTimer, ret>>
    PROVE  UNCHANGED Socket!vars
<1>1. WantedOf(rx)' = WantedOf(rx)
  <2>1. WantedOf(rx') = WantedOf(rx)
    BY WantedOfRead
  <2>2. QED
    BY <2>1
<1>2. Mode' = Mode /\ Said' = Said
  BY DEF Mode, Said
<1>3. QED
  BY <1>1, <1>2 DEF Socket!vars

\* A call that ends with an error.
LEMMA FailureSeen ==
    ASSUME TypeOK, pc \in {"app", "recv", "arp"}, Returns(-1, None), rx' = rx
    PROVE  Socket!Fails
<1>1. pc' = "app" /\ ret' = [value |-> -1, frame |-> None] /\ callTimer' = Infinite
  BY DEF Returns
<1>2. Mode \in {"idle", "receiving", "sending"} /\ Mode' = "idle" /\ Said' = "error"
  BY <1>1 DEF Mode, Said
<1>3. WantedOf(rx)' = WantedOf(rx)
  OBVIOUS
<1>4. QED
  BY <1>1, <1>2, <1>3 DEF Socket!Fails, Socket!Ends, Socket!Infinite, Infinite

\* Every step of the stack is a step of the socket, or none.
LEMMA StepIsSocketStep ==
    FramesAreOwn /\ SocketInv /\ [Next]_vars => [Socket!Next]_Socket!vars
<1> SUFFICES ASSUME FramesAreOwn, SocketInv, [Next]_vars
             PROVE  Socket!Next \/ UNCHANGED Socket!vars
  OBVIOUS
<1>0. TypeOK /\ WaitEndsInTime /\ rx \in Seq(Frames) /\ (Waiting => ret.frame = None)
  BY DEF SocketInv
<1> USE DEF Socket!Next
<1>1. CASE Open
  <2>1. /\ pc = "closed" /\ pc' \in {"app", "exited"}
        /\ UNCHANGED <<rx, callTimer, ret>>
    BY <1>1 DEF Open, timers
  <2>2. Mode = "closed" /\ Mode' \in {"idle", "gone"} /\ Said' = Said
    BY <2>1 DEF Mode, Said
  <2>3. Socket!Open
    BY <2>1, <2>2 DEF Socket!Open
  <2>4. QED
    BY <2>3
<1>2. CASE ArpExits
  <2>1. pc = "app" /\ pc' = "exited" /\ UNCHANGED <<rx, callTimer, ret>>
    BY <1>2 DEF ArpExits, timers
  <2>2. Mode = "idle" /\ Mode' = "gone" /\ Said' = Said
    BY <2>1 DEF Mode, Said
  <2>3. Socket!Exit
    BY <2>1, <2>2 DEF Socket!Exit
  <2>4. QED
    BY <2>3
<1>3. CASE CallRecv
  <2>1. /\ pc = "app" /\ pc' = "recv" /\ callTimer' \in Timeouts
        /\ ret' = [value |-> 0, frame |-> None] /\ rx' = rx
    BY <1>3 DEF CallRecv
  <2>2. Mode = "idle" /\ Mode' = "receiving" /\ Said' = "nothing" /\ ret'.frame = None
    BY <2>1 DEF Mode, Said
  <2>3. Socket!Call
    BY <2>1, <2>2 DEF Socket!Call
  <2>4. QED
    BY <2>3
<1>4. CASE CallSend
  <2>1. /\ pc = "app" /\ pc' = "arp" /\ callTimer' = ArpTimeout
        /\ ret' = [value |-> 0, frame |-> None] /\ rx' = rx
    BY <1>4 DEF CallSend
  <2>2. Mode = "idle" /\ Mode' = "sending" /\ Said' = "nothing" /\ ret'.frame = None
    BY <2>1 DEF Mode, Said
  <2>3. Socket!Call
    BY <2>1, <2>2, TimesAssumption DEF Socket!Call
  <2>4. QED
    BY <2>3
<1>5. CASE CallRecvNoIface \/ SendNoRoute \/ RecvFails \/ ArpTimesOut \/ ArpFails
  <2>1. pc \in {"app", "recv", "arp"} /\ Returns(-1, None) /\ rx' = rx
    BY <1>5 DEF CallRecvNoIface, SendNoRoute, RecvFails, ArpTimesOut, ArpFails
  <2>2. QED
    BY <1>0, <2>1, FailureSeen
<1>6. CASE RecvTimesOut
  <2>1. /\ pc = "recv" /\ callTimer = 0 /\ ret.frame = None /\ rx' = rx
        /\ pc' = "app" /\ callTimer' = Infinite /\ ret' = [value |-> 0, frame |-> None]
    BY <1>0, <1>6 DEF RecvTimesOut, Returns, WaitEndsInTime, Waiting
  <2>2. Mode = "receiving" /\ Mode' = "idle" /\ Said' = "nothing"
    BY <2>1 DEF Mode, Said
  <2>3. Socket!TimesOut
    BY <2>1, <2>2 DEF Socket!TimesOut, Socket!Ends, Socket!Infinite, Infinite
  <2>4. QED
    BY <2>3
<1>7. CASE EthDrops
  <2>1. /\ rx # <<>> /\ rx' = Tail(rx) /\ UNCHANGED <<pc, callTimer, ret>>
        /\ pc \in {"recv", "arp"}
        /\ pc = "recv" => ~EthAccepts(Head(rx), "ip")
    BY <1>7 DEF EthDrops, timers, Waiting, TargetType
  <2>2. CASE Wanted(Head(rx))
    <3>1. pc = "arp"
      BY <2>1, <2>2 DEF Wanted
    <3>2. Mode = "sending" /\ Mode' = Mode /\ Said' = Said
      BY <2>1, <3>1 DEF Mode, Said
    <3>3. WantedOf(rx) # <<>> /\ WantedOf(rx') = Tail(WantedOf(rx))
      BY <1>0, <2>1, <2>2, WantedOfRead
    <3>4. Socket!Lose
      BY <2>1, <3>2, <3>3 DEF Socket!Lose
    <3>5. QED
      BY <3>4
  <2>3. CASE ~Wanted(Head(rx))
    BY <1>0, <2>1, <2>3, UnwantedUnseen
  <2>4. QED
    BY <2>2, <2>3
<1>8. CASE IpDrops \/ UdpDrops \/ ArpDrops
  <2>1. rx # <<>> /\ rx' = Tail(rx) /\ UNCHANGED <<pc, callTimer, ret>>
    BY <1>8 DEF IpDrops, UdpDrops, ArpDrops, TakesIp, TakesArp
  <2>2. ~Wanted(Head(rx))
    BY <1>8 DEF IpDrops, UdpDrops, ArpDrops, TakesArp, IpAccepts, FlagAfter, Wanted, EthAccepts
  <2>3. QED
    BY <1>0, <2>1, <2>2, UnwantedUnseen
<1>9. CASE RecvDelivers
  <2> DEFINE f == Head(rx)
  <2>1. /\ pc = "recv" /\ rx # <<>> /\ rx' = Tail(rx) /\ EthAccepts(f, "ip")
        /\ f.proto = "udp" /\ f.port = MyPort
        /\ pc' = "app" /\ callTimer' = Infinite /\ ret' = [value |-> f.len, frame |-> f]
    BY <1>9 DEF RecvDelivers, TakesIp, IpAccepts, Returns
  <2>2. f \in Frames /\ f # None
    BY <1>0, <2>1, HeadOfQueue, FramesAssumption
  <2>3. Wanted(f)
    BY <2>1, <2>2 DEF FramesAreOwn, Wanted
  <2>4. WantedOf(rx) # <<>> /\ f = Head(WantedOf(rx)) /\ WantedOf(rx') = Tail(WantedOf(rx))
    BY <1>0, <2>1, <2>3, WantedOfRead
  <2>5. ret'.frame = f /\ ret'.value = f.len /\ f.len \in Nat
    <3>1. f.type = "ip" /\ f \in IpFrame \cup ArpFrame \cup OtherFrame
      BY <2>1, <2>2, FramesAssumption DEF EthAccepts, Frame
    <3>2. f.len \in Nat
      BY <3>1 DEF IpFrame, ArpFrame, OtherFrame
    <3>3. QED
      BY <2>1, <3>2
  <2> HIDE DEF f
  <2>6. Mode = "receiving" /\ Mode' = "idle"
    BY <2>1 DEF Mode
  <2>7. Said' = IF f \in {g \in Frames : Wanted(g) /\ g.len = 0} THEN "nothing" ELSE "bytes"
    <3>1. Said' = IF f.len = 0 THEN "nothing" ELSE "bytes"
      BY <2>5 DEF Said
    <3>2. f \in {g \in Frames : Wanted(g) /\ g.len = 0} <=> f.len = 0
      BY <2>2, <2>3
    <3>3. QED
      BY <3>1, <3>2
  <2>8. Socket!Receive
    BY <2>1, <2>4, <2>5, <2>6, <2>7 DEF Socket!Receive, Socket!Ends, Socket!Infinite, Infinite
  <2>9. QED
    BY <2>8
<1>10. CASE ArpAnswers
  <2>1. /\ pc = "arp" /\ rx # <<>> /\ rx' = Tail(rx) /\ ret.frame = None
        /\ ~Wanted(Head(rx))
    BY <1>0, <1>10 DEF ArpAnswers, TakesArp, EthAccepts, Wanted, Waiting
  <2>2. WantedOf(rx') = WantedOf(rx)
    BY <1>0, <2>1, WantedOfRead
  <2>3. CASE Returns(UdpSent(sending.len), None)
    <3>1. sending.len \in Nat
      BY <1>0 DEF TypeOK
    <3>2. UdpSent(sending.len) = sending.len + 20
      BY <3>1 DEF UdpSent, UdpHeader, IpHeader
    <3>3. /\ pc' = "app" /\ callTimer' = Infinite
          /\ ret' = [value |-> sending.len + 20, frame |-> None]
      BY <2>3, <3>2 DEF Returns
    <3>4. Mode = "sending" /\ Mode' = "idle" /\ Said' = "bytes" /\ ret'.frame = None
      BY <2>1, <3>1, <3>3 DEF Mode, Said
    <3>5. Socket!Sent
      BY <2>1, <2>2, <3>3, <3>4 DEF Socket!Sent, Socket!Ends, Socket!Infinite, Infinite
    <3>6. QED
      BY <3>5
  <2>4. CASE Returns(-1, None)
    <3>1. /\ pc' = "app" /\ callTimer' = Infinite /\ ret' = [value |-> -1, frame |-> None]
      BY <2>4 DEF Returns
    <3>2. Mode = "sending" /\ Mode' = "idle" /\ Said' = "error" /\ ret'.frame = None
      BY <2>1, <3>1 DEF Mode, Said
    <3>3. Socket!Fails
      BY <2>2, <3>1, <3>2 DEF Socket!Fails, Socket!Ends, Socket!Infinite, Infinite
    <3>4. QED
      BY <3>3
  <2>5. QED
    BY <1>10, <2>3, <2>4 DEF ArpAnswers
<1>11. CASE Arrives
  <2>1. PICK f \in Frames : rx' = Append(rx, f)
    BY <1>11 DEF Arrives
  <2>2. UNCHANGED <<pc, callTimer, ret>>
    BY <1>11 DEF Arrives, timers
  <2>3. Mode' = Mode /\ Said' = Said
    BY <2>2 DEF Mode, Said
  <2>4. WantedOf(rx') = IF Wanted(f) THEN Append(WantedOf(rx), f) ELSE WantedOf(rx)
    BY <1>0, <2>1, WantedOfAppend
  <2>5. CASE Wanted(f)
    <3>1. Socket!Arrive
      BY <2>2, <2>3, <2>4, <2>5 DEF Socket!Arrive
    <3>2. QED
      BY <3>1
  <2>6. CASE ~Wanted(f)
    BY <2>2, <2>3, <2>4, <2>6 DEF Socket!vars
  <2>7. QED
    BY <2>5, <2>6
<1>12. CASE Tick
  <2>1. callTimer > 0 /\ callTimer' = callTimer - 1 /\ UNCHANGED <<pc, rx, ret>>
    BY <1>12 DEF Tick, Older
  <2>2. Mode' = Mode /\ Said' = Said
    BY <2>1 DEF Mode, Said
  <2>3. Socket!Tick
    BY <2>1, <2>2 DEF Socket!Tick
  <2>4. QED
    BY <2>3
<1>13. CASE UNCHANGED vars
  BY <1>13 DEF vars, timers, Mode, Said, Socket!vars
<1>14. QED
  BY <1>1, <1>2, <1>3, <1>4, <1>5, <1>6, <1>7, <1>8, <1>9, <1>10, <1>11, <1>12, <1>13
     DEF Next, Call, Recv, Send

LEMMA InitIsSocketInit == Init => Socket!Init
<1> SUFFICES ASSUME Init PROVE Socket!Init
  OBVIOUS
<1>1. pc = "closed" /\ rx = <<>> /\ callTimer = Infinite /\ ret = [value |-> 0, frame |-> None]
  BY DEF Init
<1>2. Mode = "closed" /\ Said = "nothing" /\ ret.frame = None
  BY <1>1 DEF Mode, Said
<1>3. WantedOf(rx) = <<>>
  <2>1. Len(rx) = 0
    BY <1>1
  <2>2. QED
    BY <2>1, KeptSteps DEF WantedOf
<1>4. QED
  BY <1>1, <1>2, <1>3 DEF Socket!Init, Socket!Infinite, Infinite

\* Whatever the other hosts send and whatever their number, udp.c with the layers
\* below it is the queue of datagrams that its callers take it for, where no
\* frame for the port is for another host: what a call returns is the length of
\* the datagram at the head of that queue, 0 only for an empty one or when its
\* time has run out (udp.c:32-101).
THEOREM StackImplementsSocket == FramesAreOwn => (Spec => ImplementsSocket)
<1> SUFFICES ASSUME FramesAreOwn PROVE Spec => ImplementsSocket
  OBVIOUS
<1>1. Init => SocketInv /\ Resolving
  <2>1. Init => WaitEndsInTime /\ (Waiting => ret.frame = None)
    BY DEF Init, WaitEndsInTime, Waiting
  <2>2. Init => Resolving
    BY EmptySeq DEF Init, Resolving, SentToNextHop
  <2>3. QED
    BY <2>1, <2>2, InitNetTypeOK DEF SocketInv, Resolving
<1>2. SocketInv /\ [Next]_vars => [Socket!Next]_Socket!vars
  BY StepIsSocketStep
<1>3. QED
  BY <1>1, <1>2, InitIsSocketInit, NextSocketInv, NextResolving, PTL
     DEF Spec, ImplementsSocket, Socket!Spec

=============================================================================
