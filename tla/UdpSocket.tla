-------------------------------- MODULE UdpSocket --------------------------------
(***************************************************************************)
(* What udp.c promises its callers (the RIP daemon, the UDP server and its *)
(* client), told without Ethernet, ARP, IP or frames of other programs: a  *)
(* queue of datagrams for this host and port, received in order, and two   *)
(* calls.  A send may lose what waits in the queue: it has to read the     *)
(* interface to resolve an address.                                        *)
(***************************************************************************)
EXTENDS Integers, Sequences

CONSTANTS
    Datagrams,   \* the datagrams that may come for this host and port
    Empty,       \* those of them without payload
    Timeouts,    \* the timeouts callers give to udp_recv
    Nothing      \* no datagram

Infinite == -1

VARIABLES
    mode,     \* "closed", "idle", "receiving", "sending" or "gone"
    queue,    \* the datagrams that wait
    left,     \* what is left of the timeout of the call
    got,      \* the datagram whose sender and payload the last call handed over
    result    \* what its value says: "bytes" (> 0), "nothing" (0) or "error" (-1)

vars == <<mode, queue, left, got, result>>

Init == /\ mode = "closed" /\ queue = <<>> /\ left = Infinite
        /\ got = Nothing /\ result = "nothing"

Open == /\ mode = "closed" /\ mode' \in {"idle", "gone"}
        /\ UNCHANGED <<queue, left, got, result>>

Arrive ==
    /\ \E d \in Datagrams : queue' = Append(queue, d)
    /\ UNCHANGED <<mode, left, got, result>>

\* A receive waits with the timeout of the call, a send with one of its own.
Call ==
    /\ mode = "idle"
    /\ \/ mode' = "receiving" /\ left' \in Timeouts
       \/ mode' = "sending" /\ left' \in Nat
    /\ got' = Nothing /\ result' = "nothing"
    /\ UNCHANGED queue

Ends(what) == mode' = "idle" /\ left' = Infinite /\ result' = what

\* The value is the length of the payload: of an empty datagram the caller hears
\* what it hears when nothing came, and the datagram is gone from the queue.
Receive ==
    /\ mode = "receiving" /\ queue # <<>>
    /\ got' = Head(queue)
    /\ queue' = Tail(queue)
    /\ Ends(IF Head(queue) \in Empty THEN "nothing" ELSE "bytes")

\* Without a datagram, a receive returns 0 only when its time has run out.
TimesOut ==
    /\ mode = "receiving" /\ left = 0
    /\ Ends("nothing")
    /\ UNCHANGED <<queue, got>>

\* At once, or after some wait.
Fails ==
    /\ mode \in {"idle", "receiving", "sending"}
    /\ Ends("error")
    /\ got' = Nothing
    /\ UNCHANGED queue

\* A datagram is read while the address is being resolved, and lost.
Lose ==
    /\ mode = "sending" /\ queue # <<>>
    /\ queue' = Tail(queue)
    /\ UNCHANGED <<mode, left, got, result>>

Sent ==
    /\ mode = "sending"
    /\ Ends("bytes")
    /\ UNCHANGED <<queue, got>>

Tick ==
    /\ left > 0 /\ left' = left - 1
    /\ UNCHANGED <<mode, queue, got, result>>

\* exit() in the middle of a send.
Exit ==
    /\ mode = "idle" /\ mode' = "gone"
    /\ UNCHANGED <<queue, left, got, result>>

Next == Open \/ Arrive \/ Call \/ Receive \/ TimesOut \/ Fails \/ Lose \/ Sent \/ Tick \/ Exit

Spec == Init /\ [][Next]_vars

=============================================================================
