----------------------------- MODULE MCEchoPrograms -----------------------------
(***************************************************************************)
(* An instance of EchoPrograms for TLC: the addresses are those of the     *)
(* repository's files, c2's apart, and the lengths are real.               *)
(***************************************************************************)
EXTENDS EchoPrograms, TLC

CONSTANTS srv, c1, c2,  \* hosts
          eth0          \* an interface

\* c2 is in another subnet of the wire.  The header of its request of 100 bytes
\* by UDP, and of the echo, has the sum 196606: the carries carry again.
Addresses == (srv :> <<163, 117, 144, 126>>) @@ (c1 :> <<163, 117, 144, 127>>)
                @@ (c2 :> <<163, 117, 122, 146>>)

NetMask == <<255, 255, 255, 0>>

L(var, value) == [var |-> var, value |-> value]

\* The file of the repository.
Shipped(a) == <<L("Interface", eth0), L("IPv4Address", a), L("SubnetMask", NetMask)>>

\* An old address left above the new one; the mask first; no file; a variable
\* nobody knows.
Variants(a) ==
    { Shipped(a),
      <<L("IPv4Address", <<10, 0, 0, 1>>), L("Interface", eth0),
        L("IPv4Address", a), L("SubnetMask", NetMask)>>,
      <<L("SubnetMask", NetMask), L("Interface", eth0), L("IPv4Address", a)>>,
      NoFile,
      <<L("Interface", eth0), L("unknown", eth0), L("IPv4Address", a)>> }

SomeFiles == (srv :> {Shipped(Addresses[srv])}) @@ (c1 :> Variants(Addresses[c1]))
                @@ (c2 :> {Shipped(Addresses[c2])})

ShippedFiles == [h \in {srv, c1, c2} |-> {Shipped(Addresses[h])}]

\* The server; the server by an octet that does not fit; no address at all.
SomeTargets == {<<163, 117, 144, 126>>, <<163, 117, 144, 382>>, <<163, 117>>}

AllTexts == SomeTargets \cup {NetMask, <<10, 0, 0, 1>>}
                \cup {Addresses[h] : h \in {srv, c1, c2}}

\* Not a length; nothing; the usual; the longest of an IP packet.
SomeLengths == {-1, 0, 100, 1480}

SomePatience == [l \in {"eth", "ip", "udp", "arp"} |-> IF l = "ip" THEN 2 ELSE 1]

SomeRuns == (c1 :> 2) @@ (c2 :> 1)

=============================================================================
