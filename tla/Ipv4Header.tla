------------------------------ MODULE Ipv4Header ------------------------------
(***************************************************************************)
(* The pure functions of ipv4.c on addresses and headers: the parsing of   *)
(* an address, the tests for group addresses and the checksum.             *)
(*                                                                         *)
(* An address is its octets; a header is its 16-bit words.  The width of   *)
(* every integer is that of the code: an octet is a number modulo 256, a   *)
(* checksum one modulo 65536.                                              *)
(***************************************************************************)
EXTENDS Integers, Sequences, SequencesExt

Octet   == 0 .. 255
Address == [1 .. 4 -> Octet]
Word    == {n \in Nat : n < 65536}

ZeroAddress == <<0, 0, 0, 0>>

IpHeaderLength == 20

---------------------------------------------------------------------------
(* ipv4_str_addr.  A text is what sscanf reads of it with "%d.%d.%d.%d":   *)
(* the numbers before the first thing that is not one.                     *)

Parses(text) == Len(text) >= 4

\* Every number is cut to an octet, whatever its value.
StrAddr(text) == [i \in 1 .. 4 |-> text[i] % 256]

---------------------------------------------------------------------------
(* ipv4_check_multicast and ipv4_check_broadcast.                          *)

IsMulticast(a) == a[1] \in 224 .. 239
IsBroadcast(a) == \A i \in 1 .. 4 : a[i] = 255

IsGroup(a) == IsMulticast(a) \/ IsBroadcast(a)

---------------------------------------------------------------------------
(* ipv4_checksum.                                                          *)

WordSum(words) == FoldLeft(LAMBDA sum, w : sum + w, 0, words)

\* The loop that adds the carries until none is left.
Folded[sum \in Nat] ==
    IF sum < 65536 THEN sum ELSE Folded[(sum % 65536) + (sum \div 65536)]

\* Mutant: the carries added once, and what they carry in their turn lost.
CarriesLost(words) ==
    LET sum == WordSum(words)
    IN  65535 - (((sum % 65536) + (sum \div 65536)) % 65536)

Checksum(words) == 65535 - Folded[WordSum(words)]

\* The header ipv4_send makes, the field of the checksum apart: version, type of
\* service, length, identification, offset, life and protocol, addresses.
HeaderWords(len, proto, src, dst) ==
    << 17664, len, 10355, 0, 64 * 256 + proto,
       src[1] * 256 + src[2], src[3] * 256 + src[4],
       dst[1] * 256 + dst[2], dst[3] * 256 + dst[4] >>

=============================================================================
