------------------------------ MODULE ConfigFile ------------------------------
(***************************************************************************)
(* The two readers of an IPv4 configuration file in ipv4_config.c:         *)
(* ipv4_config_read, which ipv4_open calls, and ipv4_config_getip, which   *)
(* arp_client calls on the same file.                                      *)
(*                                                                         *)
(* A file is the sequence of its lines, empty ones and comments left out.  *)
(* A line names a variable and a value; "unknown" is any other name, and   *)
(* "unparsed" a line that is not two words.                                *)
(***************************************************************************)
EXTENDS Ipv4Header, FiniteSets

CONSTANTS
    Names,     \* names of interfaces
    Texts,     \* what may stand for an address
    NoName,    \* the empty name
    NoFile     \* a file that cannot be opened

Variables == {"Interface", "IPv4Address", "SubnetMask"}

Line == [var : {"Interface", "unknown", "unparsed"}, value : Names]
            \cup [var : {"IPv4Address", "SubnetMask"}, value : Texts]

File == Seq(Line)

ASSUME NamesAssumption == NoName \notin Names
ASSUME TextsAssumption == Texts \subseteq Seq(Int)
ASSUME NoFileAssumption == NoFile \notin File

\* err, the output parameters, and which of them have been read.
Nothing == [err |-> 0, ifname |-> NoName, addr |-> ZeroAddress,
            mask |-> ZeroAddress, read |-> {}]

Unreadable == [Nothing EXCEPT !.err = -1]

Reads(s, var) == [s EXCEPT !.read = @ \cup {var}]
Fails(s, err) == [s EXCEPT !.err = err]

---------------------------------------------------------------------------
(* ipv4_config_read.                                                       *)

\* One turn of the loop, which ends with the first error.  What a variable had
\* before is overwritten by a second line for it.
ReadLine(s, l) ==
    CASE s.err # 0 -> s
      [] s.err = 0 /\ l.var = "Interface" ->
            Reads([s EXCEPT !.ifname = l.value], l.var)
      [] s.err = 0 /\ l.var = "IPv4Address" ->
            IF Parses(l.value)
            THEN Reads([s EXCEPT !.addr = StrAddr(l.value)], l.var) ELSE Fails(s, -1)
      [] s.err = 0 /\ l.var = "SubnetMask" ->
            IF Parses(l.value)
            THEN Reads([s EXCEPT !.mask = StrAddr(l.value)], l.var) ELSE Fails(s, -1)
      [] OTHER -> Fails(s, -1)

\* All three variables must have been given.
ConfigRead(file) ==
    IF file = NoFile THEN Unreadable
    ELSE LET s == FoldLeft(ReadLine, Nothing, file) IN
         IF s.err = 0 /\ s.read # Variables THEN Fails(s, -1) ELSE s

---------------------------------------------------------------------------
(* ipv4_config_getip.                                                      *)

\* A line with two words that is for neither variable leaves err at 2, the
\* number sscanf returned, and so ends the loop as an error does.
GetipLine(s, l) ==
    CASE s.err # 0 -> s
      [] s.err = 0 /\ l.var = "Interface" -> Reads(s, l.var)
      [] s.err = 0 /\ l.var = "IPv4Address" ->
            IF Parses(l.value)
            THEN Reads([s EXCEPT !.addr = StrAddr(l.value)], l.var) ELSE Fails(s, -1)
      [] s.err = 0 /\ l.var = "unparsed" -> Fails(s, -1)
      [] OTHER -> Fails(s, 2)

\* Mutant: the loop ends at the line of the interface as well.
GetipStopsEarly(file) ==
    IF file = NoFile THEN Unreadable
    ELSE FoldLeft(LAMBDA s, l : IF l.var = "Interface" THEN Fails(s, 2)
                                ELSE GetipLine(s, l), Nothing, file)

ConfigGetip(file) ==
    IF file = NoFile THEN Unreadable
    ELSE LET s == FoldLeft(GetipLine, Nothing, file) IN
         IF s.err = 0 /\ s.read # {"Interface", "IPv4Address"}
         THEN Fails(s, -1) ELSE s

\* The files in which both readers come to every line of an address: they stand
\* before that of the mask, and ipv4_config_read accepts the file.
AddressFirst(file) ==
    /\ ConfigRead(file).err = 0
    /\ \A i, j \in DOMAIN file :
          (file[i].var = "IPv4Address" /\ file[j].var = "SubnetMask") => i < j

=============================================================================
