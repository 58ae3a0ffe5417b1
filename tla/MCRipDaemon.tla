------------------------------ MODULE MCRipDaemon ------------------------------
(***************************************************************************)
(* An instance of RipDaemon for TLC: two subnets, two neighbours whose     *)
(* responses have up to two entries.                                       *)
(***************************************************************************)
EXTENDS RipDaemon

CONSTANTS p1, p2, a, b

Line(p, hop, m, timer) ==
    [prefix |-> p, nextHop |-> hop, metric |-> m, timer |-> timer]

\* Nothing; two subnets; a line that cannot be parsed between two good ones;
\* one subnet listed until the table is full, and a line more.
SmallFiles ==
    { <<>>,
      <<Line(p1, a, 3, 2), Line(p2, b, Unreachable, 2)>>,
      <<Line(p2, b, 1, 1), BadLine, Line(p1, b, 1, 1)>>,
      <<Line(p1, a, 3, 1), Line(p1, b, 1, 1), Line(p1, a, 2, 1), Line(p2, a, 1, 1)>> }

=============================================================================
