------------------------------ MODULE MCRipHistory ------------------------------
(***************************************************************************)
(* An instance of RipHistory for TLC: one subnet, two neighbours that may  *)
(* name it twice in one response.                                          *)
(***************************************************************************)
EXTENDS RipHistory

CONSTANTS p1, a, b

Line(p, hop, m, timer) ==
    [prefix |-> p, nextHop |-> hop, metric |-> m, timer |-> timer]

OneSubnetFiles ==
    { <<>>, <<Line(p1, a, 2, 1)>>, <<BadLine>> }

=============================================================================
