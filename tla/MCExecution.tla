---------------------------- MODULE MCExecution ----------------------------
(* Three process ids and three generators.  Neither are compared or         *)
(* ordered anywhere, so permuting them changes nothing.                     *)
EXTENDS Execution, TLC

CONSTANTS p1, p2, p3, g1, g2, g3

MCPID == {p1, p2, p3}
MCGen == {g1, g2, g3}
MCDrivers == {[by |-> "visitor", steps |-> 3], [by |-> "run", steps |-> 2]}

MCSymmetry == Permutations(MCPID) \cup Permutations(MCGen)
=============================================================================
