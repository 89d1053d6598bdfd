---------------------------- MODULE MCToolGateway ----------------------------
(* ToolGateway for TLC: two runs, two keys, two amounts.                   *)
EXTENDS ToolGateway, TLC

CONSTANTS r1, r2, k1, k2
MCRuns == {r1, r2}
MCKeys == {k1, k2}
MCAmounts == {1, 2}
Symmetry == Permutations(MCRuns) \cup Permutations(MCKeys)
==============================================================================
