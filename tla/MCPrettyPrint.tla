--------------------------- MODULE MCPrettyPrint ---------------------------
(* Small heaps of two areas for TLC.                                       *)
EXTENDS PrettyPrint, TLC

CONSTANTS a1, a2

MCArea2 == {a1, a2}
Symmetry2 == Permutations(MCArea2)
============================================================================
