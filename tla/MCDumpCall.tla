----------------------------- MODULE MCDumpCall -----------------------------
(* A traced function, one that is not, and one of a library without lines.  *)
EXTENDS DumpCall

MCFunction == {"traced", "plain", "library"}
MCTraced == {"traced"}
MCLined == {"traced", "plain"}
============================================================================
