---------------------------- MODULE MCHeapTrace ----------------------------
(* A small heap for TLC: two blocks at most, of two sizes, at addresses     *)
(* that are taken again after a free.                                       *)
EXTENDS HeapTrace

MCAddr == {0, 2, 3}
MCSize == {1, 2}
MCSite == {1, 2}
MCSiteKey == <<100, 200>>

\* One size and one site, for the longer runs with failures.
MCSize1 == {1}
MCSite1 == {1}
MCSiteKey1 == <<100>>
============================================================================
