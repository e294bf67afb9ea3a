------------------------------ MODULE DumpLog ------------------------------
(***************************************************************************)
(* What dump.txt promises to those who compare two executions: dumps have  *)
(* numbers without gaps, each is announced before it is taken, none is     *)
(* announced while another one is due, and only the last may be missing.   *)
(***************************************************************************)
EXTENDS Naturals

VARIABLES
  announced,  \* the number of "### Breakpoint" lines
  dumped,     \* the number of complete dumps
  over        \* nothing is written any more

logVars == <<announced, dumped, over>>

LogInit == announced = 0 /\ dumped = 0 /\ ~over

Announced ==
  /\ ~over
  /\ announced = dumped
  /\ announced' = announced + 1
  /\ UNCHANGED <<dumped, over>>

Dumped ==
  /\ ~over
  /\ announced = dumped + 1
  /\ dumped' = announced
  /\ UNCHANGED <<announced, over>>

Closed == ~over /\ over' /\ UNCHANGED <<announced, dumped>>

LogNext == Announced \/ Dumped \/ Closed

LogSpec == LogInit /\ [][LogNext]_logVars
============================================================================
