------------------------------ MODULE DumpCall ------------------------------
(***************************************************************************)
(* The gdb script of dump.sh: when the program is stopped and dumped.      *)
(*                                                                         *)
(* There is a breakpoint at every traced function, whose commands are      *)
(* dump_call: announce the call, let it finish, go on to the end of the    *)
(* line it was made in, dump what is in scope, continue.  The script runs  *)
(* while the program is stopped; finish and next let the program run with  *)
(* all breakpoints disabled, continue lets it run with them enabled.       *)
(*                                                                         *)
(* A frame is a function and the number of its activation.  The stack      *)
(* pointer is the number of frames.  The first frame is that of the code   *)
(* which starts the program and calls main.                                *)
(***************************************************************************)
EXTENDS Naturals, Sequences, FiniteSets

CONSTANTS
  Function,  \* the functions of the program and its libraries, but main
  Traced,    \* those that match TOFILTER
  Lined,     \* those with line numbers, and so with a block
  MaxDepth,  \* bound on the frames
  MaxCalls   \* bound on the activations

ASSUME FunctionAssumption == Traced \subseteq Function /\ Lined \subseteq Function
ASSUME MainAssumption == {"start", "main"} \cap Function = {}
ASSUME BoundAssumption == MaxDepth \in Nat \ {0} /\ MaxCalls \in Nat

VARIABLES
  stack,    \* the frames of the program, <<>> when it has ended
  calls,    \* the number of activations so far
  enabled,  \* whether the breakpoints are
  pc,       \* what gdb does
  i,        \* $i
  prev,     \* whether prev_sal has a line
  upto,     \* finish and next go on to a stack of this depth
  begin,    \* stack_begin_address, 0 before main
  end,      \* stack_end_address
  call,     \* the activation that is announced
  signal,   \* a signal has stopped the program since
  missed,   \* traced activations that have not been announced
  log       \* the dumps

program == <<stack, calls>>
script == <<enabled, i, prev, upto, begin, end, call, signal>>
vars == <<stack, calls, enabled, pc, i, prev, upto, begin, end, call, signal,
          missed, log>>

Frame == [fn : Function \cup {"start", "main"}, act : Nat]

\* A dump: its number, its call, the activations until then, where it was
\* taken, and the bounds of the stack it was taken with.
DumpRecord == [num : Nat, call : Nat, made : Nat, frame : Nat, depth : Nat,
               signal : BOOLEAN, begin : Nat, end : Nat]

ProgramRuns == {"run", "finish", "next"}
GdbRuns == {"hit", "finished", "stepped", "bounded", "dump", "continue"}

Depth == Len(stack)

HasLine(fn) == fn \in Lined \cup {"main"}

Init ==
  /\ stack = <<[fn |-> "start", act |-> 0]>>
  /\ calls = 0
  /\ enabled = TRUE
  /\ pc = "run"
  /\ i = 0
  /\ prev = FALSE
  /\ upto = 0
  /\ begin = 0
  /\ end = 0
  /\ call = 0
  /\ signal = FALSE
  /\ missed = {}
  /\ log = <<>>

----------------------------------------------------------------------------
(* The program, while it runs.                                             *)

\* Mutant: an activation is known by its depth.
EntersByDepth(fn) ==
  /\ pc \in ProgramRuns
  /\ 0 < Depth /\ Depth < MaxDepth
  /\ calls < MaxCalls
  /\ calls' = Depth
  /\ stack' = Append(stack, [fn |-> fn, act |-> Depth])

Enters(fn) ==
  /\ pc \in ProgramRuns
  /\ 0 < Depth /\ Depth < MaxDepth
  /\ calls < MaxCalls
  /\ calls' = calls + 1
  /\ stack' = Append(stack, [fn |-> fn, act |-> calls + 1])

\* "break main": the bounds of the stack and of the sections, mtrace().
CallMain ==
  /\ pc = "run"
  /\ Depth = 1
  /\ begin = 0
  /\ Enters("main")
  /\ begin' = IF enabled THEN Depth + 1 ELSE begin
  /\ UNCHANGED <<enabled, pc, i, prev, upto, end, call, signal, missed, log>>

\* A traced function stops the program at its first instruction.
Call(fn) ==
  /\ fn \in Traced => Depth > 1
  /\ Enters(fn)
  /\ IF fn \in Traced /\ enabled
       THEN /\ pc' = CASE pc = "run" -> "hit"
                       [] pc = "finish" -> "finished"
                       [] pc = "next" -> "stepped"
            /\ UNCHANGED missed
       ELSE /\ missed' = IF fn \in Traced THEN missed \cup {calls + 1} ELSE missed
            /\ UNCHANGED pc
  /\ UNCHANGED <<script, log>>

\* The frames above n are left: a return, or an exception or a longjmp, which
\* gdb notices as well.  next goes on to the end of a line of the frame that is
\* reached, but stops in one without lines.
Return(n) ==
  /\ pc \in ProgramRuns
  /\ 0 < n /\ n < Depth
  /\ stack' = SubSeq(stack, 1, n)
  /\ pc' = IF pc = "finish" /\ n <= upto THEN "finished"
           ELSE IF pc = "next" /\ n < upto /\ ~HasLine(stack[n].fn) THEN "stepped"
           ELSE pc
  /\ upto' = IF pc = "next" /\ n < upto THEN n ELSE upto
  /\ UNCHANGED <<calls, enabled, i, prev, begin, end, call, signal, missed, log>>

\* next stops at the begin of a line.
LineBegins ==
  /\ pc = "next"
  /\ Depth <= upto
  /\ 0 < Depth /\ HasLine(stack[Depth].fn)
  /\ pc' = "stepped"
  /\ UNCHANGED <<program, script, missed, log>>

\* finish and next are over with any signal; if the program runs by itself the
\* script has no further command, and gdb ends with it.
Signal ==
  /\ pc \in ProgramRuns
  /\ Depth > 0
  /\ pc' = CASE pc = "run" -> "over"
             [] pc = "finish" -> "finished"
             [] pc = "next" -> "stepped"
  /\ signal' = TRUE
  /\ UNCHANGED <<program, enabled, i, prev, upto, begin, end, call, missed, log>>

Exit ==
  /\ pc \in ProgramRuns
  /\ Depth > 0
  /\ stack' = <<>>
  /\ pc' = CASE pc = "run" -> "over"
             [] pc = "finish" -> "finished"
             [] pc = "next" -> "stepped"
  /\ UNCHANGED <<calls, script, missed, log>>

----------------------------------------------------------------------------
(* dump_call                                                               *)

\* Mutant: the breakpoints stay enabled.
FinishEnabled ==
  /\ pc = "hit"
  /\ i' = i + 1
  /\ call' = stack[Depth].act
  /\ signal' = FALSE
  /\ prev' = HasLine(stack[Depth - 1].fn)
  /\ upto' = Depth - 1
  /\ pc' = "finish"
  /\ UNCHANGED <<program, enabled, begin, end, missed, log>>

\* "### Breakpoint $i", init_stack, disable, prev_sal, finish
Finish ==
  /\ pc = "hit"
  /\ i' = i + 1
  /\ call' = stack[Depth].act
  /\ signal' = FALSE
  /\ enabled' = FALSE
  /\ prev' = HasLine(stack[Depth - 1].fn)
  /\ upto' = Depth - 1
  /\ pc' = "finish"
  /\ UNCHANGED <<program, begin, end, missed, log>>

\* prev_sal == str(gdb.selected_frame().find_sal()): two frames without a line
\* are at the same one.
SameLine ==
  /\ Depth > 0
  /\ prev = HasLine(stack[Depth].fn)

\* gdb.execute('next')
StepLine ==
  /\ pc = "finished"
  /\ SameLine
  /\ upto' = Depth
  /\ pc' = "next"
  /\ UNCHANGED <<program, enabled, i, prev, begin, end, call, signal, missed, log>>

NewLine ==
  /\ pc = "finished"
  /\ Depth > 0
  /\ prev \/ HasLine(stack[Depth].fn)
  /\ pc' = "stepped"
  /\ UNCHANGED <<program, script, missed, log>>

\* Mutant: the bound is read for the first dump only.
ReadStackEndOnce ==
  /\ pc = "stepped"
  /\ Depth > 0
  /\ end' = IF end = 0 THEN Depth ELSE end
  /\ pc' = "bounded"
  /\ UNCHANGED <<program, enabled, i, prev, upto, begin, call, signal, missed, log>>

\* stack_end_address
ReadStackEnd ==
  /\ pc = "stepped"
  /\ Depth > 0
  /\ end' = Depth
  /\ pc' = "bounded"
  /\ UNCHANGED <<program, enabled, i, prev, upto, begin, call, signal, missed, log>>

\* Mutant: only the breakpoint of this call.
EnableNothing ==
  /\ pc = "bounded"
  /\ pc' = "dump"
  /\ UNCHANGED <<program, script, missed, log>>

Enable ==
  /\ pc = "bounded"
  /\ enabled' = TRUE
  /\ pc' = "dump"
  /\ UNCHANGED <<program, i, prev, upto, begin, end, call, signal, missed, log>>

\* update_mtrace, heap_dump, printVariables: frame.block() needs a block.
Dump ==
  /\ pc = "dump"
  /\ HasLine(stack[Depth].fn)
  /\ log' = Append(log, [num |-> i, call |-> call, made |-> calls,
                         frame |-> stack[Depth].act, depth |-> Depth,
                         signal |-> signal, begin |-> begin, end |-> end])
  /\ pc' = "continue"
  /\ UNCHANGED <<program, script, missed>>

\* A signal that has stopped the program is delivered now.
Continue ==
  /\ pc = "continue"
  /\ pc' = "run"
  /\ UNCHANGED <<program, script, missed, log>>

\* Mutant: an error ends the commands of this breakpoint, not gdb.
FailAndContinue ==
  /\ pc \in GdbRuns
  /\ pc' = IF Depth > 0 THEN "run" ELSE "over"
  /\ UNCHANGED <<program, script, missed, log>>

\* An error of a command or of python ends the script and gdb, and with it the
\* program: no frame is left, the frame has no block, a file cannot be written.
Fail ==
  /\ pc \in GdbRuns
  /\ pc' = "over"
  /\ UNCHANGED <<program, script, missed, log>>

\* handle_timeout of execute_tests.sh, at any time.
Killed ==
  /\ pc # "over"
  /\ pc' = "over"
  /\ UNCHANGED <<program, script, missed, log>>

Over == pc = "over" /\ UNCHANGED vars

----------------------------------------------------------------------------

ProgramStep ==
  \/ CallMain
  \/ \E fn \in Function : Call(fn)
  \/ \E n \in 1..MaxDepth : Return(n)
  \/ LineBegins
  \/ Signal
  \/ Exit

DumpStep ==
  \/ Finish
  \/ StepLine
  \/ NewLine
  \/ ReadStackEnd
  \/ Enable
  \/ Dump
  \/ Continue
  \/ Fail

Next == ProgramStep \/ DumpStep \/ Killed \/ Over

Spec == Init /\ [][Next]_vars

----------------------------------------------------------------------------
(* Properties.                                                             *)

TypeOK ==
  /\ stack \in Seq(Frame) /\ Len(stack) <= MaxDepth
  /\ calls \in 0..MaxCalls
  /\ enabled \in BOOLEAN
  /\ pc \in ProgramRuns \cup GdbRuns \cup {"over"}
  /\ i \in Nat
  /\ {upto, begin, end} \subseteq 0..MaxDepth
  /\ call \in 0..calls
  /\ prev \in BOOLEAN
  /\ signal \in BOOLEAN
  /\ missed \subseteq 1..calls
  /\ log \in Seq(DumpRecord)

\* A dump is taken when its call has returned, in the frame that made the call
\* or in one that was there before: activations are numbered, and what is still
\* on the stack with a smaller number was there at the call.  Only a signal
\* leads to a dump elsewhere.
DumpedInCaller ==
  \A k \in DOMAIN log : log[k].frame < log[k].call \/ log[k].signal

\* Once main runs, the bounds of the stack a dump goes by are those of the
\* frames that are there: none is missing, and none that was left counts.
StackKnown ==
  \A k \in DOMAIN log :
    log[k].begin > 0 => log[k].begin = 2 /\ log[k].end = log[k].depth

\* A traced call is not announced only if it is made inside another traced call
\* or behind it in the same line; it follows that call and precedes its dump.
MissedInside ==
  \A m \in missed :
    \/ \E k \in DOMAIN log : log[k].call < m /\ m <= log[k].made
    \/ Len(log) < i /\ call < m

\* The numbers are those of DumpLog.
DumpLog == INSTANCE DumpLog WITH announced <- i, dumped <- Len(log), over <- pc = "over"

\* The script implements the log of numbered dumps.
RefinesDumpLog == DumpLog!LogSpec
============================================================================
