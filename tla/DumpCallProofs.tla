--------------------------- MODULE DumpCallProofs ---------------------------
(***************************************************************************)
(* Theorems about the gdb script, for every program, every stack and every *)
(* number of calls.                                                        *)
(***************************************************************************)
EXTENDS DumpCall, TLAPS

\* Where an announced call has not been dumped yet.
Due == {"finish", "finished", "next", "stepped", "bounded", "dump"}

\* Activations are numbered from the bottom of the stack to its top.
StackOrdered ==
  \A j, k \in 1..Len(stack) : j < k => stack[j].act < stack[k].act

ActsMade == \A k \in 1..Len(stack) : stack[k].act <= calls

\* The numbers of announcements and dumps differ by one while a dump is due.
Counted ==
  /\ pc \in Due => i = Len(log) + 1
  /\ pc \in {"run", "hit", "continue"} => i = Len(log)
  /\ pc = "over" => i \in {Len(log), Len(log) + 1}

\* The breakpoints are enabled exactly while the program runs by itself and
\* from the dump on.
Armed ==
  /\ pc \in {"run", "hit", "dump", "continue"} => enabled
  /\ pc \in {"finish", "finished", "next", "stepped", "bounded"} => ~enabled

\* The frame that finish and next go on to is older than the call.
Older ==
  /\ pc = "hit" => Depth > 1
  /\ pc \in {"finish", "next"} => 0 < upto /\ upto <= Depth
  /\ pc = "finish" => upto < Depth /\ stack[upto].act < call
  /\ pc = "next" => stack[upto].act < call \/ signal
  /\ pc \in {"finished", "stepped", "bounded", "dump"} /\ Depth > 0 =>
       stack[Depth].act < call \/ signal
  /\ pc \in {"bounded", "dump", "continue"} => Depth > 0

\* The bounds of the stack.
Bounds ==
  /\ begin \in {0, 2}
  /\ pc \in {"bounded", "dump"} => end = Depth

IInv ==
  /\ TypeOK
  /\ StackOrdered
  /\ ActsMade
  /\ Counted
  /\ Armed
  /\ Older
  /\ Bounds
  /\ DumpedInCaller
  /\ StackKnown
  /\ MissedInside

LEMMA ActsAreNumbers ==
  ASSUME TypeOK
  PROVE  \A k \in 1..Len(stack) : stack[k].act \in Nat
<1> SUFFICES ASSUME NEW k \in 1..Len(stack)
             PROVE  stack[k].act \in Nat
  OBVIOUS
<1>1. stack[k] \in Frame
  BY DEF TypeOK
<1> QED
  BY <1>1 DEF Frame

\* A call puts one frame on the stack.
LEMMA Pushed ==
  ASSUME TypeOK, NEW fn \in Function \cup {"main"}, Enters(fn)
  PROVE  /\ stack' \in Seq(Frame)
         /\ calls' = calls + 1
         /\ Len(stack') = Len(stack) + 1
         /\ \A k \in 1..Len(stack) : stack'[k] = stack[k]
         /\ stack'[Len(stack) + 1].act = calls + 1
<1> DEFINE f == [fn |-> fn, act |-> calls + 1]
<1>1. calls \in Nat /\ stack \in Seq(Frame)
  BY BoundAssumption DEF TypeOK
<1>2. f \in Frame
  BY <1>1 DEF Frame
<1>3. stack' = Append(stack, f) /\ calls' = calls + 1
  BY DEF Enters
<1>4. f.act = calls + 1
  OBVIOUS
<1> HIDE DEF f
<1> QED
  BY <1>1, <1>2, <1>3, <1>4

\* A return leaves the n frames at the bottom.
LEMMA Popped ==
  ASSUME TypeOK, NEW n \in 1..MaxDepth, Return(n)
  PROVE  /\ stack' \in Seq(Frame)
         /\ Len(stack') = n
         /\ n < Len(stack)
         /\ \A k \in 1..n : stack'[k] = stack[k]
<1>1. n \in Nat /\ stack \in Seq(Frame)
  BY BoundAssumption DEF TypeOK
<1>2. stack' = SubSeq(stack, 1, n) /\ 0 < n /\ n < Len(stack)
  BY DEF Return, Depth
<1> QED
  BY <1>1, <1>2

\* A dump is one record more.
LEMMA Logged ==
  ASSUME TypeOK, Older, Dump
  PROVE  /\ log' \in Seq(DumpRecord)
         /\ DOMAIN log' = 1..(Len(log) + 1)
         /\ Len(log') = Len(log) + 1
         /\ \A k \in DOMAIN log : k \in DOMAIN log' /\ log'[k] = log[k]
         /\ \A k \in DOMAIN log' : k \in DOMAIN log \/ k = Len(log) + 1
         /\ log'[Len(log) + 1] =
              [num |-> i, call |-> call, made |-> calls,
               frame |-> stack[Depth].act, depth |-> Depth,
               signal |-> signal, begin |-> begin, end |-> end]
<1> DEFINE r == [num |-> i, call |-> call, made |-> calls,
                 frame |-> stack[Depth].act, depth |-> Depth,
                 signal |-> signal, begin |-> begin, end |-> end]
<1>1. log' = Append(log, r) /\ log \in Seq(DumpRecord)
  BY DEF Dump, TypeOK
<1>2. Depth \in 1..Len(stack) /\ stack[Depth] \in Frame
  BY DEF Dump, Older, TypeOK, Depth
<1>3. r \in DumpRecord
  BY <1>2, BoundAssumption DEF TypeOK, Frame, DumpRecord, Depth
<1> HIDE DEF r
<1>4. /\ log' \in Seq(DumpRecord)
      /\ Len(log') = Len(log) + 1
      /\ \A k \in 1..Len(log) : log'[k] = log[k]
      /\ log'[Len(log) + 1] = r
  BY <1>1, <1>3
<1> QED
  BY <1>4, <1>1 DEF r

\* The numbers stay in order when frames come and go.
LEMMA PushKeepsOrder ==
  ASSUME IInv, NEW fn \in Function \cup {"main"}, Enters(fn)
  PROVE  StackOrdered' /\ ActsMade'
<1>1. /\ calls' = calls + 1
      /\ Len(stack') = Len(stack) + 1
      /\ \A k \in 1..Len(stack) : stack'[k] = stack[k]
      /\ stack'[Len(stack) + 1].act = calls + 1
  BY Pushed DEF IInv
<1>2. /\ calls \in Nat /\ Len(stack) \in Nat
      /\ \A k \in 1..Len(stack) : stack[k].act \in Nat
  BY ActsAreNumbers, BoundAssumption DEF IInv, TypeOK
<1>3. \A k \in 1..Len(stack) : stack[k].act <= calls
  BY DEF IInv, ActsMade
<1>4. \A j, k \in 1..Len(stack) : j < k => stack[j].act < stack[k].act
  BY DEF IInv, StackOrdered
<1>5. ActsMade'
  BY <1>1, <1>2, <1>3 DEF ActsMade
<1>6. ASSUME NEW j \in 1..Len(stack'), NEW k \in 1..Len(stack'), j < k
      PROVE  stack'[j].act < stack'[k].act
  <2>1. j \in 1..Len(stack) /\ stack'[j] = stack[j]
    BY <1>1, <1>2, <1>6
  <2>2. CASE k = Len(stack) + 1
    BY <1>1, <1>2, <1>3, <2>1, <2>2
  <2>3. CASE k \in 1..Len(stack)
    BY <1>1, <1>4, <1>6, <2>1, <2>3
  <2> QED
    BY <1>1, <1>2, <2>2, <2>3
<1> QED
  BY <1>5, <1>6 DEF StackOrdered

LEMMA PopKeepsOrder ==
  ASSUME IInv, NEW n \in 1..MaxDepth, Return(n)
  PROVE  StackOrdered'
<1>1. /\ Len(stack') = n
      /\ n < Len(stack)
      /\ \A k \in 1..n : stack'[k] = stack[k]
  BY Popped DEF IInv
<1>2. n \in Nat /\ Len(stack) \in Nat
  BY BoundAssumption DEF IInv, TypeOK
<1> QED
  BY <1>1, <1>2 DEF IInv, StackOrdered

LEMMA TypeOKStep ==
  ASSUME IInv, [Next]_vars
  PROVE  TypeOK'
<1> USE FunctionAssumption, MainAssumption, BoundAssumption
<1>1. CASE CallMain
  BY <1>1, Pushed DEF CallMain, Enters, program, script, Depth, IInv, TypeOK, Older, Frame, DumpRecord, ProgramRuns, GdbRuns, HasLine
<1>2. ASSUME NEW fn \in Function, Call(fn) PROVE  TypeOK'
  <2>1. Enters(fn) /\ TypeOK
    BY <1>2 DEF Call, IInv
  <2>2. /\ stack' \in Seq(Frame) /\ calls' = calls + 1
        /\ Len(stack') = Len(stack) + 1 /\ Len(stack') <= MaxDepth
        /\ calls' \in 0..MaxCalls
    BY <2>1, Pushed DEF Enters, TypeOK, Depth
  <2>3. missed' \subseteq 1..calls' /\ call' \in 0..calls'
    BY <1>2, <2>1, <2>2 DEF Call, Enters, TypeOK, script
  <2>4. pc' \in ProgramRuns \cup GdbRuns \cup {"over"}
    BY <1>2, <2>1 DEF Call, Enters, TypeOK, ProgramRuns, GdbRuns
  <2>5. UNCHANGED <<script, log>>
    BY <1>2 DEF Call
  <2> QED
    BY <2>1, <2>2, <2>3, <2>4, <2>5 DEF TypeOK, script
<1>3. ASSUME NEW n \in 1..MaxDepth, Return(n) PROVE  TypeOK'
  BY <1>3, Popped DEF Return, program, script, Depth, IInv, TypeOK, Older, Frame, DumpRecord, ProgramRuns, GdbRuns, HasLine
<1>4. CASE LineBegins
  BY <1>4 DEF LineBegins, program, script, Depth, IInv, TypeOK, Older, Frame, DumpRecord, ProgramRuns, GdbRuns, HasLine
<1>5. CASE Signal
  BY <1>5 DEF Signal, program, script, Depth, IInv, TypeOK, Older, Frame, DumpRecord, ProgramRuns, GdbRuns, HasLine
<1>6. CASE Exit
  BY <1>6 DEF Exit, program, script, Depth, IInv, TypeOK, Older, Frame, DumpRecord, ProgramRuns, GdbRuns, HasLine
<1>7. CASE Finish
  <2>1. Depth \in 1..Len(stack) /\ Depth > 1 /\ Depth - 1 \in 0..MaxDepth
    BY <1>7 DEF Finish, IInv, TypeOK, Older, Depth
  <2>2. stack[Depth].act \in 0..calls
    BY <2>1, ActsAreNumbers DEF IInv, TypeOK, ActsMade
  <2>3. HasLine(stack[Depth - 1].fn) \in BOOLEAN
    BY DEF HasLine
  <2>4. prev' \in BOOLEAN /\ enabled' \in BOOLEAN /\ signal' \in BOOLEAN
    BY <1>7, <2>3, Zenon DEF Finish
  <2>5. call' \in 0..calls /\ upto' \in 0..MaxDepth /\ i' \in Nat /\ pc' = "finish"
    BY <1>7, <2>1, <2>2 DEF Finish, IInv, TypeOK
  <2>6. UNCHANGED <<program, begin, end, missed, log>>
    BY <1>7 DEF Finish
  <2> QED
    BY <2>4, <2>5, <2>6 DEF program, IInv, TypeOK, ProgramRuns
<1>8. CASE StepLine
  BY <1>8 DEF StepLine, SameLine, program, script, Depth, IInv, TypeOK, Older, Frame, DumpRecord, ProgramRuns, GdbRuns, HasLine
<1>9. CASE NewLine
  BY <1>9 DEF NewLine, program, script, Depth, IInv, TypeOK, Older, Frame, DumpRecord, ProgramRuns, GdbRuns, HasLine
<1>10. CASE ReadStackEnd
  BY <1>10 DEF ReadStackEnd, program, script, Depth, IInv, TypeOK, Older, Frame, DumpRecord, ProgramRuns, GdbRuns, HasLine
<1>11. CASE Enable
  BY <1>11 DEF Enable, program, script, Depth, IInv, TypeOK, Older, Frame, DumpRecord, ProgramRuns, GdbRuns, HasLine
<1>12. CASE Dump
  BY <1>12, Logged DEF Dump, program, script, Depth, IInv, TypeOK, Older, Frame, DumpRecord, ProgramRuns, GdbRuns, HasLine
<1>13. CASE Continue
  BY <1>13 DEF Continue, program, script, Depth, IInv, TypeOK, Older, Frame, DumpRecord, ProgramRuns, GdbRuns, HasLine
<1>14. CASE Fail
  BY <1>14 DEF Fail, program, script, Depth, IInv, TypeOK, Older, Frame, DumpRecord, ProgramRuns, GdbRuns, HasLine
<1>15. CASE Killed
  BY <1>15 DEF Killed, program, script, Depth, IInv, TypeOK, Older, Frame, DumpRecord, ProgramRuns, GdbRuns, HasLine
<1>16. CASE UNCHANGED vars
  BY <1>16 DEF vars, program, script, Depth, IInv, TypeOK, Older, Frame, DumpRecord, ProgramRuns, GdbRuns, HasLine
<1> QED
  BY <1>1, <1>2, <1>3, <1>4, <1>5, <1>6, <1>7, <1>8, <1>9, <1>10, <1>11, <1>12, <1>13, <1>14, <1>15, <1>16 DEF Next, ProgramStep, DumpStep, Over

LEMMA StackOrderedStep ==
  ASSUME IInv, [Next]_vars
  PROVE  StackOrdered'
<1> USE FunctionAssumption, MainAssumption, BoundAssumption
<1>1. CASE CallMain
  BY <1>1, PushKeepsOrder DEF CallMain
<1>2. ASSUME NEW fn \in Function, Call(fn) PROVE  StackOrdered'
  BY <1>2, PushKeepsOrder DEF Call
<1>3. ASSUME NEW n \in 1..MaxDepth, Return(n) PROVE  StackOrdered'
  BY <1>3, PopKeepsOrder
<1>4. CASE LineBegins
  BY <1>4 DEF LineBegins, program, script, Depth, IInv, TypeOK, StackOrdered, ActsMade, Frame
<1>5. CASE Signal
  BY <1>5 DEF Signal, program, script, Depth, IInv, TypeOK, StackOrdered, ActsMade, Frame
<1>6. CASE Exit
  BY <1>6 DEF Exit, program, script, Depth, IInv, TypeOK, StackOrdered, ActsMade, Frame
<1>7. CASE Finish
  BY <1>7 DEF Finish, program, script, Depth, IInv, TypeOK, StackOrdered, ActsMade, Frame
<1>8. CASE StepLine
  BY <1>8 DEF StepLine, SameLine, program, script, Depth, IInv, TypeOK, StackOrdered, ActsMade, Frame
<1>9. CASE NewLine
  BY <1>9 DEF NewLine, program, script, Depth, IInv, TypeOK, StackOrdered, ActsMade, Frame
<1>10. CASE ReadStackEnd
  BY <1>10 DEF ReadStackEnd, program, script, Depth, IInv, TypeOK, StackOrdered, ActsMade, Frame
<1>11. CASE Enable
  BY <1>11 DEF Enable, program, script, Depth, IInv, TypeOK, StackOrdered, ActsMade, Frame
<1>12. CASE Dump
  BY <1>12 DEF Dump, program, script, Depth, IInv, TypeOK, StackOrdered, ActsMade, Frame
<1>13. CASE Continue
  BY <1>13 DEF Continue, program, script, Depth, IInv, TypeOK, StackOrdered, ActsMade, Frame
<1>14. CASE Fail
  BY <1>14 DEF Fail, program, script, Depth, IInv, TypeOK, StackOrdered, ActsMade, Frame
<1>15. CASE Killed
  BY <1>15 DEF Killed, program, script, Depth, IInv, TypeOK, StackOrdered, ActsMade, Frame
<1>16. CASE UNCHANGED vars
  BY <1>16 DEF vars, program, script, Depth, IInv, TypeOK, StackOrdered, ActsMade, Frame
<1> QED
  BY <1>1, <1>2, <1>3, <1>4, <1>5, <1>6, <1>7, <1>8, <1>9, <1>10, <1>11, <1>12, <1>13, <1>14, <1>15, <1>16 DEF Next, ProgramStep, DumpStep, Over

LEMMA ActsMadeStep ==
  ASSUME IInv, [Next]_vars
  PROVE  ActsMade'
<1> USE FunctionAssumption, MainAssumption, BoundAssumption
<1>1. CASE CallMain
  BY <1>1, PushKeepsOrder DEF CallMain
<1>2. ASSUME NEW fn \in Function, Call(fn) PROVE  ActsMade'
  BY <1>2, PushKeepsOrder DEF Call
<1>3. ASSUME NEW n \in 1..MaxDepth, Return(n) PROVE  ActsMade'
  BY <1>3, Popped DEF Return, program, script, Depth, IInv, TypeOK, ActsMade, Frame
<1>4. CASE LineBegins
  BY <1>4 DEF LineBegins, program, script, Depth, IInv, TypeOK, ActsMade, Frame
<1>5. CASE Signal
  BY <1>5 DEF Signal, program, script, Depth, IInv, TypeOK, ActsMade, Frame
<1>6. CASE Exit
  BY <1>6 DEF Exit, program, script, Depth, IInv, TypeOK, ActsMade, Frame
<1>7. CASE Finish
  BY <1>7 DEF Finish, program, script, Depth, IInv, TypeOK, ActsMade, Frame
<1>8. CASE StepLine
  BY <1>8 DEF StepLine, SameLine, program, script, Depth, IInv, TypeOK, ActsMade, Frame
<1>9. CASE NewLine
  BY <1>9 DEF NewLine, program, script, Depth, IInv, TypeOK, ActsMade, Frame
<1>10. CASE ReadStackEnd
  BY <1>10 DEF ReadStackEnd, program, script, Depth, IInv, TypeOK, ActsMade, Frame
<1>11. CASE Enable
  BY <1>11 DEF Enable, program, script, Depth, IInv, TypeOK, ActsMade, Frame
<1>12. CASE Dump
  BY <1>12 DEF Dump, program, script, Depth, IInv, TypeOK, ActsMade, Frame
<1>13. CASE Continue
  BY <1>13 DEF Continue, program, script, Depth, IInv, TypeOK, ActsMade, Frame
<1>14. CASE Fail
  BY <1>14 DEF Fail, program, script, Depth, IInv, TypeOK, ActsMade, Frame
<1>15. CASE Killed
  BY <1>15 DEF Killed, program, script, Depth, IInv, TypeOK, ActsMade, Frame
<1>16. CASE UNCHANGED vars
  BY <1>16 DEF vars, program, script, Depth, IInv, TypeOK, ActsMade, Frame
<1> QED
  BY <1>1, <1>2, <1>3, <1>4, <1>5, <1>6, <1>7, <1>8, <1>9, <1>10, <1>11, <1>12, <1>13, <1>14, <1>15, <1>16 DEF Next, ProgramStep, DumpStep, Over

LEMMA CountedStep ==
  ASSUME IInv, [Next]_vars
  PROVE  Counted'
<1> USE FunctionAssumption, MainAssumption, BoundAssumption
<1>1. CASE CallMain
  BY <1>1 DEF CallMain, Enters, program, script, Depth, IInv, TypeOK, Counted, Due, Armed, Older, ProgramRuns, GdbRuns, DumpRecord
<1>2. ASSUME NEW fn \in Function, Call(fn) PROVE  Counted'
  BY <1>2 DEF Call, Enters, program, script, Depth, IInv, TypeOK, Counted, Due, Armed, Older, ProgramRuns, GdbRuns, DumpRecord
<1>3. ASSUME NEW n \in 1..MaxDepth, Return(n) PROVE  Counted'
  BY <1>3 DEF Return, program, script, Depth, IInv, TypeOK, Counted, Due, Armed, Older, ProgramRuns, GdbRuns, DumpRecord
<1>4. CASE LineBegins
  BY <1>4 DEF LineBegins, program, script, Depth, IInv, TypeOK, Counted, Due, Armed, Older, ProgramRuns, GdbRuns, DumpRecord
<1>5. CASE Signal
  BY <1>5 DEF Signal, program, script, Depth, IInv, TypeOK, Counted, Due, Armed, Older, ProgramRuns, GdbRuns, DumpRecord
<1>6. CASE Exit
  BY <1>6 DEF Exit, program, script, Depth, IInv, TypeOK, Counted, Due, Armed, Older, ProgramRuns, GdbRuns, DumpRecord
<1>7. CASE Finish
  BY <1>7 DEF Finish, program, script, Depth, IInv, TypeOK, Counted, Due, Armed, Older, ProgramRuns, GdbRuns, DumpRecord
<1>8. CASE StepLine
  BY <1>8 DEF StepLine, SameLine, program, script, Depth, IInv, TypeOK, Counted, Due, Armed, Older, ProgramRuns, GdbRuns, DumpRecord
<1>9. CASE NewLine
  BY <1>9 DEF NewLine, program, script, Depth, IInv, TypeOK, Counted, Due, Armed, Older, ProgramRuns, GdbRuns, DumpRecord
<1>10. CASE ReadStackEnd
  BY <1>10 DEF ReadStackEnd, program, script, Depth, IInv, TypeOK, Counted, Due, Armed, Older, ProgramRuns, GdbRuns, DumpRecord
<1>11. CASE Enable
  BY <1>11 DEF Enable, program, script, Depth, IInv, TypeOK, Counted, Due, Armed, Older, ProgramRuns, GdbRuns, DumpRecord
<1>12. CASE Dump
  BY <1>12, Logged DEF Dump, program, script, Depth, IInv, TypeOK, Counted, Due, Armed, Older, ProgramRuns, GdbRuns, DumpRecord
<1>13. CASE Continue
  BY <1>13 DEF Continue, program, script, Depth, IInv, TypeOK, Counted, Due, Armed, Older, ProgramRuns, GdbRuns, DumpRecord
<1>14. CASE Fail
  BY <1>14 DEF Fail, program, script, Depth, IInv, TypeOK, Counted, Due, Armed, Older, ProgramRuns, GdbRuns, DumpRecord
<1>15. CASE Killed
  BY <1>15 DEF Killed, program, script, Depth, IInv, TypeOK, Counted, Due, Armed, Older, ProgramRuns, GdbRuns, DumpRecord
<1>16. CASE UNCHANGED vars
  BY <1>16 DEF vars, program, script, Depth, IInv, TypeOK, Counted, Due, Armed, Older, ProgramRuns, GdbRuns, DumpRecord
<1> QED
  BY <1>1, <1>2, <1>3, <1>4, <1>5, <1>6, <1>7, <1>8, <1>9, <1>10, <1>11, <1>12, <1>13, <1>14, <1>15, <1>16 DEF Next, ProgramStep, DumpStep, Over

LEMMA ArmedStep ==
  ASSUME IInv, [Next]_vars
  PROVE  Armed'
<1> USE FunctionAssumption, MainAssumption, BoundAssumption
<1>1. CASE CallMain
  BY <1>1 DEF CallMain, Enters, program, script, Depth, IInv, TypeOK, Armed, Older, ProgramRuns, GdbRuns
<1>2. ASSUME NEW fn \in Function, Call(fn) PROVE  Armed'
  BY <1>2 DEF Call, Enters, program, script, Depth, IInv, TypeOK, Armed, Older, ProgramRuns, GdbRuns
<1>3. ASSUME NEW n \in 1..MaxDepth, Return(n) PROVE  Armed'
  BY <1>3 DEF Return, program, script, Depth, IInv, TypeOK, Armed, Older, ProgramRuns, GdbRuns
<1>4. CASE LineBegins
  BY <1>4 DEF LineBegins, program, script, Depth, IInv, TypeOK, Armed, Older, ProgramRuns, GdbRuns
<1>5. CASE Signal
  BY <1>5 DEF Signal, program, script, Depth, IInv, TypeOK, Armed, Older, ProgramRuns, GdbRuns
<1>6. CASE Exit
  BY <1>6 DEF Exit, program, script, Depth, IInv, TypeOK, Armed, Older, ProgramRuns, GdbRuns
<1>7. CASE Finish
  BY <1>7 DEF Finish, program, script, Depth, IInv, TypeOK, Armed, Older, ProgramRuns, GdbRuns
<1>8. CASE StepLine
  BY <1>8 DEF StepLine, SameLine, program, script, Depth, IInv, TypeOK, Armed, Older, ProgramRuns, GdbRuns
<1>9. CASE NewLine
  BY <1>9 DEF NewLine, program, script, Depth, IInv, TypeOK, Armed, Older, ProgramRuns, GdbRuns
<1>10. CASE ReadStackEnd
  BY <1>10 DEF ReadStackEnd, program, script, Depth, IInv, TypeOK, Armed, Older, ProgramRuns, GdbRuns
<1>11. CASE Enable
  BY <1>11 DEF Enable, program, script, Depth, IInv, TypeOK, Armed, Older, ProgramRuns, GdbRuns
<1>12. CASE Dump
  BY <1>12 DEF Dump, program, script, Depth, IInv, TypeOK, Armed, Older, ProgramRuns, GdbRuns
<1>13. CASE Continue
  BY <1>13 DEF Continue, program, script, Depth, IInv, TypeOK, Armed, Older, ProgramRuns, GdbRuns
<1>14. CASE Fail
  BY <1>14 DEF Fail, program, script, Depth, IInv, TypeOK, Armed, Older, ProgramRuns, GdbRuns
<1>15. CASE Killed
  BY <1>15 DEF Killed, program, script, Depth, IInv, TypeOK, Armed, Older, ProgramRuns, GdbRuns
<1>16. CASE UNCHANGED vars
  BY <1>16 DEF vars, program, script, Depth, IInv, TypeOK, Armed, Older, ProgramRuns, GdbRuns
<1> QED
  BY <1>1, <1>2, <1>3, <1>4, <1>5, <1>6, <1>7, <1>8, <1>9, <1>10, <1>11, <1>12, <1>13, <1>14, <1>15, <1>16 DEF Next, ProgramStep, DumpStep, Over

LEMMA OlderStep ==
  ASSUME IInv, [Next]_vars
  PROVE  Older'
<1> USE FunctionAssumption, MainAssumption, BoundAssumption
<1>1. CASE CallMain
  BY <1>1 DEF CallMain, Enters, program, script, Depth, IInv, TypeOK, StackOrdered, ActsMade, Armed, Older, Frame, ProgramRuns, GdbRuns
<1>2. ASSUME NEW fn \in Function, Call(fn) PROVE  Older'
  BY <1>2 DEF Call, Enters, program, script, Depth, IInv, TypeOK, StackOrdered, ActsMade, Armed, Older, Frame, ProgramRuns, GdbRuns
<1>3. ASSUME NEW n \in 1..MaxDepth, Return(n) PROVE  Older'
  <2>1. /\ Len(stack') = n /\ n < Len(stack)
        /\ \A k \in 1..n : stack'[k] = stack[k]
    BY <1>3, Popped DEF IInv
  <2>2. /\ n \in Nat /\ Len(stack) \in Nat /\ upto \in Nat /\ call \in Nat
        /\ \A k \in 1..Len(stack) : stack[k].act \in Nat
    BY ActsAreNumbers, BoundAssumption DEF IInv, TypeOK
  <2>3. \A j, k \in 1..Len(stack) : j < k => stack[j].act < stack[k].act
    BY DEF IInv, StackOrdered
  <2>4. CASE pc = "run"
    BY <1>3, <2>4 DEF Return, Older
  <2>5. CASE pc = "finish"
    <3>1. upto < Len(stack) /\ 0 < upto /\ stack[upto].act < call
      BY <2>5 DEF IInv, Older, Depth
    <3>2. CASE n <= upto
      <4>1. stack[n].act < call
        BY <2>1, <2>2, <2>3, <3>1, <3>2
      <4> QED
        BY <1>3, <2>1, <2>2, <2>5, <3>2, <4>1 DEF Return, Older, Depth
    <3>3. CASE ~(n <= upto)
      BY <1>3, <2>1, <2>2, <2>5, <3>1, <3>3 DEF Return, Older, Depth
    <3> QED
      BY <3>2, <3>3
  <2>6. CASE pc = "next"
    <3>1. upto <= Len(stack) /\ 0 < upto /\ (stack[upto].act < call \/ signal)
      BY <2>6 DEF IInv, Older, Depth
    <3>2. CASE n < upto
      <4>1. stack[n].act < call \/ signal
        BY <2>1, <2>2, <2>3, <3>1, <3>2
      <4> QED
        BY <1>3, <2>1, <2>2, <2>6, <3>2, <4>1 DEF Return, Older, Depth
    <3>3. CASE ~(n < upto)
      BY <1>3, <2>1, <2>2, <2>6, <3>1, <3>3 DEF Return, Older, Depth
    <3> QED
      BY <3>2, <3>3
  <2> QED
    BY <1>3, <2>4, <2>5, <2>6 DEF Return, ProgramRuns
<1>4. CASE LineBegins
  BY <1>4 DEF LineBegins, program, script, Depth, IInv, TypeOK, StackOrdered, ActsMade, Armed, Older, Frame, ProgramRuns, GdbRuns
<1>5. CASE Signal
  BY <1>5 DEF Signal, program, script, Depth, IInv, TypeOK, StackOrdered, ActsMade, Armed, Older, Frame, ProgramRuns, GdbRuns
<1>6. CASE Exit
  BY <1>6 DEF Exit, program, script, Depth, IInv, TypeOK, StackOrdered, ActsMade, Armed, Older, Frame, ProgramRuns, GdbRuns
<1>7. CASE Finish
  BY <1>7 DEF Finish, program, script, Depth, IInv, TypeOK, StackOrdered, ActsMade, Armed, Older, Frame, ProgramRuns, GdbRuns
<1>8. CASE StepLine
  BY <1>8 DEF StepLine, SameLine, program, script, Depth, IInv, TypeOK, StackOrdered, ActsMade, Armed, Older, Frame, ProgramRuns, GdbRuns
<1>9. CASE NewLine
  BY <1>9 DEF NewLine, program, script, Depth, IInv, TypeOK, StackOrdered, ActsMade, Armed, Older, Frame, ProgramRuns, GdbRuns
<1>10. CASE ReadStackEnd
  BY <1>10 DEF ReadStackEnd, program, script, Depth, IInv, TypeOK, StackOrdered, ActsMade, Armed, Older, Frame, ProgramRuns, GdbRuns
<1>11. CASE Enable
  BY <1>11 DEF Enable, program, script, Depth, IInv, TypeOK, StackOrdered, ActsMade, Armed, Older, Frame, ProgramRuns, GdbRuns
<1>12. CASE Dump
  BY <1>12 DEF Dump, program, script, Depth, IInv, TypeOK, StackOrdered, ActsMade, Armed, Older, Frame, ProgramRuns, GdbRuns
<1>13. CASE Continue
  BY <1>13 DEF Continue, program, script, Depth, IInv, TypeOK, StackOrdered, ActsMade, Armed, Older, Frame, ProgramRuns, GdbRuns
<1>14. CASE Fail
  BY <1>14 DEF Fail, program, script, Depth, IInv, TypeOK, StackOrdered, ActsMade, Armed, Older, Frame, ProgramRuns, GdbRuns
<1>15. CASE Killed
  BY <1>15 DEF Killed, program, script, Depth, IInv, TypeOK, StackOrdered, ActsMade, Armed, Older, Frame, ProgramRuns, GdbRuns
<1>16. CASE UNCHANGED vars
  BY <1>16 DEF vars, program, script, Depth, IInv, TypeOK, StackOrdered, ActsMade, Armed, Older, Frame, ProgramRuns, GdbRuns
<1> QED
  BY <1>1, <1>2, <1>3, <1>4, <1>5, <1>6, <1>7, <1>8, <1>9, <1>10, <1>11, <1>12, <1>13, <1>14, <1>15, <1>16 DEF Next, ProgramStep, DumpStep, Over

LEMMA BoundsStep ==
  ASSUME IInv, [Next]_vars
  PROVE  Bounds'
<1> USE FunctionAssumption, MainAssumption, BoundAssumption
<1>1. CASE CallMain
  BY <1>1 DEF CallMain, Enters, program, script, Depth, IInv, TypeOK, Bounds, ProgramRuns, GdbRuns
<1>2. ASSUME NEW fn \in Function, Call(fn) PROVE  Bounds'
  BY <1>2 DEF Call, Enters, program, script, Depth, IInv, TypeOK, Bounds, ProgramRuns, GdbRuns
<1>3. ASSUME NEW n \in 1..MaxDepth, Return(n) PROVE  Bounds'
  BY <1>3 DEF Return, program, script, Depth, IInv, TypeOK, Bounds, ProgramRuns, GdbRuns
<1>4. CASE LineBegins
  BY <1>4 DEF LineBegins, program, script, Depth, IInv, TypeOK, Bounds, ProgramRuns, GdbRuns
<1>5. CASE Signal
  BY <1>5 DEF Signal, program, script, Depth, IInv, TypeOK, Bounds, ProgramRuns, GdbRuns
<1>6. CASE Exit
  BY <1>6 DEF Exit, program, script, Depth, IInv, TypeOK, Bounds, ProgramRuns, GdbRuns
<1>7. CASE Finish
  BY <1>7 DEF Finish, program, script, Depth, IInv, TypeOK, Bounds, ProgramRuns, GdbRuns
<1>8. CASE StepLine
  BY <1>8 DEF StepLine, SameLine, program, script, Depth, IInv, TypeOK, Bounds, ProgramRuns, GdbRuns
<1>9. CASE NewLine
  BY <1>9 DEF NewLine, program, script, Depth, IInv, TypeOK, Bounds, ProgramRuns, GdbRuns
<1>10. CASE ReadStackEnd
  BY <1>10 DEF ReadStackEnd, program, script, Depth, IInv, TypeOK, Bounds, ProgramRuns, GdbRuns
<1>11. CASE Enable
  BY <1>11 DEF Enable, program, script, Depth, IInv, TypeOK, Bounds, ProgramRuns, GdbRuns
<1>12. CASE Dump
  BY <1>12 DEF Dump, program, script, Depth, IInv, TypeOK, Bounds, ProgramRuns, GdbRuns
<1>13. CASE Continue
  BY <1>13 DEF Continue, program, script, Depth, IInv, TypeOK, Bounds, ProgramRuns, GdbRuns
<1>14. CASE Fail
  BY <1>14 DEF Fail, program, script, Depth, IInv, TypeOK, Bounds, ProgramRuns, GdbRuns
<1>15. CASE Killed
  BY <1>15 DEF Killed, program, script, Depth, IInv, TypeOK, Bounds, ProgramRuns, GdbRuns
<1>16. CASE UNCHANGED vars
  BY <1>16 DEF vars, program, script, Depth, IInv, TypeOK, Bounds, ProgramRuns, GdbRuns
<1> QED
  BY <1>1, <1>2, <1>3, <1>4, <1>5, <1>6, <1>7, <1>8, <1>9, <1>10, <1>11, <1>12, <1>13, <1>14, <1>15, <1>16 DEF Next, ProgramStep, DumpStep, Over

LEMMA DumpedInCallerStep ==
  ASSUME IInv, [Next]_vars
  PROVE  DumpedInCaller'
<1> USE FunctionAssumption, MainAssumption, BoundAssumption
<1>1. CASE CallMain
  BY <1>1 DEF CallMain, Enters, program, script, Depth, IInv, TypeOK, DumpedInCaller, Older, DumpRecord
<1>2. ASSUME NEW fn \in Function, Call(fn) PROVE  DumpedInCaller'
  BY <1>2 DEF Call, Enters, program, script, Depth, IInv, TypeOK, DumpedInCaller, Older, DumpRecord
<1>3. ASSUME NEW n \in 1..MaxDepth, Return(n) PROVE  DumpedInCaller'
  BY <1>3 DEF Return, program, script, Depth, IInv, TypeOK, DumpedInCaller, Older, DumpRecord
<1>4. CASE LineBegins
  BY <1>4 DEF LineBegins, program, script, Depth, IInv, TypeOK, DumpedInCaller, Older, DumpRecord
<1>5. CASE Signal
  BY <1>5 DEF Signal, program, script, Depth, IInv, TypeOK, DumpedInCaller, Older, DumpRecord
<1>6. CASE Exit
  BY <1>6 DEF Exit, program, script, Depth, IInv, TypeOK, DumpedInCaller, Older, DumpRecord
<1>7. CASE Finish
  BY <1>7 DEF Finish, program, script, Depth, IInv, TypeOK, DumpedInCaller, Older, DumpRecord
<1>8. CASE StepLine
  BY <1>8 DEF StepLine, SameLine, program, script, Depth, IInv, TypeOK, DumpedInCaller, Older, DumpRecord
<1>9. CASE NewLine
  BY <1>9 DEF NewLine, program, script, Depth, IInv, TypeOK, DumpedInCaller, Older, DumpRecord
<1>10. CASE ReadStackEnd
  BY <1>10 DEF ReadStackEnd, program, script, Depth, IInv, TypeOK, DumpedInCaller, Older, DumpRecord
<1>11. CASE Enable
  BY <1>11 DEF Enable, program, script, Depth, IInv, TypeOK, DumpedInCaller, Older, DumpRecord
<1>12. CASE Dump
  <2>1. /\ \A k \in DOMAIN log : log'[k] = log[k]
        /\ \A k \in DOMAIN log' : k \in DOMAIN log \/ k = Len(log) + 1
        /\ log'[Len(log) + 1] =
             [num |-> i, call |-> call, made |-> calls,
              frame |-> stack[Depth].act, depth |-> Depth,
              signal |-> signal, begin |-> begin, end |-> end]
    BY <1>12, Logged DEF IInv
  <2>2. DumpedInCaller /\ (stack[Depth].act < call \/ signal)
    BY <1>12 DEF Dump, IInv, Older, Depth
  <2> QED
    BY <2>1, <2>2 DEF DumpedInCaller
<1>13. CASE Continue
  BY <1>13 DEF Continue, program, script, Depth, IInv, TypeOK, DumpedInCaller, Older, DumpRecord
<1>14. CASE Fail
  BY <1>14 DEF Fail, program, script, Depth, IInv, TypeOK, DumpedInCaller, Older, DumpRecord
<1>15. CASE Killed
  BY <1>15 DEF Killed, program, script, Depth, IInv, TypeOK, DumpedInCaller, Older, DumpRecord
<1>16. CASE UNCHANGED vars
  BY <1>16 DEF vars, program, script, Depth, IInv, TypeOK, DumpedInCaller, Older, DumpRecord
<1> QED
  BY <1>1, <1>2, <1>3, <1>4, <1>5, <1>6, <1>7, <1>8, <1>9, <1>10, <1>11, <1>12, <1>13, <1>14, <1>15, <1>16 DEF Next, ProgramStep, DumpStep, Over

LEMMA StackKnownStep ==
  ASSUME IInv, [Next]_vars
  PROVE  StackKnown'
<1> USE FunctionAssumption, MainAssumption, BoundAssumption
<1>1. CASE CallMain
  BY <1>1 DEF CallMain, Enters, program, script, Depth, IInv, TypeOK, StackKnown, Bounds, DumpRecord
<1>2. ASSUME NEW fn \in Function, Call(fn) PROVE  StackKnown'
  BY <1>2 DEF Call, Enters, program, script, Depth, IInv, TypeOK, StackKnown, Bounds, DumpRecord
<1>3. ASSUME NEW n \in 1..MaxDepth, Return(n) PROVE  StackKnown'
  BY <1>3 DEF Return, program, script, Depth, IInv, TypeOK, StackKnown, Bounds, DumpRecord
<1>4. CASE LineBegins
  BY <1>4 DEF LineBegins, program, script, Depth, IInv, TypeOK, StackKnown, Bounds, DumpRecord
<1>5. CASE Signal
  BY <1>5 DEF Signal, program, script, Depth, IInv, TypeOK, StackKnown, Bounds, DumpRecord
<1>6. CASE Exit
  BY <1>6 DEF Exit, program, script, Depth, IInv, TypeOK, StackKnown, Bounds, DumpRecord
<1>7. CASE Finish
  BY <1>7 DEF Finish, program, script, Depth, IInv, TypeOK, StackKnown, Bounds, DumpRecord
<1>8. CASE StepLine
  BY <1>8 DEF StepLine, SameLine, program, script, Depth, IInv, TypeOK, StackKnown, Bounds, DumpRecord
<1>9. CASE NewLine
  BY <1>9 DEF NewLine, program, script, Depth, IInv, TypeOK, StackKnown, Bounds, DumpRecord
<1>10. CASE ReadStackEnd
  BY <1>10 DEF ReadStackEnd, program, script, Depth, IInv, TypeOK, StackKnown, Bounds, DumpRecord
<1>11. CASE Enable
  BY <1>11 DEF Enable, program, script, Depth, IInv, TypeOK, StackKnown, Bounds, DumpRecord
<1>12. CASE Dump
  <2>1. /\ \A k \in DOMAIN log : log'[k] = log[k]
        /\ \A k \in DOMAIN log' : k \in DOMAIN log \/ k = Len(log) + 1
        /\ log'[Len(log) + 1] =
             [num |-> i, call |-> call, made |-> calls,
              frame |-> stack[Depth].act, depth |-> Depth,
              signal |-> signal, begin |-> begin, end |-> end]
    BY <1>12, Logged DEF IInv
  <2>2. StackKnown /\ begin \in {0, 2} /\ end = Depth
    BY <1>12 DEF Dump, IInv, Bounds
  <2> QED
    BY <2>1, <2>2 DEF StackKnown
<1>13. CASE Continue
  BY <1>13 DEF Continue, program, script, Depth, IInv, TypeOK, StackKnown, Bounds, DumpRecord
<1>14. CASE Fail
  BY <1>14 DEF Fail, program, script, Depth, IInv, TypeOK, StackKnown, Bounds, DumpRecord
<1>15. CASE Killed
  BY <1>15 DEF Killed, program, script, Depth, IInv, TypeOK, StackKnown, Bounds, DumpRecord
<1>16. CASE UNCHANGED vars
  BY <1>16 DEF vars, program, script, Depth, IInv, TypeOK, StackKnown, Bounds, DumpRecord
<1> QED
  BY <1>1, <1>2, <1>3, <1>4, <1>5, <1>6, <1>7, <1>8, <1>9, <1>10, <1>11, <1>12, <1>13, <1>14, <1>15, <1>16 DEF Next, ProgramStep, DumpStep, Over

LEMMA MissedInsideStep ==
  ASSUME IInv, [Next]_vars
  PROVE  MissedInside'
<1> USE FunctionAssumption, MainAssumption, BoundAssumption
<1>1. CASE CallMain
  BY <1>1 DEF CallMain, Enters, program, script, Depth, IInv, TypeOK, MissedInside, Counted, Due, Armed, ProgramRuns, DumpRecord
<1>2. ASSUME NEW fn \in Function, Call(fn) PROVE  MissedInside'
  BY <1>2, Pushed DEF Call, Enters, program, script, Depth, IInv, TypeOK, MissedInside, Counted, Due, Armed, ProgramRuns, DumpRecord
<1>3. ASSUME NEW n \in 1..MaxDepth, Return(n) PROVE  MissedInside'
  BY <1>3 DEF Return, program, script, Depth, IInv, TypeOK, MissedInside, Counted, Due, Armed, ProgramRuns, DumpRecord
<1>4. CASE LineBegins
  BY <1>4 DEF LineBegins, program, script, Depth, IInv, TypeOK, MissedInside, Counted, Due, Armed, ProgramRuns, DumpRecord
<1>5. CASE Signal
  BY <1>5 DEF Signal, program, script, Depth, IInv, TypeOK, MissedInside, Counted, Due, Armed, ProgramRuns, DumpRecord
<1>6. CASE Exit
  BY <1>6 DEF Exit, program, script, Depth, IInv, TypeOK, MissedInside, Counted, Due, Armed, ProgramRuns, DumpRecord
<1>7. CASE Finish
  BY <1>7 DEF Finish, program, script, Depth, IInv, TypeOK, MissedInside, Counted, Due, Armed, ProgramRuns, DumpRecord
<1>8. CASE StepLine
  BY <1>8 DEF StepLine, SameLine, program, script, Depth, IInv, TypeOK, MissedInside, Counted, Due, Armed, ProgramRuns, DumpRecord
<1>9. CASE NewLine
  BY <1>9 DEF NewLine, program, script, Depth, IInv, TypeOK, MissedInside, Counted, Due, Armed, ProgramRuns, DumpRecord
<1>10. CASE ReadStackEnd
  BY <1>10 DEF ReadStackEnd, program, script, Depth, IInv, TypeOK, MissedInside, Counted, Due, Armed, ProgramRuns, DumpRecord
<1>11. CASE Enable
  BY <1>11 DEF Enable, program, script, Depth, IInv, TypeOK, MissedInside, Counted, Due, Armed, ProgramRuns, DumpRecord
<1>12. CASE Dump
  <2>1. /\ DOMAIN log' = 1..(Len(log) + 1)
        /\ \A k \in DOMAIN log : k \in DOMAIN log' /\ log'[k] = log[k]
        /\ log'[Len(log) + 1].call = call
        /\ log'[Len(log) + 1].made = calls
    BY <1>12, Logged DEF IInv
  <2>2. /\ Len(log) + 1 \in DOMAIN log'
        /\ missed' = missed /\ missed \subseteq 1..calls
    BY <1>12, <2>1 DEF Dump, IInv, TypeOK
  <2>3. ASSUME NEW m \in missed'
        PROVE  \E k \in DOMAIN log' : log'[k].call < m /\ m <= log'[k].made
    <3>1. CASE \E k \in DOMAIN log : log[k].call < m /\ m <= log[k].made
      BY <2>1, <3>1
    <3>2. CASE call < m
      BY <2>1, <2>2, <3>2
    <3> QED
      BY <2>2, <3>1, <3>2 DEF IInv, MissedInside
  <2> QED
    BY <2>3 DEF MissedInside
<1>13. CASE Continue
  BY <1>13 DEF Continue, program, script, Depth, IInv, TypeOK, MissedInside, Counted, Due, Armed, ProgramRuns, DumpRecord
<1>14. CASE Fail
  BY <1>14 DEF Fail, program, script, Depth, IInv, TypeOK, MissedInside, Counted, Due, Armed, ProgramRuns, DumpRecord
<1>15. CASE Killed
  BY <1>15 DEF Killed, program, script, Depth, IInv, TypeOK, MissedInside, Counted, Due, Armed, ProgramRuns, DumpRecord
<1>16. CASE UNCHANGED vars
  BY <1>16 DEF vars, program, script, Depth, IInv, TypeOK, MissedInside, Counted, Due, Armed, ProgramRuns, DumpRecord
<1> QED
  BY <1>1, <1>2, <1>3, <1>4, <1>5, <1>6, <1>7, <1>8, <1>9, <1>10, <1>11, <1>12, <1>13, <1>14, <1>15, <1>16 DEF Next, ProgramStep, DumpStep, Over

----------------------------------------------------------------------------
(* The theorems.                                                           *)

LEMMA Initially ==
  Init => IInv
<1> SUFFICES ASSUME Init PROVE IInv
  OBVIOUS
<1> USE BoundAssumption
<1> DEFINE f == [fn |-> "start", act |-> 0]
<1>1. /\ stack = <<f>> /\ calls = 0 /\ pc = "run" /\ i = 0 /\ enabled = TRUE
      /\ begin = 0 /\ missed = {} /\ log = <<>>
  BY DEF Init
<1>2. f \in Frame /\ f.act = 0
  BY DEF Frame
<1> HIDE DEF f
<1>3. stack \in Seq(Frame) /\ Len(stack) = 1 /\ stack[1].act = 0
  BY <1>1, <1>2
<1>4. log \in Seq(DumpRecord) /\ Len(log) = 0 /\ DOMAIN log = {}
  BY <1>1
<1>5. TypeOK
  <2>1. prev \in BOOLEAN /\ enabled \in BOOLEAN /\ signal \in BOOLEAN
    BY Zenon DEF Init
  <2>2. {upto, begin, end} \subseteq 0..MaxDepth /\ call \in 0..calls
        /\ calls \in 0..MaxCalls /\ missed \subseteq 1..calls /\ i \in Nat
    BY <1>1 DEF Init
  <2> QED
    BY <1>1, <1>3, <1>4, <2>1, <2>2 DEF TypeOK, ProgramRuns
<1>6. StackOrdered /\ ActsMade /\ Counted /\ Armed /\ Older /\ Bounds
  BY <1>1, <1>3, <1>4
    DEF StackOrdered, ActsMade, Counted, Due, Armed, Older, Bounds
<1>7. DumpedInCaller /\ StackKnown /\ MissedInside
  BY <1>1, <1>4 DEF DumpedInCaller, StackKnown, MissedInside
<1> QED
  BY <1>5, <1>6, <1>7 DEF IInv

LEMMA Inductive ==
  IInv /\ [Next]_vars => IInv'
<1> SUFFICES ASSUME IInv, [Next]_vars PROVE IInv'
  OBVIOUS
<1> QED
  BY TypeOKStep, StackOrderedStep, ActsMadeStep, CountedStep, ArmedStep, OlderStep,
     BoundsStep, DumpedInCallerStep, StackKnownStep, MissedInsideStep DEF IInv

THEOREM Invariance ==
  Spec => []IInv
<1> QED
  BY Initially, Inductive, PTL DEF Spec

\* Every variable of the script keeps its type.
THEOREM TypeCorrect ==
  Spec => []TypeOK
<1>1. IInv => TypeOK
  BY DEF IInv
<1> QED
  BY <1>1, Invariance, PTL

\* A dump is taken in a frame that is older than the call it belongs to, unless
\* a signal came in between.
THEOREM DumpsInCaller ==
  Spec => []DumpedInCaller
<1>1. IInv => DumpedInCaller
  BY DEF IInv
<1> QED
  BY <1>1, Invariance, PTL

\* The bounds of the stack are those of the frames that are there.
THEOREM StackIsKnown ==
  Spec => []StackKnown
<1>1. IInv => StackKnown
  BY DEF IInv
<1> QED
  BY <1>1, Invariance, PTL

\* Calls that are not announced are made between an announcement and its dump.
THEOREM MissedAreInside ==
  Spec => []MissedInside
<1>1. IInv => MissedInside
  BY DEF IInv
<1> QED
  BY <1>1, Invariance, PTL

\* Each step of the script is a step of the log of numbered dumps, or none.
THEOREM ScriptRefinesDumpLog ==
  Spec => RefinesDumpLog
<1>1. Init => DumpLog!LogInit
  BY DEF Init, DumpLog!LogInit
<1>2. IInv /\ [Next]_vars => [DumpLog!LogNext]_(DumpLog!logVars)
  <2> SUFFICES ASSUME IInv, [Next]_vars
               PROVE  DumpLog!LogNext \/ UNCHANGED DumpLog!logVars
    OBVIOUS
  <2> USE DEF DumpLog!logVars, program, script
  <2>1. Counted /\ Len(log) \in Nat /\ i \in Nat
    BY DEF IInv, TypeOK
  <2>2. CASE Finish
    BY <2>1, <2>2 DEF Finish, Counted, DumpLog!LogNext, DumpLog!Announced
  <2>3. CASE Dump
    <3>1. Len(log') = Len(log) + 1
      BY <2>3, Logged DEF IInv
    <3> QED
      BY <2>1, <2>3, <3>1 DEF Dump, Counted, Due, DumpLog!LogNext, DumpLog!Dumped
  <2>4. CASE pc' = "over" /\ pc # "over" /\ i' = i /\ log' = log
    BY <2>4 DEF DumpLog!LogNext, DumpLog!Closed
  <2>5. CASE (pc' = "over" <=> pc = "over") /\ i' = i /\ log' = log
    BY <2>5
  <2>6. CASE ProgramStep
    BY <2>4, <2>5, <2>6
      DEF ProgramStep, CallMain, Call, Enters, Return, LineBegins, Signal, Exit,
          ProgramRuns
  <2>7. CASE DumpStep
    BY <2>2, <2>3, <2>4, <2>5, <2>7
      DEF DumpStep, StepLine, NewLine, ReadStackEnd, Enable, Continue, Fail, GdbRuns
  <2>8. CASE Killed \/ Over \/ UNCHANGED vars
    BY <2>4, <2>5, <2>8 DEF Killed, Over, vars
  <2> QED
    BY <2>6, <2>7, <2>8 DEF Next
<1> QED
  BY <1>1, <1>2, Invariance, PTL DEF Spec, RefinesDumpLog, DumpLog!LogSpec
============================================================================
