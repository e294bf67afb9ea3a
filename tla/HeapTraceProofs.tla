--------------------------- MODULE HeapTraceProofs ---------------------------
(***************************************************************************)
(* Proofs about HeapTrace.tla, for every set of addresses, sizes and call  *)
(* sites, every red zone of at least one byte, and traces of any length.   *)
(***************************************************************************)
EXTENDS HeapTrace, TLAPS

----------------------------------------------------------------------------
(* Type correctness.                                                       *)

USE DEF heap, mirror

\* A line that was read is one the hooks can have written.
LEMMA LineType ==
  ASSUME TypeOK, NEW i \in 1..Len(trace)
  PROVE  /\ trace[i] \in Line
         /\ trace[i].addr \in Addr
         /\ trace[i].op \in {"+", "-"}
         /\ trace[i].op = "+" => trace[i].size \in Size /\ trace[i].site \in Site
<1>1. trace[i] \in Line
  BY DEF TypeOK
<1> QED
  BY <1>1 DEF Line

\* TypeOK is not inductive: between two dumps the reader is at the first line.
TypeInv == TypeOK /\ (gdb # "read" => line = 1)

LEMMA InitType == Init => TypeInv
<1> SUFFICES ASSUME Init PROVE TypeInv
  OBVIOUS
<1>1. trace \in Seq(Line) /\ Len(trace) = 0
  BY DEF Init
<1>2. stream \in BOOLEAN
  BY DEF Init
<1>3. flushed \in 0..Len(trace) /\ line \in 1..(flushed + 1) /\ dumps \in 0..MaxDumps
  BY <1>1, BoundAssumption DEF Init
<1> QED
  BY <1>1, <1>2, <1>3 DEF Init, TypeInv, TypeOK, GdbState

LEMMA HookType ==
  ASSUME TypeOK, NEW b \in Block, MallocHook(b) \/ FreeHook(b)
  PROVE  trace' \in Seq(Line) /\ flushed' \in 0..Len(trace') /\ flushed <= flushed'
<1>1. CASE UNCHANGED <<trace, flushed>>
  BY <1>1 DEF TypeOK
<1>2. ASSUME NEW l \in Line, Write(l)
      PROVE  /\ trace' \in Seq(Line)
             /\ flushed' \in 0..Len(trace')
             /\ flushed <= flushed'
  BY <1>2 DEF Write, TypeOK
<1> QED
  BY <1>1, <1>2 DEF MallocHook, FreeHook, Line, Block

LEMMA MtraceType ==
  ASSUME TypeOK, MtraceCall
  PROVE  /\ stream' \in BOOLEAN
         /\ trace' \in Seq(Line)
         /\ flushed' \in 0..Len(trace')
         /\ UNCHANGED <<trace, flushed>> \/ (flushed' = 0 /\ trace' = <<>>)
<1>1. CASE UNCHANGED <<stream, trace, flushed>>
  BY <1>1 DEF TypeOK
<1>2. CASE stream' = TRUE /\ trace' = <<>> /\ flushed' = 0
  <2>1. stream' \in BOOLEAN
    BY <1>2
  <2>2. trace' \in Seq(Line) /\ Len(trace') = 0
    BY <1>2
  <2> QED
    BY <1>2, <2>1, <2>2
<1> QED
  BY <1>1, <1>2 DEF MtraceCall

LEMMA MuntraceType ==
  ASSUME TypeOK, MuntraceCall
  PROVE  /\ stream' \in BOOLEAN
         /\ trace' \in Seq(Line)
         /\ flushed' \in 0..Len(trace')
         /\ flushed <= flushed'
<1>1. stream' \in BOOLEAN
  BY DEF MuntraceCall
<1> QED
  BY <1>1 DEF MuntraceCall, TypeOK

LEMMA NextType == TypeInv /\ [Next]_vars => TypeInv'
<1> SUFFICES ASSUME TypeInv, [Next]_vars PROVE TypeInv'
  OBVIOUS
<1>0. TypeOK
  BY DEF TypeInv
<1>1. ASSUME NEW b \in Block, Malloc(b) \/ MallocInHook(b) PROVE TypeInv'
  BY <1>0, <1>1, HookType DEF Malloc, MallocInHook, TypeOK, TypeInv
<1>2. ASSUME NEW b \in live, Free(b) PROVE TypeInv'
  <2>1. b \in Block
    BY <1>0 DEF TypeOK
  <2> QED
    BY <1>2, <1>0, <2>1, HookType DEF Free, TypeOK, TypeInv
<1>3. CASE ProgMtrace \/ MainBreakpoint
  BY <1>3, <1>0, MtraceType DEF ProgMtrace, MainBreakpoint, TypeOK, TypeInv, GdbState
<1>4. CASE ProgMuntrace \/ StopTrace
  BY <1>4, <1>0, MuntraceType, BoundAssumption
  DEF ProgMuntrace, StopTrace, TypeOK, TypeInv, GdbState
<1>5. CASE ReadAlloc
  <2> DEFINE l == trace[line]
             n == count[l.site] + 1
  <2>1. l.addr \in Addr /\ l.size \in Size /\ l.site \in Site
    BY <1>0, <1>5, LineType DEF ReadAlloc, TypeOK, TypeInv
  <2>2. n \in Nat
    BY <1>0, <2>1 DEF TypeOK
  <2>3. /\ count' = [count EXCEPT ![l.site] = n]
        /\ areas' = areas \cup {NewArea(l, n)}
    BY <1>5 DEF ReadAlloc
  <2> HIDE DEF l, n
  <2>4. l.addr + l.size + 1 \in Nat
    <3>1. l.addr \in Nat /\ l.size \in Nat
      BY <2>1, AddrAssumption
    <3> QED
      BY <3>1
  <2>5. NewArea(l, n) \in Area
    BY <2>1, <2>2, <2>4 DEF NewArea, Area
  <2>6. count' \in [Site -> Nat] /\ areas' \subseteq Area
    BY <1>0, <2>1, <2>2, <2>3, <2>5 DEF TypeOK
  <2> QED
    BY <1>5, <2>6 DEF ReadAlloc, TypeOK, TypeInv
<1>6. CASE ReadFree
  BY <1>6 DEF ReadFree, TypeOK, TypeInv
<1>7. CASE ReadEnd
  BY <1>7 DEF ReadEnd, TypeOK, TypeInv, GdbState
<1>8. CASE RestartTrace
  BY <1>8, <1>0, MtraceType DEF RestartTrace, TypeOK, TypeInv, GdbState
<1>9. CASE Report \/ ProgramExits \/ Ended \/ UNCHANGED vars
  BY <1>9 DEF Report, ProgramExits, Ended, vars, TypeOK, TypeInv, GdbState
<1> QED
  BY <1>1, <1>2, <1>3, <1>4, <1>5, <1>6, <1>7, <1>8, <1>9
  DEF Next, ProgramStep, GdbStep

\* The reader of the trace never runs past what was written to the file, and
\* what it files in the tree are intervals of known sites.
THEOREM TypeCorrect == Spec => []TypeOK
<1>1. Spec => []TypeInv
  BY InitType, NextType, PTL DEF Spec
<1>2. TypeInv => TypeOK
  BY DEF TypeInv
<1> QED
  BY <1>1, <1>2, PTL

----------------------------------------------------------------------------
(* The numbers of the allocations.                                         *)

NumbersInv ==
  /\ \A A \in areas : A.count <= count[A.site]
  /\ NumbersDistinct

LEMMA NextNumbers == TypeOK /\ NumbersInv /\ [Next]_vars => NumbersInv'
<1> SUFFICES ASSUME TypeOK, NumbersInv, [Next]_vars PROVE NumbersInv'
  OBVIOUS
<1> USE DEF NumbersInv, NumbersDistinct
<1>1. CASE UNCHANGED <<areas, count>>
  BY <1>1
<1>2. CASE ReadAlloc
  <2> DEFINE l == trace[line]
             n == count[l.site] + 1
  <2>1. l.site \in Site /\ count[l.site] \in Nat
    BY <1>2, LineType DEF ReadAlloc, TypeOK
  <2>2. /\ count' = [count EXCEPT ![l.site] = n]
        /\ areas' = areas \cup {NewArea(l, n)}
    BY <1>2 DEF ReadAlloc
  <2>3. \A A \in areas : A.site \in Site /\ A.count \in Nat
    BY DEF TypeOK, Area
  <2>4. \A A \in areas : A.site = l.site => A.count < n
    BY <2>1, <2>3
  <2> HIDE DEF l, n
  <2>5. NewArea(l, n).site = l.site /\ NewArea(l, n).count = n
    BY DEF NewArea
  <2>6. \A A \in areas' : A.count <= count'[A.site]
    BY <2>1, <2>2, <2>3, <2>4, <2>5 DEF TypeOK, n
  <2>7. NumbersDistinct'
    BY <2>1, <2>2, <2>3, <2>4, <2>5 DEF n
  <2> QED
    BY <2>6, <2>7
<1>3. CASE ReadFree
  BY <1>3 DEF ReadFree
<1>4. CASE ProgramStep
  BY <1>4 DEF ProgramStep, Malloc, MallocInHook, Free, ProgMtrace, ProgMuntrace
<1> QED
  BY <1>1, <1>2, <1>3, <1>4 DEF Next, GdbStep, MainBreakpoint, StopTrace,
     ReadEnd, RestartTrace, Report, ProgramExits, Ended, vars

\* alloc_sites_count only grows, so two areas of a site never share a number,
\* whatever happens to the trace: a trace that is read again gives its blocks
\* new numbers.
THEOREM NumbersAreDistinct == Spec => []NumbersDistinct
<1>1. Init => NumbersInv
  BY DEF Init, NumbersInv, NumbersDistinct
<1>2. Spec => []NumbersInv
  BY <1>1, NextNumbers, TypeCorrect, PTL DEF Spec
<1>3. NumbersInv => NumbersDistinct
  BY DEF NumbersInv
<1> QED
  BY <1>2, <1>3, PTL

----------------------------------------------------------------------------
(* The mirror, when every trace is restarted and the program does not close *)
(* one itself.                                                             *)

Faithful == ~OpenMayFail /\ ~OwnMuntrace

\* The lines update_mtrace has yet to read.
Pending == IF gdb = "rearm" THEN {} ELSE line..Len(trace)

\* The line is the last one about its address.
IsLast(i) == \A j \in Pending : j > i => trace[j].addr # trace[i].addr

IsFree(i, a) == trace[i].op = "-" /\ trace[i].addr = a

\* The address is in an area with this begin and size, its end included.
Hits(a, begin, size) == begin <= a /\ a <= begin + size

StreamInv ==
  /\ stream <=> gdb \in {"main", "run", "report", "exit"}
  /\ gdb \in {"start", "report"} => trace = <<>>
  /\ gdb = "start" => areas = {}
  /\ gdb # "read" => line = 1
  /\ gdb \in {"read", "rearm"} => flushed = Len(trace)

LiveInv == \A b, c \in live : b # c => Apart(b, c)

\* The last pending line about an address says whether a traced block is there.
LastInv ==
  \A i \in Pending : IsLast(i) =>
    IF trace[i].op = "+"
      THEN \E b \in Traced : /\ b.addr = trace[i].addr
                             /\ b.size = trace[i].size
                             /\ b.site = trace[i].site
      ELSE \A b \in Traced : b.addr # trace[i].addr

\* Where no line is pending, the areas are right already.
QuietInv ==
  /\ \A b \in Traced :
       \/ \E i \in Pending : trace[i].addr = b.addr
       \/ \E A \in areas : Mirrors(A, b)
  /\ \A A \in areas :
       \/ \E i \in Pending : trace[i].addr = A.begin
       \/ \E b \in Traced : Mirrors(A, b)

\* Before anything is allocated or freed inside an area, or at its end, the
\* area is freed: so remove_overlap removes one area and no other.
AreasFreedInv ==
  \A A \in areas : \A i \in Pending :
    Hits(trace[i].addr, A.begin, A.size) =>
      \E k \in Pending : k <= i /\ IsFree(k, A.begin)

LinesFreedInv ==
  \A i, j \in Pending :
    /\ i < j
    /\ trace[i].op = "+"
    /\ Hits(trace[j].addr, trace[i].addr, trace[i].size)
    => \E k \in Pending : i < k /\ k <= j /\ IsFree(k, trace[i].addr)

AreasInv ==
  /\ \A A \in areas : A.end = A.begin + A.size + 1
  /\ \A A, B \in areas : A.begin = B.begin => A = B

MirrorInv ==
  /\ TypeOK
  /\ StreamInv
  /\ LiveInv
  /\ LastInv
  /\ QuietInv
  /\ AreasFreedInv
  /\ LinesFreedInv
  /\ AreasInv

LEMMA ApartNoHit ==
  ASSUME NEW b \in Block, NEW c \in Block, Apart(b, c)
  PROVE  ~Hits(b.addr, c.addr, c.size) /\ ~Hits(c.addr, b.addr, b.size)
<1>1. /\ b.addr \in Nat /\ b.size \in Nat \ {0}
      /\ c.addr \in Nat /\ c.size \in Nat \ {0}
  BY AddrAssumption DEF Block
<1> QED
  BY <1>1, RedZoneAssumption DEF Apart, Hits

\* An area hit by an address has been freed, or is the one of a traced block.
LEMMA AreaHit ==
  ASSUME MirrorInv, NEW A \in areas, NEW a \in Addr, Hits(a, A.begin, A.size)
  PROVE  \/ \E k \in Pending : IsFree(k, A.begin)
         \/ \E b \in Traced : Mirrors(A, b) /\ Hits(a, b.addr, b.size)
<1>1. A.begin \in Nat /\ A.size \in Nat
  BY AddrAssumption DEF MirrorInv, TypeOK, Area
<1>2. Hits(A.begin, A.begin, A.size)
  BY <1>1 DEF Hits
<1>3. CASE \E i \in Pending : trace[i].addr = A.begin
  BY <1>2, <1>3 DEF MirrorInv, AreasFreedInv
<1>4. CASE \E b \in Traced : Mirrors(A, b)
  BY <1>4 DEF Mirrors
<1> QED
  BY <1>3, <1>4 DEF MirrorInv, QuietInv

\* The same of an area that a pending line will make.
LEMMA LineHit ==
  ASSUME MirrorInv, NEW i \in Pending, trace[i].op = "+", NEW a \in Addr,
         Hits(a, trace[i].addr, trace[i].size)
  PROVE  \/ \E k \in Pending : i < k /\ IsFree(k, trace[i].addr)
         \/ \E b \in Traced : /\ b.addr = trace[i].addr
                              /\ Hits(a, b.addr, b.size)
<1>1. i \in 1..Len(trace)
  BY DEF MirrorInv, TypeOK, Pending
<1>2. trace[i].addr \in Nat /\ trace[i].size \in Nat
  BY <1>1, LineType, AddrAssumption DEF MirrorInv
<1>3. Hits(trace[i].addr, trace[i].addr, trace[i].size)
  BY <1>2 DEF Hits
<1>4. CASE IsLast(i)
  BY <1>4 DEF MirrorInv, LastInv
<1>5. CASE \E j \in Pending : j > i /\ trace[j].addr = trace[i].addr
  <2>1. PICK j \in Pending : j > i /\ trace[j].addr = trace[i].addr
    BY <1>5
  <2>2. i < j
    BY <1>1, <2>1 DEF Pending, MirrorInv, TypeOK
  <2> QED
    BY <1>3, <2>1, <2>2 DEF MirrorInv, LinesFreedInv
<1> QED
  BY <1>4, <1>5 DEF IsLast

\* The parts of MirrorInv that speak of the pending lines.
LinesInv == LastInv /\ QuietInv /\ AreasFreedInv /\ LinesFreedInv

\* The program writes a line about an address that is in no traced block but,
\* at most, in the one that is freed.
LEMMA AppendLine ==
  ASSUME MirrorInv, gdb = "run", NEW l \in Line,
         trace' = Append(trace, l),
         UNCHANGED <<areas, line, gdb>>,
         \A c \in Traced : Hits(l.addr, c.addr, c.size) =>
                             l.op = "-" /\ c.addr = l.addr,
         \/ /\ l.op = "+"
            /\ \E b \in Block : /\ b.addr = l.addr
                                /\ b.size = l.size
                                /\ b.site = l.site
                                /\ Traced' = Traced \cup {b}
         \/ /\ l.op = "-"
            /\ Traced' = {c \in Traced : c.addr # l.addr}
  PROVE  LinesInv'
<1> DEFINE n == Len(trace) + 1
<1>1. trace \in Seq(Line) /\ line = 1 /\ n \in Nat \ {0}
  BY DEF MirrorInv, StreamInv, TypeOK
<1>2. Pending = 1..(n - 1) /\ Pending' = 1..n
  BY <1>1 DEF Pending
<1>3. /\ \A i \in Pending : trace'[i] = trace[i]
      /\ trace'[n] = l
      /\ Pending' = Pending \cup {n}
      /\ \A i \in Pending : i \in Nat /\ i < n
  BY <1>1, <1>2
<1>4. /\ \A A \in areas : A.begin \in Nat /\ A.size \in Nat
      /\ l.addr \in Addr /\ l.addr \in Nat
      /\ \A c \in Traced : c.addr \in Nat /\ c.size \in Nat
  BY AddrAssumption DEF MirrorInv, TypeOK, Area, Line, Traced, Block
<1>5. \A c \in Traced : Hits(c.addr, c.addr, c.size)
  BY <1>4 DEF Hits
<1> HIDE DEF n
<1>6. LastInv'
  <2> SUFFICES ASSUME NEW i \in Pending', IsLast(i)'
               PROVE  IF trace'[i].op = "+"
                        THEN \E b \in Traced' : /\ b.addr = trace'[i].addr
                                                /\ b.size = trace'[i].size
                                                /\ b.site = trace'[i].site
                        ELSE \A b \in Traced' : b.addr # trace'[i].addr
    BY DEF LastInv
  <2>1. CASE i = n
    BY <2>1, <1>3
  <2>2. CASE i \in Pending
    <3>1. trace'[i] = trace[i] /\ trace[i].addr # l.addr
      BY <2>2, <1>3 DEF IsLast
    <3>2. IsLast(i)
      BY <2>2, <1>3 DEF IsLast
    <3>3. CASE trace[i].op = "+"
      <4>1. PICK b \in Traced : /\ b.addr = trace[i].addr
                                /\ b.size = trace[i].size
                                /\ b.site = trace[i].site
        BY <2>2, <3>2, <3>3 DEF MirrorInv, LastInv
      <4>2. b \in Traced'
        BY <4>1, <3>1
      <4> QED
        BY <3>1, <3>3, <4>1, <4>2
    <3>4. CASE trace[i].op # "+"
      <4>1. \A b \in Traced : b.addr # trace[i].addr
        BY <2>2, <3>2, <3>4 DEF MirrorInv, LastInv
      <4> QED
        BY <3>1, <3>4, <4>1
    <3> QED
      BY <3>3, <3>4
  <2> QED
    BY <2>1, <2>2, <1>3
<1>7. QuietInv'
  <2>1. ASSUME NEW b \in Traced'
        PROVE  \/ \E i \in Pending' : trace'[i].addr = b.addr
               \/ \E A \in areas' : Mirrors(A, b)
    <3>1. CASE b.addr = l.addr
      BY <3>1, <1>3
    <3>2. CASE b \in Traced
      BY <3>2, <1>3 DEF MirrorInv, QuietInv
    <3> QED
      BY <3>1, <3>2
  <2>2. ASSUME NEW A \in areas'
        PROVE  \/ \E i \in Pending' : trace'[i].addr = A.begin
               \/ \E b \in Traced' : Mirrors(A, b)
    <3>1. CASE A.begin = l.addr
      BY <3>1, <1>3
    <3>2. CASE \E i \in Pending : trace[i].addr = A.begin
      BY <3>2, <1>3
    <3>3. CASE A.begin # l.addr /\ \E b \in Traced : Mirrors(A, b)
      BY <3>3 DEF Mirrors
    <3> QED
      BY <3>1, <3>2, <3>3 DEF MirrorInv, QuietInv
  <2> QED
    BY <2>1, <2>2 DEF QuietInv, Mirrors
<1>8. AreasFreedInv'
  <2>1. ASSUME NEW A \in areas, NEW i \in Pending',
               Hits(trace'[i].addr, A.begin, A.size)
        PROVE  \E k \in Pending' : /\ k <= i
                                   /\ trace'[k].op = "-"
                                   /\ trace'[k].addr = A.begin
    <3>1. CASE i \in Pending
      <4>1. PICK k \in Pending : k <= i /\ IsFree(k, A.begin)
        BY <2>1, <3>1, <1>3 DEF MirrorInv, AreasFreedInv
      <4> QED
        BY <4>1, <1>3 DEF IsFree
    <3>2. CASE i = n
      <4>1. Hits(l.addr, A.begin, A.size)
        BY <2>1, <3>2, <1>3
      <4>2. \A k \in Pending : k <= i
        BY <3>2, <1>1, <1>3
      <4>3. CASE \E k \in Pending : IsFree(k, A.begin)
        BY <4>2, <4>3, <1>3 DEF IsFree
      <4>4. CASE \E b \in Traced : Mirrors(A, b) /\ Hits(l.addr, b.addr, b.size)
        <5>1. l.op = "-" /\ l.addr = A.begin
          BY <4>4 DEF Mirrors
        <5>2. n <= i
          BY <3>2, <1>1
        <5> QED
          BY <5>1, <5>2, <1>3
      <4> QED
        BY <4>1, <4>3, <4>4, <1>4, AreaHit
    <3> QED
      BY <3>1, <3>2, <1>3
  <2> QED
    BY <2>1 DEF AreasFreedInv, IsFree
<1>9. LinesFreedInv'
  <2>1. ASSUME NEW i \in Pending', NEW j \in Pending',
               i < j, trace'[i].op = "+",
               Hits(trace'[j].addr, trace'[i].addr, trace'[i].size)
        PROVE  \E k \in Pending' :
                 /\ i < k /\ k <= j
                 /\ trace'[k].op = "-"
                 /\ trace'[k].addr = trace'[i].addr
    <3>9. i \in Pending
      <4>1. i \in 1..n /\ j \in 1..n /\ i < j
        BY <2>1, <1>2
      <4>2. i \in 1..(n - 1)
        BY <4>1, <1>1
      <4> QED
        BY <4>2, <1>2
    <3>0. i \in Pending /\ trace'[i] = trace[i]
      BY <3>9, <1>3
    <3>1. CASE j \in Pending
      <4>1. trace[i].op = "+" /\ Hits(trace[j].addr, trace[i].addr, trace[i].size)
        BY <2>1, <3>0, <3>1, <1>3
      <4>2. PICK k \in Pending : i < k /\ k <= j /\ IsFree(k, trace[i].addr)
        BY <2>1, <3>0, <3>1, <4>1 DEF MirrorInv, LinesFreedInv
      <4> QED
        BY <3>0, <4>2, <1>3 DEF IsFree
    <3>2. CASE j = n
      <4>1. trace[i].op = "+" /\ Hits(l.addr, trace[i].addr, trace[i].size)
        BY <2>1, <3>0, <3>2, <1>3
      <4>2. \A k \in Pending : k <= j
        BY <3>2, <1>1, <1>3
      <4>3. CASE \E k \in Pending : i < k /\ IsFree(k, trace[i].addr)
        BY <3>0, <4>2, <4>3, <1>3 DEF IsFree
      <4>4. CASE \E b \in Traced : /\ b.addr = trace[i].addr
                                   /\ Hits(l.addr, b.addr, b.size)
        <5>1. l.op = "-" /\ l.addr = trace[i].addr
          BY <4>4
        <5>2. i < n /\ n <= j
          BY <3>0, <3>2, <1>1, <1>3
        <5> QED
          BY <3>0, <5>1, <5>2, <1>3
      <4> QED
        BY <3>0, <4>1, <4>3, <4>4, <1>4, LineHit
    <3> QED
      BY <2>1, <3>1, <3>2, <1>3
  <2> QED
    BY <2>1 DEF LinesFreedInv, IsFree
<1> QED
  BY <1>6, <1>7, <1>8, <1>9 DEF LinesInv

\* Steps that leave the pending lines alone.
LEMMA LinesSame ==
  ASSUME MirrorInv, areas' = areas, Traced' = Traced, Pending' = Pending,
         \A i \in Pending : trace'[i] = trace[i]
  PROVE  LinesInv'
<1>1. LastInv'
  BY DEF MirrorInv, LastInv, IsLast
<1>2. QuietInv'
  BY DEF MirrorInv, QuietInv, Mirrors
<1>3. AreasFreedInv'
  BY DEF MirrorInv, AreasFreedInv, IsFree, Hits
<1>4. LinesFreedInv'
  BY DEF MirrorInv, LinesFreedInv, IsFree, Hits
<1> QED
  BY <1>1, <1>2, <1>3, <1>4 DEF LinesInv

\* Reading a line makes the next one the first of the pending lines.
LEMMA ReadLine ==
  ASSUME MirrorInv, gdb = "read", line <= flushed, line' = line + 1,
         trace' = trace, gdb' = gdb, Traced' = Traced
  PROVE  /\ line \in Pending
         /\ Pending' = Pending \ {line}
         /\ \A i \in Pending : i \in Nat /\ line <= i
         /\ LastInv'
         /\ LinesFreedInv'
<1>1. line \in Nat /\ Len(trace) \in Nat /\ line <= Len(trace)
  BY DEF MirrorInv, TypeOK
<1>2. Pending = line..Len(trace) /\ Pending' = (line + 1)..Len(trace)
  BY DEF Pending
<1>3. /\ line \in Pending
      /\ Pending' = Pending \ {line}
      /\ \A i \in Pending : i \in Nat /\ line <= i
  BY <1>1, <1>2
<1>4. LastInv'
  <2> SUFFICES ASSUME NEW i \in Pending', IsLast(i)'
               PROVE  IF trace[i].op = "+"
                        THEN \E b \in Traced : /\ b.addr = trace[i].addr
                                               /\ b.size = trace[i].size
                                               /\ b.site = trace[i].site
                        ELSE \A b \in Traced : b.addr # trace[i].addr
    BY DEF LastInv
  <2>1. i \in Pending /\ \A j \in Pending : j > i => j \in Pending'
    BY <1>1, <1>2
  <2>2. IsLast(i)
    BY <2>1 DEF IsLast
  <2> QED
    BY <2>1, <2>2 DEF MirrorInv, LastInv
<1>5. LinesFreedInv'
  <2>1. ASSUME NEW i \in Pending', NEW j \in Pending',
               i < j, trace[i].op = "+",
               Hits(trace[j].addr, trace[i].addr, trace[i].size)
        PROVE  \E k \in Pending' : /\ i < k /\ k <= j
                                   /\ trace[k].op = "-"
                                   /\ trace[k].addr = trace[i].addr
    <3>1. i \in Pending /\ j \in Pending
      BY <1>3
    <3>2. PICK k \in Pending : i < k /\ k <= j /\ IsFree(k, trace[i].addr)
      BY <2>1, <3>1 DEF MirrorInv, LinesFreedInv
    <3>3. k \in Pending'
      BY <3>1, <3>2, <1>1, <1>2
    <3> QED
      BY <3>2, <3>3 DEF IsFree
  <2> QED
    BY <2>1 DEF LinesFreedInv, IsFree, Hits
<1> QED
  BY <1>3, <1>4, <1>5

\* Two blocks at the same address are one.
LEMMA OneBlockAtAnAddress ==
  ASSUME MirrorInv, NEW b \in live, NEW c \in live, b.addr = c.addr
  PROVE  b = c
<1>1. b \in Block /\ c \in Block
  BY DEF MirrorInv, TypeOK
<1>2. b.addr \in Nat /\ b.size \in Nat /\ c.size \in Nat
  BY <1>1, AddrAssumption DEF Block
<1> QED
  BY <1>2, RedZoneAssumption DEF MirrorInv, LiveInv, Apart

\* When update_mtrace reads a free line, the areas that begin at its address
\* are the ones that remove_overlap finds; an allocation line finds none.
LEMMA OnlyItsArea ==
  ASSUME MirrorInv, gdb = "read", line <= flushed, NEW A \in areas,
         Hits(trace[line].addr, A.begin, A.size)
  PROVE  trace[line].op = "-" /\ trace[line].addr = A.begin
<1>1. /\ line \in Pending
      /\ \A i \in Pending : i \in Nat /\ line <= i
  BY DEF Pending, MirrorInv, TypeOK
<1>2. PICK k \in Pending : k <= line /\ IsFree(k, A.begin)
  BY <1>1 DEF MirrorInv, AreasFreedInv
<1>3. k = line
  BY <1>1, <1>2
<1> QED
  BY <1>2, <1>3 DEF IsFree

LEMMA LinesMalloc ==
  ASSUME MirrorInv, NEW b \in Block, Malloc(b) \/ MallocInHook(b)
  PROVE  LinesInv'
<1>1. /\ \A c \in live : Apart(b, c)
      /\ live' = live \cup {b}
      /\ UNCHANGED <<stream, areas, count, line, gdb, dumps>>
      /\ MallocHook(b)
  BY DEF Malloc, MallocInHook, mirror
<1>2. CASE b.traced
  <2> DEFINE l == [op |-> "+", addr |-> b.addr, size |-> b.size, site |-> b.site]
  <2>1. gdb = "run"
    BY <1>2 DEF Malloc, MallocInHook, MirrorInv, StreamInv
  <2>2. trace' = Append(trace, l)
    BY <1>1, <1>2 DEF MallocHook, Write
  <2>3. l \in Line
    BY DEF Block, Line
  <2>4. Traced' = Traced \cup {b}
    BY <1>1, <1>2 DEF Traced
  <2>5. \A c \in Traced : ~Hits(b.addr, c.addr, c.size)
    <3> SUFFICES ASSUME NEW c \in Traced PROVE ~Hits(b.addr, c.addr, c.size)
      OBVIOUS
    <3>1. c \in Block /\ Apart(b, c)
      BY <1>1 DEF MirrorInv, TypeOK, Traced
    <3> QED
      BY <3>1, ApartNoHit
  <2>6. /\ l.op = "+" /\ l.addr = b.addr /\ l.size = b.size /\ l.site = b.site
    OBVIOUS
  <2> HIDE DEF l
  <2> QED
    BY <1>1, <2>1, <2>2, <2>3, <2>4, <2>5, <2>6, AppendLine
<1>3. CASE ~b.traced
  <2>1. trace' = trace /\ Traced' = Traced
    BY <1>1, <1>3 DEF MallocHook, Traced
  <2>2. Pending' = Pending
    BY <1>1, <2>1 DEF Pending
  <2> QED
    BY <1>1, <2>1, <2>2, LinesSame
<1> QED
  BY <1>2, <1>3 DEF Block

LEMMA LinesFree ==
  ASSUME MirrorInv, NEW b \in live, Free(b)
  PROVE  LinesInv'
<1>1. /\ live' = live \ {b}
      /\ UNCHANGED <<stream, areas, count, line, gdb, dumps>>
      /\ FreeHook(b)
  BY DEF Free, mirror
<1>2. b \in Block /\ live \subseteq Block
  BY DEF MirrorInv, TypeOK
<1>3. CASE stream
  <2> DEFINE l == [op |-> "-", addr |-> b.addr]
  <2>1. gdb = "run"
    BY <1>3 DEF Free, MirrorInv, StreamInv
  <2>2. trace' = Append(trace, l)
    BY <1>1, <1>3 DEF FreeHook, Write
  <2>3. l \in Line
    BY <1>2 DEF Block, Line
  <2>4. \A c \in live : Hits(b.addr, c.addr, c.size) => c = b
    <3> SUFFICES ASSUME NEW c \in live, c # b
                 PROVE  ~Hits(b.addr, c.addr, c.size)
      OBVIOUS
    <3>1. c \in Block /\ Apart(b, c)
      BY <1>2 DEF MirrorInv, LiveInv
    <3> QED
      BY <1>2, <3>1, ApartNoHit
  <2>5. Traced' = {c \in Traced : c.addr # b.addr}
    BY <1>1, OneBlockAtAnAddress DEF Traced
  <2>6. l.op = "-" /\ l.addr = b.addr
    OBVIOUS
  <2>7. \A c \in Traced : Hits(l.addr, c.addr, c.size) =>
                            l.op = "-" /\ c.addr = l.addr
    BY <2>4, <2>6 DEF Traced
  <2> HIDE DEF l
  <2> QED
    BY <1>1, <2>1, <2>2, <2>3, <2>5, <2>6, <2>7, AppendLine
<1>4. CASE ~stream
  <2>1. trace' = trace
    BY <1>1, <1>4 DEF FreeHook
  <2>2. gdb = "start"
    BY <1>4 DEF Free, MirrorInv, StreamInv
  <2>3. Pending' = Pending /\ Pending = {}
    <3>1. trace = <<>> /\ line = 1
      BY <2>2 DEF MirrorInv, StreamInv
    <3> QED
      BY <1>1, <2>1, <2>2, <3>1 DEF Pending
  <2>4. Traced = {}
    BY <2>2, <2>3 DEF MirrorInv, StreamInv, QuietInv
  <2>5. Traced' = Traced
    BY <1>1, <2>4 DEF Traced
  <2> QED
    BY <1>1, <2>1, <2>3, <2>5, LinesSame
<1> QED
  BY <1>3, <1>4

LEMMA LinesReadAlloc ==
  ASSUME MirrorInv, ReadAlloc
  PROVE  LinesInv' /\ AreasInv'
<1> DEFINE l == trace[line]
           N == NewArea(l, count[l.site] + 1)
<1>1. /\ gdb = "read" /\ line <= flushed /\ line' = line + 1
      /\ l.op = "+"
      /\ areas' = areas \cup {N}
      /\ trace' = trace /\ gdb' = gdb /\ live' = live
  BY DEF ReadAlloc, heap
<1>2. Traced' = Traced
  BY <1>1 DEF Traced
<1>3. /\ line \in Pending
      /\ Pending' = Pending \ {line}
      /\ \A i \in Pending : i \in Nat /\ line <= i
      /\ LastInv'
      /\ LinesFreedInv'
  BY <1>1, <1>2, ReadLine
<1>4. /\ N.begin = l.addr /\ N.size = l.size /\ N.site = l.site
      /\ N.end = l.addr + l.size + 1
  BY DEF NewArea
<1>5. /\ \A A \in areas : A.begin \in Nat /\ A.size \in Nat
      /\ l.addr \in Nat
  <2>1. \A A \in areas : A.begin \in Nat /\ A.size \in Nat
    BY AddrAssumption DEF MirrorInv, TypeOK, Area
  <2>2. line \in 1..Len(trace)
    BY <1>1 DEF MirrorInv, TypeOK
  <2>3. l.addr \in Addr
    BY <2>2, LineType DEF MirrorInv
  <2> QED
    BY <2>1, <2>3, AddrAssumption
<1> HIDE DEF N
<1>6. \A A \in areas : A.begin # l.addr
  <2> SUFFICES ASSUME NEW A \in areas, A.begin = l.addr PROVE FALSE
    OBVIOUS
  <2>1. Hits(l.addr, A.begin, A.size)
    BY <1>5 DEF Hits
  <2> QED
    BY <1>1, <2>1, OnlyItsArea
<1>7. \/ \E i \in Pending' : trace[i].addr = l.addr
      \/ \E b \in Traced : Mirrors(N, b)
  <2>1. CASE IsLast(line)
    BY <1>1, <1>3, <1>4, <2>1 DEF MirrorInv, LastInv, Mirrors
  <2>2. CASE ~IsLast(line)
    BY <1>3, <2>2 DEF IsLast
  <2> QED
    BY <2>1, <2>2
<1>8. QuietInv'
  <2>1. ASSUME NEW b \in Traced
        PROVE  \/ \E i \in Pending' : trace[i].addr = b.addr
               \/ \E A \in areas' : Mirrors(A, b)
    <3>1. CASE b.addr = l.addr
      <4>1. CASE \E c \in Traced : Mirrors(N, c)
        <5>1. PICK c \in Traced : Mirrors(N, c)
          BY <4>1
        <5>2. c = b
          BY <3>1, <5>1, <1>4, OneBlockAtAnAddress DEF Mirrors, Traced
        <5> QED
          BY <5>1, <5>2, <1>1
      <4> QED
        BY <3>1, <4>1, <1>7
    <3>2. CASE b.addr # l.addr
      BY <3>2, <1>1, <1>3 DEF MirrorInv, QuietInv
    <3> QED
      BY <3>1, <3>2
  <2>2. ASSUME NEW A \in areas'
        PROVE  \/ \E i \in Pending' : trace[i].addr = A.begin
               \/ \E b \in Traced : Mirrors(A, b)
    <3>1. CASE A = N
      BY <3>1, <1>4, <1>7
    <3>2. CASE A \in areas
      BY <3>2, <1>3, <1>6 DEF MirrorInv, QuietInv
    <3> QED
      BY <2>2, <3>1, <3>2, <1>1
  <2> QED
    BY <1>1, <1>2, <2>1, <2>2 DEF QuietInv, Mirrors
<1>9. AreasFreedInv'
  <2>1. ASSUME NEW A \in areas', NEW i \in Pending',
               Hits(trace[i].addr, A.begin, A.size)
        PROVE  \E k \in Pending' : k <= i /\ IsFree(k, A.begin)
    <3>0. i \in Pending /\ line < i
      BY <2>1, <1>3
    <3>1. CASE A = N
      <4>1. PICK k \in Pending : line < k /\ k <= i /\ IsFree(k, l.addr)
        BY <2>1, <3>0, <3>1, <1>1, <1>3, <1>4 DEF MirrorInv, LinesFreedInv
      <4> QED
        BY <4>1, <3>1, <1>3, <1>4
    <3>2. CASE A \in areas
      <4>1. PICK k \in Pending : k <= i /\ IsFree(k, A.begin)
        BY <2>1, <3>0, <3>2 DEF MirrorInv, AreasFreedInv
      <4> QED
        BY <4>1, <1>1, <1>3 DEF IsFree
    <3> QED
      BY <2>1, <3>1, <3>2, <1>1
  <2> QED
    BY <1>1, <2>1 DEF AreasFreedInv, IsFree, Hits
<1>10. AreasInv'
  BY <1>1, <1>4, <1>6 DEF MirrorInv, AreasInv
<1> QED
  BY <1>3, <1>8, <1>9, <1>10 DEF LinesInv

LEMMA LinesReadFree ==
  ASSUME MirrorInv, ReadFree
  PROVE  LinesInv' /\ AreasInv'
<1> DEFINE a == trace[line].addr
<1>1. /\ gdb = "read" /\ line <= flushed /\ line' = line + 1
      /\ trace[line].op = "-"
      /\ areas' = areas \ Query(a)
      /\ trace' = trace /\ gdb' = gdb /\ live' = live
  BY DEF ReadFree, heap
<1>2. Traced' = Traced
  BY <1>1 DEF Traced
<1>3. /\ line \in Pending
      /\ Pending' = Pending \ {line}
      /\ \A i \in Pending : i \in Nat /\ line <= i
      /\ LastInv'
      /\ LinesFreedInv'
  BY <1>1, <1>2, ReadLine
<1>4. /\ \A A \in areas : A.begin \in Nat /\ A.size \in Nat
      /\ a \in Nat
  <2>1. \A A \in areas : A.begin \in Nat /\ A.size \in Nat
    BY AddrAssumption DEF MirrorInv, TypeOK, Area
  <2>2. line \in 1..Len(trace)
    BY <1>1 DEF MirrorInv, TypeOK
  <2>3. a \in Addr
    BY <2>2, LineType DEF MirrorInv
  <2> QED
    BY <2>1, <2>3, AddrAssumption
<1>5. \A A \in areas : A \in Query(a) <=> A.begin = a
  <2> SUFFICES ASSUME NEW A \in areas
               PROVE  A.begin <= a /\ a < A.end <=> A.begin = a
    BY DEF Query
  <2>1. A.end = A.begin + A.size + 1
    BY DEF MirrorInv, AreasInv
  <2>2. ASSUME A.begin <= a, a < A.end PROVE A.begin = a
    <3>1. Hits(a, A.begin, A.size)
      BY <2>1, <2>2, <1>4 DEF Hits
    <3> QED
      BY <3>1, <1>1, OnlyItsArea
  <2>3. ASSUME A.begin = a PROVE A.begin <= a /\ a < A.end
    BY <2>1, <2>3, <1>4
  <2> QED
    BY <2>2, <2>3
<1>6. areas' = {A \in areas : A.begin # a}
  BY <1>1, <1>5
<1> HIDE DEF a
<1>7. QuietInv'
  <2>1. ASSUME NEW b \in Traced
        PROVE  \/ \E i \in Pending' : trace[i].addr = b.addr
               \/ \E A \in areas' : Mirrors(A, b)
    <3>1. CASE b.addr = a
      <4>1. ~IsLast(line)
        BY <3>1, <1>1, <1>3 DEF a, MirrorInv, LastInv
      <4> QED
        BY <3>1, <4>1, <1>3 DEF a, IsLast
    <3>2. CASE b.addr # a
      BY <3>2, <1>3, <1>6 DEF a, MirrorInv, QuietInv, Mirrors
    <3> QED
      BY <3>1, <3>2
  <2>2. ASSUME NEW A \in areas'
        PROVE  \/ \E i \in Pending' : trace[i].addr = A.begin
               \/ \E b \in Traced : Mirrors(A, b)
    BY <2>2, <1>3, <1>6 DEF a, MirrorInv, QuietInv
  <2> QED
    BY <1>1, <1>2, <2>1, <2>2 DEF QuietInv, Mirrors
<1>8. AreasFreedInv'
  <2>1. ASSUME NEW A \in areas', NEW i \in Pending',
               Hits(trace[i].addr, A.begin, A.size)
        PROVE  \E k \in Pending' : k <= i /\ IsFree(k, A.begin)
    <3>1. A \in areas /\ A.begin # a /\ i \in Pending
      BY <2>1, <1>3, <1>6
    <3>2. PICK k \in Pending : k <= i /\ IsFree(k, A.begin)
      BY <2>1, <3>1 DEF MirrorInv, AreasFreedInv
    <3> QED
      BY <3>1, <3>2, <1>3 DEF a, IsFree
  <2> QED
    BY <1>1, <2>1 DEF AreasFreedInv, IsFree, Hits
<1>9. AreasInv'
  BY <1>6 DEF MirrorInv, AreasInv
<1> QED
  BY <1>3, <1>7, <1>8, <1>9 DEF LinesInv

LEMMA NextLines ==
  ASSUME MirrorInv, Faithful, [Next]_vars
  PROVE  LinesInv' /\ AreasInv'
<1>1. ASSUME NEW b \in Block, Malloc(b) \/ MallocInHook(b)
      PROVE  LinesInv' /\ AreasInv'
  <2>1. areas' = areas
    BY <1>1 DEF Malloc, MallocInHook
  <2> QED
    BY <1>1, <2>1, LinesMalloc DEF MirrorInv, AreasInv
<1>2. ASSUME NEW b \in live, Free(b)
      PROVE  LinesInv' /\ AreasInv'
  <2>1. areas' = areas
    BY <1>2 DEF Free
  <2> QED
    BY <1>2, <2>1, LinesFree DEF MirrorInv, AreasInv
<1>3. CASE ReadAlloc
  BY <1>3, LinesReadAlloc
<1>4. CASE ReadFree
  BY <1>4, LinesReadFree
<1>5. CASE \/ ProgMtrace \/ MainBreakpoint \/ StopTrace \/ ReadEnd
           \/ RestartTrace \/ Report \/ ProgramExits \/ UNCHANGED vars
  <2>1. areas' = areas /\ live' = live
    BY <1>5 DEF ProgMtrace, MainBreakpoint, StopTrace, ReadEnd,
       RestartTrace, Report, ProgramExits, vars
  <2>2. Traced' = Traced
    BY <2>1 DEF Traced
  <2>3. Pending' = Pending /\ \A i \in Pending : trace'[i] = trace[i]
    <3>1. CASE ProgMtrace
      BY <3>1 DEF ProgMtrace, MtraceCall, MirrorInv, StreamInv, Pending
    <3>2. CASE MainBreakpoint
      <4>1. trace = <<>> /\ trace' = <<>> /\ line' = line
        BY <3>2 DEF MainBreakpoint, MtraceCall, MirrorInv, StreamInv, Faithful
      <4> QED
        BY <3>2, <4>1 DEF MainBreakpoint, MirrorInv, StreamInv, Pending
    <3>3. CASE StopTrace
      BY <3>3 DEF StopTrace, MuntraceCall, Pending
    <3>4. CASE ReadEnd
      <4>1. line \in Nat /\ line > Len(trace) /\ Len(trace) \in Nat
        BY <3>4 DEF ReadEnd, MirrorInv, StreamInv, TypeOK
      <4> QED
        BY <3>4, <4>1 DEF ReadEnd, Pending
    <3>5. CASE RestartTrace
      <4>1. trace' = <<>> /\ line' = 1 /\ gdb' = "report"
        BY <3>5 DEF RestartTrace, MtraceCall, MirrorInv, StreamInv, Faithful
      <4> QED
        BY <3>5, <4>1 DEF RestartTrace, Pending
    <3>6. CASE Report \/ ProgramExits \/ UNCHANGED vars
      BY <3>6 DEF Report, ProgramExits, vars, Pending
    <3> QED
      BY <1>5, <3>1, <3>2, <3>3, <3>4, <3>5, <3>6
  <2> QED
    BY <2>1, <2>2, <2>3, LinesSame DEF MirrorInv, AreasInv
<1> QED
  BY <1>1, <1>2, <1>3, <1>4, <1>5
     DEF Next, ProgramStep, GdbStep, Ended, ProgMuntrace, Faithful

LEMMA NextStream ==
  ASSUME MirrorInv, Faithful, [Next]_vars
  PROVE  StreamInv'
<1> USE DEF MirrorInv, StreamInv
<1>1. ASSUME NEW b \in Block, Malloc(b) \/ MallocInHook(b)
      PROVE  StreamInv'
  BY <1>1 DEF Malloc, MallocInHook, MallocHook
<1>2. ASSUME NEW b \in live, Free(b)
      PROVE  StreamInv'
  BY <1>2 DEF Free, FreeHook
<1>3. CASE ProgMtrace \/ MainBreakpoint \/ RestartTrace
  BY <1>3 DEF ProgMtrace, MainBreakpoint, RestartTrace, MtraceCall, Faithful
<1>4. CASE StopTrace
  BY <1>4 DEF StopTrace, MuntraceCall
<1>5. CASE ReadAlloc \/ ReadFree \/ ReadEnd
  BY <1>5 DEF ReadAlloc, ReadFree, ReadEnd
<1>6. CASE Report \/ ProgramExits \/ UNCHANGED vars
  BY <1>6 DEF Report, ProgramExits, vars
<1> QED
  BY <1>1, <1>2, <1>3, <1>4, <1>5, <1>6
     DEF Next, ProgramStep, GdbStep, Ended, ProgMuntrace, Faithful

LEMMA NextLive ==
  ASSUME LiveInv, [Next]_vars
  PROVE  LiveInv'
<1> USE DEF LiveInv
<1>1. ASSUME NEW b \in Block, Malloc(b) \/ MallocInHook(b)
      PROVE  LiveInv'
  <2>1. live' = live \cup {b} /\ \A c \in live : Apart(b, c)
    BY <1>1 DEF Malloc, MallocInHook
  <2>2. \A c \in live : Apart(c, b)
    BY <2>1 DEF Apart
  <2> QED
    BY <2>1, <2>2
<1>2. ASSUME NEW b \in live, Free(b)
      PROVE  LiveInv'
  BY <1>2 DEF Free
<1>3. CASE live' = live
  BY <1>3
<1> QED
  BY <1>1, <1>2, <1>3 DEF Next, ProgramStep, GdbStep, Ended, ProgMtrace,
     ProgMuntrace, MainBreakpoint, StopTrace, ReadAlloc, ReadFree, ReadEnd,
     RestartTrace, Report, ProgramExits, vars

LEMMA InitMirror == Init => MirrorInv
<1> SUFFICES ASSUME Init PROVE MirrorInv
  OBVIOUS
<1>1. TypeOK
  BY InitType DEF TypeInv
<1>2. Pending = {} /\ live = {} /\ areas = {} /\ Traced = {}
  BY DEF Init, Pending, Traced
<1>3. StreamInv
  BY DEF Init, StreamInv
<1> QED
  BY <1>1, <1>2, <1>3 DEF MirrorInv, LiveInv, LastInv, QuietInv, AreasFreedInv,
     LinesFreedInv, AreasInv

\* The invariant behind the two theorems.
LEMMA Mirror == Faithful /\ Spec => []MirrorInv
<1>1. ASSUME MirrorInv, Faithful, [Next]_vars
      PROVE  MirrorInv'
  <2>1. TypeOK'
    BY <1>1, NextType DEF MirrorInv, StreamInv, TypeInv
  <2> QED
    BY <1>1, <2>1, NextLines, NextStream, NextLive DEF MirrorInv, LinesInv
<1>2. Faithful => Faithful'
  BY DEF Faithful
<1> QED
  BY InitMirror, <1>1, <1>2, PTL DEF Spec

\* When something is printed the areas are exactly the traced blocks that are
\* alive, each of them once.
THEOREM MirrorIsExact == Faithful /\ Spec => []MirrorExact
<1>1. MirrorInv => MirrorExact
  <2> SUFFICES ASSUME MirrorInv, gdb = "report" PROVE MirrorExact
    BY DEF MirrorExact
  <2>1. trace = <<>> /\ line = 1
    BY DEF MirrorInv, StreamInv
  <2>2. Pending = {}
    BY <2>1 DEF Pending
  <2> QED
    BY <2>2 DEF MirrorInv, QuietInv, AreasInv, MirrorExact
<1> QED
  BY <1>1, Mirror, PTL

\* Every pointer into a traced block or just behind it is resolved to that
\* block alone, with the right size and offset.
THEOREM PointersAreResolved == Faithful /\ Spec => []PointersResolve
<1>1. MirrorInv /\ MirrorExact => PointersResolve
  <2> SUFFICES ASSUME MirrorInv, MirrorExact, gdb = "report",
                      NEW b \in Traced, NEW p \in b.addr..(b.addr + b.size)
               PROVE  \E A \in areas :
                        /\ Mirrors(A, b)
                        /\ HeapLabels(p) = {[id |-> AllocId(A), size |-> b.size,
                                             offset |-> p - b.addr]}
    BY DEF PointersResolve
  <2>1. PICK A \in areas : Mirrors(A, b)
    BY DEF MirrorExact
  <2>2. b \in Block /\ b.addr \in Nat /\ b.size \in Nat
    BY AddrAssumption DEF MirrorInv, TypeOK, Traced, Block
  <2>3. p \in Nat /\ b.addr <= p /\ p <= b.addr + b.size
    BY <2>2
  <2>4. A \in Query(p)
    BY <2>1, <2>2, <2>3 DEF Query, Mirrors, MirrorInv, AreasInv
  <2>5. ASSUME NEW C \in Query(p) PROVE C = A
    <3>1. C \in areas /\ C.begin <= p /\ p < C.begin + C.size + 1
      BY DEF Query, MirrorInv, AreasInv
    <3>2. PICK c \in Traced : Mirrors(C, c)
      BY <3>1 DEF MirrorExact
    <3>3. c.addr \in Nat /\ c.size \in Nat
      BY AddrAssumption DEF MirrorInv, TypeOK, Traced, Block
    <3>4. c.addr <= p /\ p < c.addr + c.size + 1
      BY <3>1, <3>2 DEF Mirrors
    <3>5. ~Apart(b, c)
      BY <2>2, <2>3, <3>3, <3>4, RedZoneAssumption DEF Apart
    <3>6. c = b
      BY <3>5 DEF MirrorInv, LiveInv, Traced
    <3> QED
      BY <2>1, <3>1, <3>2, <3>6 DEF Mirrors, MirrorInv, AreasInv
  <2>6. Query(p) = {A}
    BY <2>4, <2>5
  <2>7. A.begin = b.addr /\ A.size = b.size
    BY <2>1 DEF Mirrors
  <2>8. {B \in Query(p) : \A C \in Query(p) : B.begin <= C.begin} = {A}
    BY <2>2, <2>6, <2>7
  <2>9. HeapLabels(p) = {[id |-> AllocId(A), size |-> A.size,
                          offset |-> p - A.begin]}
    BY <2>8 DEF HeapLabels
  <2> QED
    BY <2>1, <2>7, <2>9
<1> QED
  BY <1>1, Mirror, MirrorIsExact, PTL

----------------------------------------------------------------------------
(* What is left if traces are read again or closed too early: no block      *)
(* that is alive is lost.                                                  *)

\* The lines from which update_mtrace may still learn of a block.
Unread == IF gdb \in {"rearm", "report"} THEN {} ELSE line..Len(trace)

Allocates(l, b) ==
  l.op = "+" /\ l.addr = b.addr /\ l.size = b.size /\ l.site = b.site

\* A line that removes the area of the block.
Removes(l, b) == l.op = "-" /\ Hits(l.addr, b.addr, b.size)

KnownInv ==
  \A b \in Traced :
    \/ \E A \in areas : Mirrors(A, b)
    \/ \E i \in Unread : Allocates(trace[i], b)

\* Wherever a trace is read from, also for the second time, the block is
\* brought back behind every line that removes its area.
BroughtBackInv ==
  \A b \in Traced : \A k \in 1..Len(trace) :
    Removes(trace[k], b) =>
      \E i \in 1..Len(trace) : k < i /\ Allocates(trace[i], b)

\* The program traces nothing before its own mtrace(), or that of gdb.
OrderInv ==
  /\ gdb # "read" => line = 1
  /\ gdb = "read" => flushed = Len(trace)
  /\ gdb = "start" => ~stream
  /\ gdb \in {"start", "main"} => Traced = {}

EndsInv == \A A \in areas : A.end = A.begin + A.size + 1

KeptInv ==
  /\ TypeOK
  /\ LiveInv
  /\ OrderInv
  /\ EndsInv
  /\ KnownInv
  /\ BroughtBackInv

LEMMA InitKept == Init => KeptInv
<1> SUFFICES ASSUME Init PROVE KeptInv
  OBVIOUS
<1>1. TypeOK
  BY InitType DEF TypeInv
<1>2. live = {} /\ areas = {} /\ Traced = {}
  BY DEF Init, Traced
<1>3. OrderInv
  BY <1>2 DEF Init, OrderInv
<1> QED
  BY <1>1, <1>2, <1>3 DEF KeptInv, LiveInv, EndsInv, KnownInv, BroughtBackInv

\* A line is added at the end of the trace; it removes no traced block that
\* stays, and brings any new one.
LEMMA KeptAppend ==
  ASSUME KeptInv, gdb \in {"start", "run"}, NEW l \in Line,
         trace' = Append(trace, l),
         UNCHANGED <<areas, line, gdb>>,
         \A b \in Traced' : (b \in Traced /\ ~Removes(l, b)) \/ Allocates(l, b)
  PROVE  KnownInv' /\ BroughtBackInv'
<1> DEFINE n == Len(trace) + 1
<1>1. trace \in Seq(Line) /\ line = 1 /\ n \in Nat \ {0}
  BY DEF KeptInv, OrderInv, TypeOK
<1>2. Unread = 1..(n - 1) /\ Unread' = 1..n /\ Len(trace') = n
  BY <1>1 DEF Unread
<1>3. /\ \A i \in 1..Len(trace) : trace'[i] = trace[i]
      /\ trace'[n] = l
  BY <1>1
<1> HIDE DEF n
<1>4. /\ n \in 1..n /\ 1..Len(trace) = 1..(n - 1)
      /\ \A i \in 1..(n - 1) : i \in 1..n /\ i < n
      /\ \A i \in 1..n : i \in 1..(n - 1) \/ i = n
  BY <1>1 DEF n
<1>5. KnownInv'
  <2> SUFFICES ASSUME NEW b \in Traced'
               PROVE  \/ \E A \in areas : Mirrors(A, b)
                      \/ \E i \in Unread' : Allocates(trace'[i], b)
    BY DEF KnownInv, Mirrors, Allocates
  <2>1. CASE Allocates(l, b)
    BY <2>1, <1>2, <1>3, <1>4
  <2>2. CASE b \in Traced
    BY <2>2, <1>2, <1>3, <1>4 DEF KeptInv, KnownInv
  <2> QED
    BY <2>1, <2>2
<1>6. BroughtBackInv'
  <2> SUFFICES ASSUME NEW b \in Traced', NEW k \in 1..n, Removes(trace'[k], b)
               PROVE  \E i \in 1..n : k < i /\ Allocates(trace'[i], b)
    BY <1>2 DEF BroughtBackInv, Removes, Allocates, Hits
  <2>1. CASE k = n
    BY <2>1, <1>3 DEF Removes, Allocates
  <2>2. CASE k \in 1..(n - 1) /\ Allocates(l, b)
    BY <2>2, <1>3, <1>4
  <2>3. CASE k \in 1..(n - 1) /\ b \in Traced
    <3>1. PICK i \in 1..(n - 1) : k < i /\ Allocates(trace[i], b)
      BY <2>3, <1>3, <1>4 DEF KeptInv, BroughtBackInv
    <3> QED
      BY <3>1, <1>3, <1>4
  <2> QED
    BY <2>1, <2>2, <2>3, <1>4
<1> QED
  BY <1>5, <1>6

\* Steps that write no line, read none and trace no further block.
LEMMA KeptSame ==
  ASSUME KeptInv, areas' = areas, trace' = trace, Unread \subseteq Unread',
         Traced' \subseteq Traced
  PROVE  KnownInv' /\ BroughtBackInv'
BY DEF KeptInv, KnownInv, BroughtBackInv, Mirrors, Allocates, Removes, Hits

\* A trace is emptied when all of it has been read, or before anything has been
\* traced.
LEMMA KeptEmpty ==
  ASSUME KeptInv, areas' = areas, trace' = <<>>, Traced' = Traced,
         Unread = {} \/ Traced = {}
  PROVE  KnownInv' /\ BroughtBackInv'
BY DEF KeptInv, KnownInv, BroughtBackInv, Mirrors

LEMMA KeptMalloc ==
  ASSUME KeptInv, NEW b \in Block, Malloc(b) \/ MallocInHook(b)
  PROVE  KnownInv' /\ BroughtBackInv'
<1>1. /\ \A c \in live : Apart(b, c)
      /\ live' = live \cup {b}
      /\ gdb \in {"start", "run"}
      /\ UNCHANGED <<stream, areas, count, line, gdb, dumps>>
      /\ MallocHook(b)
  BY DEF Malloc, MallocInHook, mirror
<1>2. CASE b.traced
  <2> DEFINE l == [op |-> "+", addr |-> b.addr, size |-> b.size, site |-> b.site]
  <2>1. trace' = Append(trace, l)
    BY <1>1, <1>2 DEF MallocHook, Write
  <2>2. l \in Line
    BY DEF Block, Line
  <2>3. Traced' = Traced \cup {b}
    BY <1>1, <1>2 DEF Traced
  <2>4. Allocates(l, b) /\ l.op # "-"
    BY DEF Allocates
  <2> HIDE DEF l
  <2>5. \A c \in Traced' : (c \in Traced /\ ~Removes(l, c)) \/ Allocates(l, c)
    BY <2>3, <2>4 DEF Removes
  <2> QED
    BY <1>1, <2>1, <2>2, <2>5, KeptAppend
<1>3. CASE ~b.traced
  <2>1. trace' = trace /\ Traced' = Traced
    BY <1>1, <1>3 DEF MallocHook, Traced
  <2>2. Unread' = Unread
    BY <1>1, <2>1 DEF Unread
  <2> QED
    BY <1>1, <2>1, <2>2, KeptSame
<1> QED
  BY <1>2, <1>3 DEF Block

LEMMA KeptFree ==
  ASSUME KeptInv, NEW b \in live, Free(b)
  PROVE  KnownInv' /\ BroughtBackInv'
<1>1. /\ live' = live \ {b}
      /\ gdb \in {"start", "run"}
      /\ UNCHANGED <<stream, areas, count, line, gdb, dumps>>
      /\ FreeHook(b)
  BY DEF Free, mirror
<1>2. b \in Block /\ live \subseteq Block
  BY DEF KeptInv, TypeOK
<1>3. Traced' \subseteq Traced /\ Traced' \subseteq live \ {b}
  BY <1>1 DEF Traced
<1>4. CASE stream
  <2> DEFINE l == [op |-> "-", addr |-> b.addr]
  <2>1. trace' = Append(trace, l)
    BY <1>1, <1>4 DEF FreeHook, Write
  <2>2. l \in Line
    BY <1>2 DEF Block, Line
  <2>3. l.addr = b.addr
    OBVIOUS
  <2> HIDE DEF l
  <2>4. \A c \in Traced' : c \in Traced /\ ~Removes(l, c)
    <3> SUFFICES ASSUME NEW c \in live, c # b
                 PROVE  ~Hits(b.addr, c.addr, c.size)
      BY <1>3, <2>3 DEF Removes
    <3>1. c \in Block /\ Apart(b, c)
      BY <1>2 DEF KeptInv, LiveInv
    <3> QED
      BY <1>2, <3>1, ApartNoHit
  <2> QED
    BY <1>1, <2>1, <2>2, <2>4, KeptAppend
<1>5. CASE ~stream
  <2>1. trace' = trace
    BY <1>1, <1>5 DEF FreeHook
  <2>2. Unread' = Unread
    BY <1>1, <2>1 DEF Unread
  <2> QED
    BY <1>1, <1>3, <2>1, <2>2, KeptSame
<1> QED
  BY <1>4, <1>5

\* mtrace() and what gdb does around it.
LEMMA KeptMtrace ==
  ASSUME KeptInv, ProgMtrace \/ MainBreakpoint \/ RestartTrace
  PROVE  KnownInv' /\ BroughtBackInv'
<1>1. MtraceCall /\ UNCHANGED <<live, mirror, dumps>>
  BY DEF ProgMtrace, MainBreakpoint, RestartTrace
<1>2. Traced' = Traced /\ areas' = areas
  BY <1>1 DEF Traced
<1>3. CASE trace' = <<>>
  BY <1>2, <1>3, KeptEmpty
  DEF ProgMtrace, MainBreakpoint, RestartTrace, KeptInv, OrderInv, Unread
<1>4. CASE trace' = trace
  <2>1. Unread \subseteq Unread'
    BY <1>4 DEF ProgMtrace, MainBreakpoint, RestartTrace, Unread
  <2> QED
    BY <1>2, <1>4, <2>1, KeptSame
<1> QED
  BY <1>1, <1>3, <1>4 DEF MtraceCall

LEMMA KeptRead ==
  ASSUME KeptInv, ReadAlloc \/ ReadFree
  PROVE  KnownInv' /\ BroughtBackInv' /\ EndsInv'
<1> DEFINE l == trace[line]
<1>1. /\ gdb = "read" /\ line <= flushed /\ line' = line + 1
      /\ trace' = trace /\ gdb' = gdb /\ live' = live
  BY DEF ReadAlloc, ReadFree, heap
<1>2. Traced' = Traced
  BY <1>1 DEF Traced
<1>3. line \in 1..Len(trace)
  BY <1>1 DEF KeptInv, TypeOK
<1>4. /\ Unread = line..Len(trace) /\ Unread' = (line + 1)..Len(trace)
      /\ line \in Unread
      /\ \A i \in Unread : i \in Unread' \/ i = line
  BY <1>1, <1>3 DEF Unread
<1>5. BroughtBackInv'
  BY <1>1, <1>2 DEF KeptInv, BroughtBackInv, Removes, Allocates, Hits
<1>6. EndsInv' /\ KnownInv'
  <2>1. CASE ReadAlloc
    <3> DEFINE N == NewArea(l, count[l.site] + 1)
    <3>1. areas' = areas \cup {N}
      BY <2>1 DEF ReadAlloc
    <3>2. /\ N.begin = l.addr /\ N.size = l.size /\ N.site = l.site
          /\ N.end = l.addr + l.size + 1
      BY DEF NewArea
    <3> HIDE DEF N
    <3>3. EndsInv'
      BY <3>1, <3>2 DEF KeptInv, EndsInv
    <3>4. ASSUME NEW b \in Traced
          PROVE  \/ \E A \in areas' : Mirrors(A, b)
                 \/ \E i \in Unread' : Allocates(trace[i], b)
      <4>1. CASE Allocates(l, b)
        BY <4>1, <3>1, <3>2 DEF Allocates, Mirrors
      <4>2. CASE ~Allocates(l, b)
        BY <4>2, <3>1, <1>4 DEF KeptInv, KnownInv
      <4> QED
        BY <4>1, <4>2
    <3> QED
      BY <3>3, <3>4, <1>1, <1>2 DEF KnownInv, Mirrors, Allocates
  <2>2. CASE ReadFree
    <3>1. areas' = areas \ Query(l.addr) /\ l.op = "-"
      BY <2>2 DEF ReadFree
    <3>2. EndsInv'
      BY <3>1 DEF KeptInv, EndsInv
    <3>3. ASSUME NEW b \in Traced
          PROVE  \/ \E A \in areas' : Mirrors(A, b)
                 \/ \E i \in Unread' : Allocates(trace[i], b)
      <4>1. CASE \E i \in Unread : Allocates(trace[i], b)
        BY <4>1, <3>1, <1>4 DEF Allocates
      <4>2. CASE \E A \in areas : Mirrors(A, b)
        <5>1. PICK A \in areas : Mirrors(A, b)
          BY <4>2
        <5>2. CASE A \in Query(l.addr)
          <6>1. b.addr \in Nat /\ b.size \in Nat /\ l.addr \in Nat
            <7>1. l.addr \in Addr
              BY <1>3, LineType DEF KeptInv
            <7> QED
              BY <7>1, AddrAssumption DEF KeptInv, TypeOK, Traced, Block
          <6>2. b.addr <= l.addr /\ l.addr < b.addr + b.size + 1
            BY <5>1, <5>2 DEF Query, Mirrors, KeptInv, EndsInv
          <6>3. Removes(l, b)
            BY <6>1, <6>2, <3>1 DEF Removes, Hits
          <6>4. PICK i \in 1..Len(trace) : line < i /\ Allocates(trace[i], b)
            BY <6>3, <1>3 DEF KeptInv, BroughtBackInv
          <6>5. i \in Unread'
            BY <6>4, <1>3, <1>4
          <6> QED
            BY <6>4, <6>5
        <5>3. CASE A \notin Query(l.addr)
          BY <5>1, <5>3, <3>1
        <5> QED
          BY <5>2, <5>3
      <4> QED
        BY <4>1, <4>2 DEF KeptInv, KnownInv
    <3> QED
      BY <3>2, <3>3, <1>1, <1>2 DEF KnownInv, Mirrors, Allocates
  <2> QED
    BY <2>1, <2>2
<1> QED
  BY <1>5, <1>6

LEMMA NextKept ==
  ASSUME KeptInv, [Next]_vars
  PROVE  KnownInv' /\ BroughtBackInv' /\ EndsInv'
<1>1. ASSUME NEW b \in Block, Malloc(b) \/ MallocInHook(b)
      PROVE  KnownInv' /\ BroughtBackInv' /\ EndsInv'
  BY <1>1, KeptMalloc DEF Malloc, MallocInHook, KeptInv, EndsInv
<1>2. ASSUME NEW b \in live, Free(b)
      PROVE  KnownInv' /\ BroughtBackInv' /\ EndsInv'
  BY <1>2, KeptFree DEF Free, KeptInv, EndsInv
<1>3. CASE ProgMtrace \/ MainBreakpoint \/ RestartTrace
  BY <1>3, KeptMtrace
  DEF ProgMtrace, MainBreakpoint, RestartTrace, KeptInv, EndsInv
<1>4. CASE ReadAlloc \/ ReadFree
  BY <1>4, KeptRead
<1>5. CASE \/ ProgMuntrace \/ StopTrace \/ ReadEnd \/ Report
           \/ ProgramExits \/ UNCHANGED vars
  <2>1. areas' = areas /\ live' = live /\ trace' = trace
    BY <1>5 DEF ProgMuntrace, StopTrace, MuntraceCall, ReadEnd, Report,
       ProgramExits, vars
  <2>2. Traced' = Traced
    BY <2>1 DEF Traced
  <2>3. Unread \subseteq Unread'
    <3>1. CASE ReadEnd
      <4>1. line \in Nat /\ line > Len(trace) /\ Len(trace) \in Nat
        BY <3>1 DEF ReadEnd, KeptInv, OrderInv, TypeOK
      <4> QED
        BY <3>1, <4>1 DEF ReadEnd, Unread
    <3>2. CASE ProgMuntrace \/ StopTrace \/ Report \/ ProgramExits \/ UNCHANGED vars
      BY <2>1, <3>2 DEF ProgMuntrace, StopTrace, Report, ProgramExits, vars, Unread
    <3> QED
      BY <1>5, <3>1, <3>2
  <2> QED
    BY <2>1, <2>2, <2>3, KeptSame DEF KeptInv, EndsInv
<1> QED
  BY <1>1, <1>2, <1>3, <1>4, <1>5 DEF Next, ProgramStep, GdbStep, Ended

LEMMA NextOrder ==
  ASSUME KeptInv, [Next]_vars
  PROVE  OrderInv'
<1> USE DEF KeptInv, OrderInv, Traced
<1>1. ASSUME NEW b \in Block, Malloc(b) \/ MallocInHook(b)
      PROVE  OrderInv'
  BY <1>1 DEF Malloc, MallocInHook, MallocHook
<1>2. ASSUME NEW b \in live, Free(b)
      PROVE  OrderInv'
  BY <1>2 DEF Free, FreeHook
<1>3. CASE ProgMtrace \/ MainBreakpoint \/ RestartTrace
  BY <1>3 DEF ProgMtrace, MainBreakpoint, RestartTrace, MtraceCall
<1>4. CASE StopTrace \/ ProgMuntrace
  BY <1>4 DEF StopTrace, ProgMuntrace, MuntraceCall
<1>5. CASE ReadAlloc \/ ReadFree \/ ReadEnd
  BY <1>5 DEF ReadAlloc, ReadFree, ReadEnd
<1>6. CASE Report \/ ProgramExits \/ UNCHANGED vars
  BY <1>6 DEF Report, ProgramExits, vars
<1> QED
  BY <1>1, <1>2, <1>3, <1>4, <1>5, <1>6 DEF Next, ProgramStep, GdbStep, Ended

\* Whatever fopen does and whenever the program closes the trace: at a dump no
\* traced block that is alive is missing from the tree.
THEOREM NothingIsMissing == Spec => []NothingMissing
<1>1. ASSUME KeptInv, [Next]_vars
      PROVE  KeptInv'
  <2>1. TypeOK'
    BY <1>1, NextType DEF KeptInv, OrderInv, TypeInv
  <2>2. LiveInv'
    BY <1>1, NextLive DEF KeptInv
  <2> QED
    BY <1>1, <2>1, <2>2, NextKept, NextOrder DEF KeptInv
<1>2. KeptInv => NothingMissing
  BY DEF KeptInv, KnownInv, Unread, NothingMissing
<1> QED
  BY InitKept, <1>1, <1>2, PTL DEF Spec
=============================================================================
