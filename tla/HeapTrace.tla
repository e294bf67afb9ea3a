----------------------------- MODULE HeapTrace -----------------------------
(***************************************************************************)
(* How ErrorDumper knows the heap of the program under analysis.           *)
(*                                                                         *)
(* asan_trace.c runs in the program: AddressSanitizer calls its hooks on   *)
(* every malloc and free, and while mallstream is open they write a line   *)
(* to the file MALLOC_TRACE.  GenericPrinter.py runs in gdb: at each dump  *)
(* the gdb command update_mtrace stops the trace with muntrace(), has      *)
(* python replay the file into the interval tree heap_areas, and starts a  *)
(* new trace with mtrace(), which truncates the file.  Every pointer that  *)
(* is printed is then looked up in heap_areas.                             *)
(*                                                                         *)
(* Addresses are small numbers.  A block is at least RedZone bytes away    *)
(* from any other: the README requires AddressSanitizer.                   *)
(***************************************************************************)
EXTENDS Naturals, Sequences

CONSTANTS
  Addr,         \* addresses malloc may return
  Size,         \* sizes in bytes
  Site,         \* call sites of malloc, the "bt[3]/bt[4]" of the trace
  SiteKey,      \* the exclusive or of the two addresses of a site
  RedZone,      \* distance AddressSanitizer keeps between two blocks
  OpenMayFail,  \* whether fopen in mtrace may fail
  OwnMuntrace,  \* whether the program calls muntrace() before it ends
  MaxLines,     \* bound on the lines of a trace
  MaxDumps      \* bound on the dumps

ASSUME AddrAssumption == Addr \subseteq Nat /\ Size \subseteq Nat \ {0}
ASSUME KeyAssumption == SiteKey \in [Site -> Nat]
ASSUME RedZoneAssumption == RedZone \in Nat \ {0}
ASSUME BoundAssumption ==
  /\ {OpenMayFail, OwnMuntrace} \subseteq BOOLEAN
  /\ MaxLines \in Nat
  /\ MaxDumps \in Nat

VARIABLES
  live,     \* blocks allocated by the program and not freed yet
  stream,   \* mallstream is not NULL
  trace,    \* lines written to MALLOC_TRACE since it was opened last
  flushed,  \* how many of them have left the buffer of the stream
  areas,    \* the interval tree heap_areas
  count,    \* alloc_sites_count
  line,     \* the next line update_mtrace will read
  gdb,      \* where gdb is
  dumps     \* dumps so far

heap == <<live, stream, trace, flushed>>
mirror == <<areas, count, line>>
vars == <<live, stream, trace, flushed, areas, count, line, gdb, dumps>>

\* "traced" says whether the hook wrote a line for the block.
Block == [addr : Addr, size : Size, site : Site, traced : BOOLEAN]

Line == [op : {"+"}, addr : Addr, size : Size, site : Site]
          \cup [op : {"-"}, addr : Addr]

\* An interval of heap_areas with its data (size_byte, alloc_site, count).
Area == [begin : Addr, end : Nat, size : Size, site : Site, count : Nat]

GdbState == {"start", "main", "run", "read", "rearm", "report", "exit"}

Apart(b, c) ==
  \/ b.addr + b.size + RedZone <= c.addr
  \/ c.addr + c.size + RedZone <= b.addr

Init ==
  /\ live = {}
  /\ stream = FALSE
  /\ trace = <<>>
  /\ flushed = 0
  /\ areas = {}
  /\ count = [s \in Site |-> 0]
  /\ line = 1
  /\ gdb = "start"
  /\ dumps = 0

----------------------------------------------------------------------------
(* The program under analysis, linked with asan_trace.c.                   *)

\* fprintf to mallstream: when the line does not fit any more, the buffer set
\* with setvbuf is written first.
Write(l) ==
  /\ Len(trace) < MaxLines
  /\ trace' = Append(trace, l)
  /\ flushed' \in {flushed, Len(trace)}

\* __asan_malloc_hook.
MallocHook(b) ==
  IF b.traced
    THEN Write([op |-> "+", addr |-> b.addr, size |-> b.size, site |-> b.site])
    ELSE UNCHANGED <<trace, flushed>>

\* __asan_free_hook: there is no test of "recursive" here.
FreeHook(b) ==
  IF stream THEN Write([op |-> "-", addr |-> b.addr])
            ELSE UNCHANGED <<trace, flushed>>

Malloc(b) ==
  /\ gdb \in {"start", "run"}
  /\ \A c \in live : Apart(b, c)
  /\ b.traced = stream
  /\ live' = live \cup {b}
  /\ MallocHook(b)
  /\ UNCHANGED <<stream, mirror, gdb, dumps>>

\* backtrace() and backtrace_symbols() allocate inside the hook, where
\* "recursive" is set: no line, although the stream is open.
MallocInHook(b) ==
  /\ gdb = "run"
  /\ stream
  /\ \A c \in live : Apart(b, c)
  /\ ~b.traced
  /\ live' = live \cup {b}
  /\ MallocHook(b)
  /\ UNCHANGED <<stream, mirror, gdb, dumps>>

Free(b) ==
  /\ gdb \in {"start", "run"}
  /\ b \in live
  /\ live' = live \ {b}
  /\ FreeHook(b)
  /\ UNCHANGED <<stream, mirror, gdb, dumps>>

\* Mutant: fopen for appending.
MtraceCallAppends ==
  IF stream THEN UNCHANGED <<stream, trace, flushed>>
  ELSE stream' = TRUE /\ UNCHANGED <<trace, flushed>>

\* Mutant: the old file stays open for the reader, its length is remembered.
MtraceCallKeepsLength ==
  IF stream THEN UNCHANGED <<stream, trace, flushed>>
  ELSE stream' = TRUE /\ trace' = <<>> /\ UNCHANGED flushed

\* mtrace(): nothing if the stream is open, and nothing if fopen fails, which
\* leaves the old file where it is.  The blocks malloc and fopen take here are
\* not traced, nor is the one that fclose frees: mallstream is NULL then.
MtraceCall ==
  IF stream THEN UNCHANGED <<stream, trace, flushed>>
  ELSE \/ /\ stream' = TRUE
          /\ trace' = <<>>
          /\ flushed' = 0
       \/ /\ OpenMayFail
          /\ UNCHANGED <<stream, trace, flushed>>

\* muntrace(): nothing if the stream is closed; fclose writes the buffer.
MuntraceCall ==
  /\ stream' = FALSE
  /\ flushed' = Len(trace)
  /\ UNCHANGED trace

\* The program's own calls, at the beginning and at the end of its main().
ProgMtrace ==
  /\ gdb = "main"
  /\ MtraceCall
  /\ gdb' = "run"
  /\ UNCHANGED <<live, mirror, dumps>>

ProgMuntrace ==
  /\ OwnMuntrace
  /\ gdb = "run"
  /\ MuntraceCall
  /\ UNCHANGED <<live, mirror, gdb, dumps>>

ProgramStep ==
  \/ \E b \in Block : Malloc(b) \/ MallocInHook(b)
  \/ \E b \in live : Free(b)
  \/ ProgMtrace
  \/ ProgMuntrace

----------------------------------------------------------------------------
(* gdb, while the program is stopped.                                      *)

\* "break main": set $foo = mtrace()
MainBreakpoint ==
  /\ gdb = "start"
  /\ MtraceCall
  /\ gdb' = "main"
  /\ UNCHANGED <<live, mirror, dumps>>

\* A traced function has returned: dump_call goes on with update_mtrace, which
\* starts with set $foo = muntrace()
StopTrace ==
  /\ gdb = "run"
  /\ dumps < MaxDumps
  /\ MuntraceCall
  /\ gdb' = "read"
  /\ dumps' = dumps + 1
  /\ UNCHANGED <<live, mirror>>

\* Mutant: without the "+1" of GenericPrinter.py:77.
NewAreaExact(l, n) ==
  [begin |-> l.addr, end |-> l.addr + l.size,
   size |-> l.size, site |-> l.site, count |-> n]

\* heap_areas[a : a + size + 1] = (size, site, count)
NewArea(l, n) ==
  [begin |-> l.addr, end |-> l.addr + l.size + 1,
   size |-> l.size, site |-> l.site, count |-> n]

\* Mutant: closed intervals.
QueryClosed(p) == {A \in areas : A.begin <= p /\ p <= A.end}

\* heap_areas[p], the areas whose half-open interval contains p.
Query(p) == {A \in areas : A.begin <= p /\ p < A.end}

ReadAlloc ==
  /\ gdb = "read"
  /\ line <= flushed
  /\ trace[line].op = "+"
  /\ LET l == trace[line]
         n == count[l.site] + 1
     IN  /\ count' = [count EXCEPT ![l.site] = n]
         /\ areas' = areas \cup {NewArea(l, n)}
  /\ line' = line + 1
  /\ UNCHANGED <<heap, gdb, dumps>>

\* Mutant: the number of a freed block is given back.
ReadFreeGivesBack ==
  /\ gdb = "read"
  /\ line <= flushed
  /\ trace[line].op = "-"
  /\ areas' = areas \ Query(trace[line].addr)
  /\ count' = [s \in Site |->
                 IF \E A \in Query(trace[line].addr) : A.site = s
                   THEN count[s] - 1 ELSE count[s]]
  /\ line' = line + 1
  /\ UNCHANGED <<heap, gdb, dumps>>

\* heap_areas.remove_overlap(a)
ReadFree ==
  /\ gdb = "read"
  /\ line <= flushed
  /\ trace[line].op = "-"
  /\ areas' = areas \ Query(trace[line].addr)
  /\ line' = line + 1
  /\ UNCHANGED <<heap, count, gdb, dumps>>

\* update_mtrace() returns at the end of the file.
ReadEnd ==
  /\ gdb = "read"
  /\ line > flushed
  /\ line' = 1
  /\ gdb' = "rearm"
  /\ UNCHANGED <<heap, areas, count, dumps>>

\* set $foo = mtrace()
RestartTrace ==
  /\ gdb = "rearm"
  /\ MtraceCall
  /\ gdb' = "report"
  /\ UNCHANGED <<live, mirror, dumps>>

\* heap_dump and printVariables read heap_areas, then gdb continues.
Report ==
  /\ gdb = "report"
  /\ gdb' = "run"
  /\ UNCHANGED <<heap, mirror, dumps>>

ProgramExits ==
  /\ gdb = "run"
  /\ gdb' = "exit"
  /\ UNCHANGED <<heap, mirror, dumps>>

Ended == gdb = "exit" /\ UNCHANGED vars

GdbStep ==
  \/ MainBreakpoint
  \/ StopTrace
  \/ ReadAlloc
  \/ ReadFree
  \/ ReadEnd
  \/ RestartTrace
  \/ Report
  \/ ProgramExits

Next == ProgramStep \/ GdbStep \/ Ended

Spec == Init /\ [][Next]_vars

----------------------------------------------------------------------------
(* What is printed of a pointer.                                           *)

\* get_alloc_id
AllocId(A) == SiteKey[A.site] + A.count

\* PointerPrinter: <HEAP(id, size, +offset)> for the first of the areas found.
HeapLabels(p) ==
  {[id |-> AllocId(A), size |-> A.size, offset |-> p - A.begin] :
     A \in {B \in Query(p) : \A C \in Query(p) : B.begin <= C.begin}}

----------------------------------------------------------------------------
(* Properties.                                                             *)

TypeOK ==
  /\ live \subseteq Block
  /\ stream \in BOOLEAN
  /\ trace \in Seq(Line)
  /\ flushed \in 0..Len(trace)
  /\ areas \subseteq Area
  /\ count \in [Site -> Nat]
  /\ line \in 1..(flushed + 1)
  /\ gdb \in GdbState
  /\ dumps \in 0..MaxDumps

Traced == {b \in live : b.traced}

Mirrors(A, b) == A.begin = b.addr /\ A.size = b.size /\ A.site = b.site

\* When something is printed, the areas are the traced blocks that are alive,
\* each of them once: blocks freed, moved or replaced since the last dump left
\* no interval behind.
MirrorExact ==
  gdb = "report" =>
    /\ \A b \in Traced : \E A \in areas : Mirrors(A, b)
    /\ \A A \in areas : \E b \in Traced : Mirrors(A, b)
    /\ \A A, B \in areas : A.begin = B.begin => A = B

\* A pointer into a traced block, or just behind its end (GenericPrinter.py:79),
\* is printed with the size of that block and its offset in it, and in one
\* way only.
PointersResolve ==
  gdb = "report" =>
    \A b \in Traced : \A p \in b.addr..(b.addr + b.size) :
      \E A \in areas :
        /\ Mirrors(A, b)
        /\ HeapLabels(p) = {[id |-> AllocId(A), size |-> b.size,
                             offset |-> p - b.addr]}

\* Two allocations of the same site never have the same number, not even when
\* an old trace is read again.
NumbersDistinct ==
  \A A, B \in areas : A.site = B.site /\ A.count = B.count => A = B

\* Even if a trace could not be restarted or the program closed it itself, no
\* traced block that is alive is missing from the tree.
NothingMissing ==
  gdb = "report" => \A b \in Traced : \E A \in areas : Mirrors(A, b)
============================================================================
