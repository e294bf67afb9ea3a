# A TLA+ verification of ErrorDumper

ErrorDumper injects faults into a program, runs each faulty version under gdb,
and dumps the variables and the heap at the return of chosen functions, so that
the dumps can be compared with those of a fault-free run. This directory holds
TLA+ models of the parts that decide whether the stored dumps can be trusted,
the TLC runs that check them on small instances, and TLAPS proofs that carry
the main results to every instance. Paths below are relative to the
repository, which is `src/` here.

## 1. Inventory

| Component | Source | State it keeps | Operations |
|---|---|---|---|
| Campaign driver | `execute_tests.sh` | the list of versions to visit, `FAULT`, the watchdogs, `/tmp/{stdout,stderr,killed}.txt`, `$SAVEDIR/$FAULT/` | list, skip, clear_testbed, install, spawn, arm watchdog, wait, handle_timeout, mkdir, save_results |
| Debugger launcher | `dump.sh` | files in `WORKDIR`, `breakpoints.gdb` | clean up, check the program, write the gdb script, run gdb |
| gdb script | `dump.sh` 233-345 | `$i`, enabled breakpoints, stack bounds, `prev_sal` | break main, dump_call (finish, next, enable, dump, continue) |
| Heap trace, program side | `dump/asan_trace/asan_trace.c` | `mallstream`, its buffer, `recursive`, the file `MALLOC_TRACE` | malloc hook, free hook, mtrace, muntrace |
| Heap trace, gdb side | `dump/GenericPrinter.py` 43-127 | `heap_areas` (an interval tree), `alloc_sites_count` | update_mtrace, heap_dump, get_alloc_id |
| Pretty printer | `dump/GenericPrinter.py` 131-518, `dump/AutoDump.py` | `address_dict` | lookup_function, GenericPrinter, process_kids, printer, printVariables |
| Pointer classification | `dump/GenericPrinter.py` 11-28, 186-247, 383-424 | `heap_areas`, the bounds of stack and sections | PointerPrinter, the labels in printer |
| libstdc++ printers | `dump/STL/python/libstdcxx/v6/printers.py` | an iterator per container that is being listed | to_string, children, `__next__` for each container |
| libstdc++ xmethods | `dump/STL/python/libstdcxx/v6/xmethods.py` | none | never registered |
| Single runs | `run_fault.sh`, `run_fault_free.sh` | `/Results/SporadicRuns` | install, run, store |
| Container image, gdb patches | `Dockerfile`, `*.patch` | none of their own | build steps |
| Programs under analysis | `mcf/`, `bzip2/`, ... | theirs | allocate, free, call, end, hang |

How they interact. `execute_tests.sh` starts `dump.sh` in the background, with
its output going through a process substitution to `tee`, and starts a watchdog
subshell that sends it SIGUSR1 after `TIMEOUT`. They share `/tmp` and
`WORKDIR`; nothing but process names and exit statuses connects them. `dump.sh`
ends as gdb. gdb calls `mtrace()` and `muntrace()` inside the stopped program;
the program and the python code in gdb communicate through the file
`MALLOC_TRACE` and through nothing else. The pretty printer reads what
`update_mtrace` built and shares with the gdb script the bounds of the stack.
gdb asks the printers of libstdc++ first, then `lookup_function`; a member of a
struct passes `printer()` before either of them, and `printer()` looks into a
std::vector by itself, besides its printer.

What is hard, and the properties that make each part correct:

* **Campaign driver.** Four kinds of processes run concurrently; a trap runs
  between any two commands; `wait` is ended by a signal, a crash and an exit
  status alike; the container may be stopped anywhere and started over the
  results of the campaign before. It is correct if every version listed is
  accounted for, is executed at most once, and is never touched again after its
  results were stored (`AllAccounted`, `StoredIsFinal`, `RefinesLog`); if what
  is stored belongs to the right experiment, which holds until a stopped container
  is started again, and says truthfully how it ended (`NoForeignFiles`, `RunsOwnBinary`, `OneTestAtATime`, `UnmarkedEndedWell`,
  `MarkedMeansTimeout`, `NotCutShort`, `StaleTimersAreMarked`,
  `SkippedIsStored`); and if nothing waits for ever (`WaitEnds`, `CampaignEnds`).
* **Heap trace.** Blocks are freed and their addresses taken again between two
  dumps; lines are buffered; the file is truncated, replayed or kept; the
  intervals of the tree are one byte longer than the blocks. It is correct if
  the tree agrees with the heap whenever something is printed (`MirrorExact`,
  `NothingMissing`), pointers are resolved to the right block and offset
  (`PointersResolve`), and numbers are never reused (`NumbersDistinct`).
* **gdb script.** finish and next let the program run with the breakpoints
  disabled; they may end in another frame, by a signal, an exception or the end
  of the program; an error of any command ends the script, gdb and the program.
  It is correct if dumps are numbered as they are announced, one for each call
  (`RefinesDumpLog`), each is taken in the caller of its call (`DumpedInCaller`)
  with the bounds of the stack that is there (`StackKnown`), and what is missed
  is inside a call that was announced (`MissedInside`).
* **Pretty printer.** Recursion over cyclic, aliased data, ended only by
  `address_dict`, which knows an area by its first address; exceptions leave
  generators half-way. It is correct if every area that a pointer in a printed
  object leads into is in the same dump, all of it, or in a file
  (`NothingDropped`; it fails of an array whose first element was printed by
  itself, of which no more than that element is sure), if `<PRINTED>` is true
  (`PrintedWasDumped`, which fails, and `PrintedIsTrue`, which says when it does
  not), if no struct is printed twice (`ShownOnce`), if the dump and the recursion
  are bounded by the data (`OutputBounded`, `DepthBounded`, `DumpEnds`), and if
  every variable is in the dump, a pointer with the struct it leads to, or said to
  be invalid (`VariablesPrinted`).
* **Pointer classification.** Dumps of different executions are compared, and
  addresses differ between them; intervals are closed, may be adjacent and are
  tried in an order. What is printed of a pointer is its raw address, which
  differs between executions, and a label behind it. The label is correct if it
  says the same of where the object is (area, offset, size of the block) wherever
  image, libraries, stack and heap were loaded (`LabelsMove`). The number of a heap
  block is not as stable: it is the exclusive or of two absolute return addresses,
  so it is the same only as long as image and libraries stay where they are.
* **libstdc++ printers.** The printers walk memory that the program may not have
  initialised yet or has released. They are correct if they list a live
  container completely and in order (`LinkedListed`, `ArraysListed`,
  `TreesListed`, `BitsListed`), announce what they list
  (`AnnouncedIsListed`), stay within what is announced if the container is dead
  (`ListingBounded`), and end (`PrintingEnds`); if `printer()` calls itself for
  the elements of a vector of pointers, up to the first one that raises an error,
  which `except: pass` swallows together with the rest (`ElementsFollowed`); and if
  it leaves no container out (`ContainersShown`, which fails).

## 2. Modules

| Module | What it is |
|---|---|
| `ExperimentLog` | what a campaign promises: one experiment at a time, each version at most once |
| `Campaign` | `execute_tests.sh` with `dump.sh`, watchdogs, tees and the container |
| `MCCampaign` | instances for TLC: four versions (a duplicate line, one without a `.diff`), three, or two |
| `CampaignProofs` | theorems that hold of every campaign |
| `CampaignSoundProofs` | theorems that hold of orderly campaigns |
| `HeapTrace` | `asan_trace.c`, the gdb script as far as it drives the trace, `update_mtrace` and the lookup of pointers |
| `MCHeapTrace` | small heaps for TLC |
| `HeapTraceProofs` | theorems about the trace |
| `PrettyPrint` | `printVariables`, `GenericPrinter` and `printer` as a traversal of a graph of areas, with the choice of `heap_dump` |
| `MCPrettyPrint` | two areas for TLC |
| `PrettyPrintProofs` | theorems about dumps of heaps of any size |
| `PrettyPrintOnceProofs` | no struct is printed twice in one dump |
| `DumpLog` | what `dump.txt` promises: numbered dumps, each announced before it is taken |
| `DumpCall` | the gdb script of `dump.sh` over the calls of a program |
| `MCDumpCall` | a traced function, one that is not, and one without lines |
| `DumpCallProofs` | theorems about the script for every program |
| `PointerLabels` | the label that is printed behind an address |
| `StdContainers` | how libstdc++ keeps its containers in memory (external) |
| `ValuePrinters` | the printers of libstdc++, PointerPrinter and `printer()` for one value |
| `MCValuePrinters` | small containers of every kind, live and dead, and pointers |
| `ValuePrintersProofs` | theorems about values of any size and shape |

`DumpCall` stands above the others: its step `Dump` is what `HeapTrace` and
`PrettyPrint` are about, and `PrettyPrint` leaves to `ValuePrinters` the values
that are not structs, heap pointers or plain. Definitions after a comment that
begins with "Mutant:" are not part of a model: they are the plausible slips that
each property is shown to detect.

### Campaign

`pc` is the script's place in the loop body; there is one action per command of
the loop that changes anything another process or a later command can see:
`ListFaults` (444-469: `ls`, perl, sort, join), `Skip` / `Take` (490-540),
`AllExecuted` (493-499), `ClearTestbed`, `InstallFaulty`, `SpawnTest`,
`ArmTimer`, `WaitOk` / `WaitFailed` (598-613), `MarkKilled`, `MakeDir`, and the
commands of `save_results`: `SaveLogs` (mv), `SaveOutputs` (mv), `SaveAreas` (tar)
and `RemoveAreas` (rm) of `*.dump`, then for `dump.txt` `Compress` and
`CompressEnds` (bzip2, which may be interrupted), `CompressRefused` (there is a
`dump.txt.bz2`, which bzip2 does not write over), `StoreDump` (mv) or `NoDump`. Trap and watchdog are `HandleTimeout(f)`: it may
happen between any two commands, ends `wait`, and kills what `ps | grep gdb`
finds at that moment. `dump.sh` is `CleanUp`, `NoMtrace`, `RunGdb`,
`WriteFile` (the program one of its OUTPUTS, or `heap_dump` a `*.dump`),
`GdbExits`; `TeeEnds` is the end of the process substitution.
`StopContainer` and `StartContainer` are the environment: `/Results` survives,
and `/tmp` and `WORKDIR` survive if the same container is started again.

Abstractions. A version is its rank in the order of sort(1), so the sorted list
is a nondecreasing sequence; what perl does to the lines of the list is in
`FaultList` already. A file is a kind and the experiment that wrote it:
`stdout.txt` and `stderr.txt` are one kind, "area" is the `*.dump` files, "packed"
and "packedCut" are `dump.txt.bz2`, complete or not; `Written` says which kinds a
test may write besides `dump.txt`. `breakpoints.gdb` and `mtrace.out` are not
stored and left out, and so is `dump_tail.txt`. mv and tar are one step each.
What removes files is modelled by what it does: `clear_testbed` lists the names of
`*.dump` in `WORKDIR` and runs rm on them in `PROGDIR`, so they stay, and
`dump.sh` removes `dump.txt` only. All ways into
`sleep 1000000000` (the freeze file, a vanished list, a full disk, bspatch or
mv failing) are one action `Stall`, which nothing leaves. The loops that repeat
`rkill -9` until no gdb is left are one step. The `sleep` that survives
`kill $TPID` signals nobody and is left out.

### HeapTrace

The program's side: `live` (with a flag `traced`: the hook wrote a line),
`stream` (`mallstream # NULL`), `trace` (the lines since the file was opened)
and `flushed` (how many of them left the 512-byte buffer; a line that is cut by
the end of the buffer counts as not flushed). `Malloc` is a malloc with its
hook, `MallocInHook` one that the hook's own `backtrace` makes while `recursive`
is set, `Free` a free with its hook. `MtraceCall` and `MuntraceCall` are the two
functions; gdb calls them in `MainBreakpoint`, `StopTrace` and `RestartTrace`,
the program in `ProgMtrace` and `ProgMuntrace`.

The debugger's side: `areas` and `count` are `heap_areas` and
`alloc_sites_count`, `line` is the reader's place in the file; `ReadAlloc`,
`ReadFree` and `ReadEnd` are the loop of `update_mtrace`. The state in which
`gdb = "report"` is the one in which `heap_dump` and `printVariables` read the
tree. `Query` is `heap_areas[p]` and `remove_overlap(p)`, `HeapLabels` what
PointerPrinter prints.

Abstractions. Addresses are small numbers; a block is at least `RedZone` bytes
away from any other, which AddressSanitizer provides and the README of the
repository requires. The 0xbe fill, the "= Start" and "= End" lines (skipped by
the reader) and the blocks that mtrace and fopen take themselves (never traced,
never freed with the stream open) are left out. The program is single-threaded.
A dump happens at the return of some traced function: at any moment, for the
trace. The program may free and allocate as it likes between any two steps of
the debugger in which it runs.

### PrettyPrint

The data of the stopped program is constant: `kind`, `len` and `link` describe
areas and variables, and `Init` ranges over every graph of the given size.
`dict` is `address_dict`; `frames` are the python generators that gdb has under
way, one per struct that is being formatted, each the list of what it has still
to do (`Task`): pass a value to `printer()`, or have gdb format what it
yielded. `out` is the dump as a sequence of items, `files` what `heap_dump`
wrote. `NewDump` is the middle of `dump_call` (`dump.sh` 277-281);
`PrintStruct`, `PrintPointer`, `VariableInvalid` and `TargetInvalid` are an
iteration of `printVariables`, without an error and with one of `print v` or
`print *v`;
`FormatStruct` and `FormatPointer` are gdb asking `lookup_function` for a
printer; `FollowArray`, `FollowBinary`, `FollowSingle`, `FollowSeen`,
`FollowInvalid` and `FollowOpaque` are the branches of `printer()` for a pointer
into the heap (354-494). The loop over the pointers in an area runs inside the `try` of
the pointer to the area: the task `leave` (`EndOfLoop`) stands for its end, and
`ElementInvalid` is an error of `if not val` (321), outside the `try` of the
element, that skips to it; for a member of a struct nobody catches that error and
the generator ends (`MemberInvalid`). A `print` of a variable is not `printer()`:
a pointer variable is shown, which is a line of its own ("variable"), and
dereferenced once, and nothing is remembered of it.

Abstractions. An area holds one kind of element, structs or pointers to
structs, and the pointers to it have the matching type; elements have one byte
and pointers lead to the begin of one, or just behind the last, where nothing
is known of what gdb finds. A struct within a struct counts as its members.
What `printer()` shows without following it is `Plain` (`ShowPlain`). `printer()` calling
itself on a pointer to a pointer adds tasks to the generator it runs in; only
gdb nests, and `MaxDepth` stands for its stack. The exception for a pointer to
an incomplete type is ZeroDivisionError in `size_byte / sizeof`. Strings and the
wording of the labels are left out; containers are in `ValuePrinters`.

### DumpCall

`stack` is the stack of the program, whose frames are numbered activations;
`calls` counts them. `Enters`, `CallMain`, `Call`, `Return`, `LineBegins`,
`Signal` and `Exit` are what the program may do while it runs, and what it does
to gdb: a call of a traced function is a breakpoint if they are enabled, a
return may end `finish` or `next`. `Return(n)` leaves any number of frames, since
exceptions and longjmp do. The script is in `pc`: `run` (continue), `hit`
(a breakpoint), `finish`, `finished`, `next`, `stepped`, `bounded`, `dump`,
`continue`, and `over`. Its steps are the commands of `dump_call` in their
order: `Finish` (announce, disable, finish; 257-270), `StepLine` / `NewLine` (271),
`ReadStackEnd` (272), `Enable` (273), `Dump` (277-283), `Continue`. `Fail` is an
error of any of them: under `-batch-silent` gdb leaves the script and ends.
`Killed` is the watchdog of the campaign. `log` is `dump.txt`, `missed` records
the calls whose breakpoint was disabled, for the properties.

Abstractions. What gdb's `find_sal` tells apart is whether a frame has lines; two
frames without lines are at the same place. The stack pointer is the number of
frames. Whether `next` stops in the frame it started in or in the one that frame
returns to is left to the program, and so is when a line begins.

### ValuePrinters, StdContainers, PointerLabels

One value, `val`, is printed. `pc` is the place in gdb: `member` (in
`printer()`), `print` (gdb looks for a printer), `children` (what `to_string`
announced is in `said`), `next` (the iterator is asked for an element), `down`
and `up` (the loops inside `RbtreeIterator.__next__`), `follow` (behind the
`yield` in `printer()`), and the ends `done`, `failed` (gdb cannot read
something) and `hidden` (`except: pass`). `it` has the fields of an iterator,
`out` is what it returned. Each container has an action for its `children` and
one for each branch of its `__next__`; `Exhausted` holds the StopIterations,
`Unreadable` and the like are memory errors. `FollowElement`, `FollowFails` and
`FollowEnds` are the loop of `printer()` over the elements of a vector of pointers:
`raises` holds the addresses of those for which it raises an error. The labels of
pointers are `OutsideHeapLabel` and `Label`.

What the printers take for granted of libstdc++ is in `StdContainers`, as
predicates of a container's fields: `Represents` for one that is alive, `Shape`
for one of which nothing is known, because its constructor has not run or its
life has ended: everything in scope is printed. An element is its address, or
its number for a bit. A pointer comes with a second layout of the program and
the address of the same object there: image, libraries, stack and heap are each
moved, and with image and libraries the return addresses at which blocks were
allocated (`Moved`).

Abstractions. Elements themselves are not printed here, and of a pointer only the
label, not the address in front of it. The two items of a pair
of a map are one step. The containers of C++11 that are hashed are one list of
nodes, those of tr1 have a list for each bucket. The bits of a vector<bool> are
walked but not read. The recursive `_iterator` of a tuple is the sequence of its
non-empty classes. `list`, `forward_list`, `slist` and the hashed containers
differ in where they begin and end only.

## 3. Runs

`pass` runs:

| Run | Instance | What it shows |
|---|---|---|
| `campaign_interleavings` | four versions, one listed twice, one without `.diff`; tests may fail, disks may fill, starts may be slow, containers may be reused; one stop; `FairSpec` | what holds whatever happens, the refinement of `ExperimentLog`, and that every wait and every campaign ends |
| `campaign_sound` | three versions; tests do not fail by themselves, gdb is reached within `TIMEOUT`; they write areas and OUTPUTS; a stopped container is replaced or started again | experiments do not disturb each other; what a restarted container adds to the results are areas, compressed dumps and OUTPUTS, never a log or a mark |
| `heap_trace_exact` | addresses 0, 2, 3, sizes 1 and 2, one site, traces of up to 3 lines, 3 dumps | the tree is exactly the traced heap at each dump |
| `heap_trace_adverse` | the same addresses, size 1, two sites, traces of up to 2 lines, 2 dumps, fopen may fail, the program may close the trace | what survives that |
| `pretty_print_arrays` | two areas of up to two elements, one variable, with and without BINARYDUMP, reads may fail, two dumps | no area is dropped, dump and recursion are bounded, `<PRINTED>` is true of an area that cannot be cut short |
| `pretty_print_errors` | two areas, two variables, references, incomplete types, failing reads, `FairSpec` | every variable is printed or invalid whatever fails, every dump ends |
| `value_printers` | 6554 values: lists and hash tables of up to three elements in every order, vectors, deques over up to four buffers, every red-black shape of up to six nodes, bits in up to three words, tuples, adaptors, dead ones with every choice of a few stale fields, vectors of pointers with elements that raise errors, pointers at every boundary in a program whose parts are moved; `FairSpec` | live containers are listed completely and in order, dead ones are bounded, elements are followed up to the first error, labels say the same wherever the program is loaded, printing ends |
| `dump_call` | five frames, five calls; three kinds of functions | which calls are dumped, where, and with which number |

Why the bounds are enough. Every interference in the campaign is between one
experiment and a later one, so two versions show it; more versions, a duplicate
line and a missing `.diff` exercise the list; one stop shows recovery, which
keeps no memory of earlier stops but the files. In the heap, two blocks can be
alive at once at the smallest distance the red zone allows, an address can be
taken again by a block of another size and by a block that covers it in the
middle, and a trace of three lines holds allocate, free, allocate again; a second
and third dump see what an earlier one left. In the pretty printer, two areas
give self loops, cycles of two, and pointers shared by two elements; two elements
tell the first, the last and the one behind; two dumps show what `address_dict`
keeps. In `dump_call`, five frames hold a traced call within a traced call with a
frame without lines in between, and five calls let one be missed and a later one
be announced. In `value_printers`, a deque fills no, one and three buffers and
ends at the begin, in the middle and at the end of one; three buckets may be
empty before, between and behind the others; six nodes give every kind of
successor in a tree, down and up over more than one level; `VectorLimit` is 4 for
100000, so there are live vectors below and at it and dead ones above it;
`MaxItems` (12) is above the size of any live container, and only a dead list
that runs in circles reaches it.
The proofs of section 5 do not depend on any of these bounds.

`violation` runs, each a disagreement between the code and what the repository
says of it (the quotations are in `PROJECT.json` under "findings"):

* `campaign_stale_timer`: the watchdog of a test that failed is not killed and
  cuts a later test short.
* `campaign_stopped`: the directory is made before anything is stored in it; a
  campaign stopped in between skips the version ever after.
* `pretty_print_first_element`: `print *p` marks a whole array as printed and
  shows its first element.
* `containers_hidden`: a member whose type mentions std::vector, but which is not
  a vector, is left out of the dump without a remark.

The same causes break more than these runs show. With `TestMayFail`, a crash is
recorded with `killed.txt` (`MarkedMeansTimeout`), which is made for every status
but 0; with `PrepIsPrompt = FALSE` as well, the late watchdog finds no gdb to
kill, and the `dump.sh` it interrupts leaves its dump with another version
(`NoForeignFiles`); with `ReuseContainer`, three kinds of files of an interrupted
experiment are stored with the next version, which is why `NoForeignFiles` excepts them: its
OUTPUTS and its `*.dump`, which nothing removes before the next test, and its
`dump.txt.bz2`, half-written if bzip2 was interrupted, which bzip2 will not write
over and which mv then stores instead of the new one; `wait` waits for `dump.sh` and not for the
tees, so that a log may be stored before it is complete (`LogFiles`); and with
`Behind`, a pointer just behind a
single element marks it as printed (`PrintedWasDumped`).

Deadlock is checked in every run; the steps `Done`, `Ended` and `Over` are the
states in which the script has ended or sleeps, the program has exited, or
nothing is left to print.

## 4. Fairness

`FairSpec` of `Campaign` assumes weak fairness of the script's next
command (bash runs it unless it is waiting, and no command of the loop but `wait`
blocks; what may block for ever is `Stall`) and of the watchdogs (each is a
`sleep` and a `kill`). Nothing is assumed of `dump.sh`, gdb or the program: it
may hang for ever, which is what the watchdog is there for. `HeapTrace` has no
liveness property: the program may run for ever without a dump. `FairSpec` of
`PrettyPrint` assumes weak fairness of `Next`: gdb, single-threaded, with the
program stopped, goes on as long as there is something to print. That a dump
ends is not due to fairness but to `address_dict` and, for C++ references, which
are formatted without it, to the end of gdb itself (`GdbDies`). `FairSpec` of
`ValuePrinters` assumes the same of gdb; `PrintingEnds` is stated of live values
and of the kinds whose dead containers end too, by counting or by running into
memory that gdb cannot read; a dead list may lead round in circles, and then only
the watchdog ends the dump.
`DumpCall` has no liveness property: the program need not return from a call.

## 5. Proofs

| Theorem | Statement |
|---|---|
| `CampaignProofs!TypeCorrect` | `Spec => []TypeOK` |
| `CampaignProofs!StaleTimersMarked` | `Spec => []StaleTimersAreMarked` |
| `CampaignProofs!UnmarkedWell` | `Spec => []UnmarkedEndedWell` |
| `CampaignProofs!EveryVersionAccounted` | `Spec => []AllAccounted` |
| `CampaignProofs!StoredFinal` | `Spec => StoredIsFinal` |
| `CampaignProofs!CampaignRefinesLog` | `Spec => RefinesLog` |
| `CampaignSoundProofs!FilesAreOwn`, `MarksAreTimeouts`, `NothingCutShort`, `TestsAlone`, `OwnBinary` | under `Orderly`, the properties of the run `campaign_sound` |
| `HeapTraceProofs!TypeCorrect` | `Spec => []TypeOK` |
| `HeapTraceProofs!NumbersAreDistinct` | `Spec => []NumbersDistinct` |
| `HeapTraceProofs!MirrorIsExact` | `Faithful /\ Spec => []MirrorExact` |
| `HeapTraceProofs!PointersAreResolved` | `Faithful /\ Spec => []PointersResolve` |
| `HeapTraceProofs!NothingIsMissing` | `Spec => []NothingMissing` |
| `PrettyPrintProofs!TypeCorrect` | `Spec => []TypeOK` |
| `PrettyPrintProofs!VariablesArePrinted` | `Spec => []VariablesPrinted` |
| `PrettyPrintProofs!NothingIsDropped` | `~Behind /\ Spec => []NothingDropped` |
| `PrettyPrintProofs!PrintedIsInTheDump` | `~Behind /\ Spec => []PrintedIsTrue` |
| `PrettyPrintOnceProofs!NothingIsShownTwice` | `~Behind /\ Spec => []ShownOnce` |
| `PrettyPrintProofs!DepthIsBounded` | `IsFiniteSet(Area)`, `~Refs`: `Spec => []DepthBounded` |
| `PrettyPrintProofs!OutputIsBounded` | `IsFiniteSet(Area)`, `~Refs`: `Spec => []OutputBounded` |
| `DumpCallProofs!TypeCorrect` | `Spec => []TypeOK` |
| `DumpCallProofs!DumpsInCaller` | `Spec => []DumpedInCaller` |
| `DumpCallProofs!StackIsKnown` | `Spec => []StackKnown` |
| `DumpCallProofs!MissedAreInside` | `Spec => []MissedInside` |
| `DumpCallProofs!ScriptRefinesDumpLog` | `Spec => RefinesDumpLog` |
| `ValuePrintersProofs!TypeCorrect` | `Spec => []TypeOK` |
| `ValuePrintersProofs!LabelsAreStable` | `Spec => []LabelsMove` |
| `ValuePrintersProofs!ListingIsBounded` | `Spec => []ListingBounded` |
| `ValuePrintersProofs!LinkedAreListed`, `ArraysAreListed`, `TreesAreListed` | `Spec => []LinkedListed`, `ArraysListed`, `TreesListed` |
| `ValuePrintersProofs!BitsAreListed` | `Spec => []BitsListed` |
| `ValuePrintersProofs!AnnouncementIsListed` | `Spec => []AnnouncedIsListed` |
| `ValuePrintersProofs!ElementsAreFollowed` | `Spec => []ElementsFollowed` |

Assumptions on the constants are the ASSUMEs of the models: the list is
nondecreasing, `Written` holds areas and OUTPUTS only, switches are Booleans, sizes and the red zone are positive, areas
are no variables, and every member of `Value` is a value (`IsValue`): if it is a
container that is alive, its memory is that of libstdc++. `Orderly` is
`~TestMayFail /\ PrepIsPrompt`, the setting of `campaign_sound`; both are needed
(section 3). `Faithful` is
`~OpenMayFail /\ ~OwnMuntrace`.

* *Campaign.* `IInv` of `CampaignProofs` adds to `TypeOK` what the loop keeps
  track of implicitly: which processes, timers and directories go with each
  place of `pc`, that a version has a directory or is still on the list, and
  that whatever was killed is marked or about to be. The properties alone are
  not inductive because they do not say what the script is about to store.
  `StoredIsFinal` and the refinement follow step by step from `IInv`; the
  refinement maps a version to "running" while it is `cur` in the loop body and
  to "done" once its directory exists.
* *Orderly campaigns.* `SoundInv` adds that only the current experiment has
  processes, timers or logs, and, until a container is started again, files in
  `WORKDIR`; after that, what others left there is of a kind that `clear_testbed`
  does not remove (`FilesInv`, `SharedInv`, `EmptiedInv`).
* *Trace.* `NumbersInv` says that no area has a number above the counter of its
  site. `MirrorInv` relates the tree to the heap *through the lines still to be
  read*: `LastInv` (the last pending line about an address says whether a
  traced block is there), `QuietInv` (where no line is pending, tree and heap
  agree), and `AreasFreedInv` and `LinesFreedInv` (before a line hits the
  interval of an area, or of an earlier line, a line frees it), which make
  `remove_overlap` remove one area and no other although the intervals are
  one byte too long. `AppendLine` is the step of the program, `ReadLine`,
  `LinesReadAlloc` and `LinesReadFree` those of the reader. When the trace has
  been restarted nothing is pending, and `QuietInv` is `MirrorExact`.

  `KeptInv`, for `NothingMissing`, has the parts of it that say that no live block
  is lost, and holds without `Faithful`: what is read again never removes an area
  that is alive, because its allocation is read again, too, behind the free.
* *Dumps.* `FramesNext` shows what every step does to the stack of generators.
  `VarsInv` says that of the variables before `var` only the last may still be
  waiting, with what it leads to as the only task. `DropInv` says, unless a read
  failed, that every pointer of a shown element leads to a marked area or waits in
  some generator (`Leads`), and that of every marked area the first element is shown
  or waits for gdb (`Marked`); at the end nothing waits. That the rest of the area
  is there, too, is `Whole` of `PrintedInv`, below: `NothingIsDropped` needs both. `DepthInv` is about whose the generators are: every one
  but the two at the bottom was made for an element of an area that is marked
  and that no generator above it holds (`Owners`), so they are different.
  For `OutputBounded`, `LengthInv` adds to the lines of the dump those that the
  tasks still waiting may add (`Work`, a set, so that it can be counted without a
  recursive sum: each line has the place of its task, counted from the end, where
  nothing moves). The sum never exceeds `Allowance`: a line for each variable printed
  so far, and for each of them and for `MaxElems` elements of each area entered in
  `address_dict` a line and one for each member. It is a bound on the number of
  lines, and says nothing of which ones they are; that is `ShownOnce`. The
  hypothesis `~Refs` is needed for both bounds: `TasksFor` leaves references to
  gdb, which does not ask `address_dict`.
  `PrintedInv` says where a mark comes from: every element that gdb is going to
  format is in a marked area, or a variable, or reached `Alone`; so an area that
  cannot be cut short is marked only together with tasks for all its elements,
  and is dumped or has the rest waiting (`Whole`).
  `OnceInv` of `PrettyPrintOnceProofs` follows one struct that gdb never formats
  by itself: it is in the dump, or one task for it waits in the generators, never
  both and never two of them, and neither before its variable or its area was
  begun (`OnceAt`): what brings new tasks is a variable whose turn has come, or an
  area that was not marked. No run names `ShownOnce`; with `OnceInv` it was checked
  on the instance of `pretty_print_arrays`.
* *The gdb script.* `IInv` of `DumpCallProofs` adds that the numbers of the
  activations grow along the stack, that the frame `finish` and `next` go on to is
  older than the announced call as long as no signal came, and that the breakpoints are
  disabled exactly from `finish` to `bounded`. A call is missed only then.
* *Values.* `WalkInv` says of every live container where its iterator is when k
  elements have been listed (`Here`): at the element k + 1 for a list, in its
  bucket for a hash table, at the place k + 1 of the row of buffers for a deque.
  In a tree the iterator searches while it is at the node k + 1: on the way down
  it is at a node whose subtree begins with k + 2, on the way up at one whose
  subtree ends with k + 1, so that the first node it does not come to from the
  right is k + 2. In a vector<bool> k is a number of words and a rest
  (`Division`, `DivisionUnique`). In a bitset the iterator holds a word shifted to
  the right, and what it has listed are the set bits below the one it is at
  (`BitsetHere`); `Shifts` of `StdContainers` names what is left of each word
  after each shift, since a definition by powers of two would need induction.
  `SizeLive` shows that what `to_string` computes
  from the fields is the size, for a deque because the places of its elements
  follow each other in the line of all buffers (`DequeSizeLive`); `LeftInv` says
  that a container that is left out is given up before it is listed, and
  `SaidInv` that what was announced of any other is its size. `BoundInv` counts
  what a vector or a tree has listed, alive or dead. `FollowInv` says of
  the elements `printer()` is called for that they are the first ones, that none of
  them raises an error (`NoneRaises`), and that when the loop has ended the next one,
  if there is one, does (`StoppedAt`).
  For `LabelsMove`, `SameBlocks` and `FirstMoves` show that the blocks found for an
  address move with it, and the first of them too, `SameId` that its identifier is
  the same if no return address has moved, and `SameLabel` that the section, the
  offset and the size are the same in any case. `LeastNat` (a nonempty set of
  numbers has a least one, from the well-foundedness of the order) stands in for
  induction in the statements about all buckets and all blocks.

The invariants were checked with TLC before they were proved.

Only model-checked: liveness (`WaitEnds`, `CampaignEnds`, `DumpEnds`,
`PrintingEnds`), since fairness and ENABLED are out of the prover's reach. Every
other property of the passing runs is a theorem. No module has a RECURSIVE operator.

## 6. Not modelled

* `Dockerfile` and the gdb patches: build steps, and code of gdb itself.
* `xmethods.py` and `__init__.py` of libstdc++: `GenericPrinter.py` imports
  `printers.py` directly and calls its `register_libstdcxx_printers`; the one in
  `__init__.py`, which would load the xmethods, is never called.
* In `printers.py`: the printers of single values (iterators, strings, smart
  pointers, any, optional, variant, path), which read a fixed number of fields,
  and the type printers, which only format names.
* `run_fault.sh` and `run_fault_free.sh`: sequential scripts without timeout,
  retry or recovery.
* In `dump.sh`: how TOFILTER selects functions from the output of nm, and the
  options of gdb.
* That a log may be stored before the tees have written it is in `Campaign`
  (`undrained`), but no property forbids it: nothing in the repository says that
  it must not happen.
* The heap trace before main: a traced function called by a constructor of a
  global object is dumped before `break main` has started the trace. `DumpCall`
  has such dumps, with bounds that are zero, and `ValuePrinters` has the layout
  they go by; `HeapTrace` begins with `break main`.
* The raw address that is printed in front of each label (`GenericPrinter.py` 193,
  217, 244). It differs between executions; nothing is claimed of it.
* Threads of the program under analysis: the hooks use a global flag without a
  lock, but the programs of the repository are single-threaded.
* The contents of dumps and messages, strings and numbers. Blocks smaller than
  the type of a pointer to them. A variable that hides one of an outer block is
  dumped under the type of the outer one (`AutoDump.py` 16); names are not
  modelled.

## 7. Plan

Done: the campaign driver, its abstract log and its proofs; the heap trace and
its proofs; the gdb script, its log and its proofs; the pretty printer and its
proofs; the labels of pointers and the printers of libstdc++ with theirs.

Left, in this order: offsets within elements and blocks smaller than the type in
`PrettyPrint`; names of variables; the single runs in sequence in one container.
