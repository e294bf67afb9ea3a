------------------------------ MODULE Campaign ------------------------------
(***************************************************************************)
(* The experiment driver of ErrorDumper, execute_tests.sh: a sequential    *)
(* bash loop that runs dump.sh once per faulty version as a background     *)
(* process, next to a watchdog subshell that sends SIGUSR1 back to the     *)
(* script when TIMEOUT seconds have passed.                                *)
(*                                                                         *)
(* Four kinds of processes interleave here: the script, the dump.sh of     *)
(* each experiment (with the gdb it ends up running), the watchdog of each *)
(* experiment, and the `tee' that copies an experiment's output to         *)
(* /tmp/stdout.txt.  The container they all live in may be stopped at any  *)
(* point and the campaign started again over the same /Results volume.     *)
(*                                                                         *)
(* A fault is identified with its rank in the order of sort(1), which is   *)
(* the order of the experiments, so Fault is a set of numbers.             *)
(***************************************************************************)
EXTENDS Naturals, Sequences

CONSTANTS
  Fault,          \* faulty versions somebody may ask for
  FaultList,      \* the fault list after perl and sort, line by line
  HasDiff,        \* the versions whose .diff exists in FAULTYDIR
  Written,        \* kinds of files a test writes besides dump.txt
  TestMayFail,    \* whether dump.sh may end with a status that is not 0
  MayStall,       \* whether the disk, bspatch or the operator block the loop
  PrepIsPrompt,   \* timing assumption: dump.sh reaches gdb within TIMEOUT
  ReuseContainer, \* whether a stopped container may be started again
  MaxStops        \* bound on how often the container is stopped

ASSUME FaultAssumption == Fault \subseteq Nat \ {0}
ASSUME ListAssumption ==
  /\ FaultList \in Seq(Fault)
  /\ \A i, j \in DOMAIN FaultList : i < j => FaultList[i] <= FaultList[j]
ASSUME SwitchAssumption ==
  /\ HasDiff \subseteq Fault
  /\ Written \subseteq {"area", "output"}
  /\ {TestMayFail, MayStall, PrepIsPrompt, ReuseContainer} \subseteq BOOLEAN
  /\ MaxStops \in Nat

VARIABLES
  pc,         \* where the script is
  todo,       \* lines of the fault list that are still to be visited
  cur,        \* the shell variable FAULT
  dirs,       \* the versions that have a directory in SAVEDIR
  saved,      \* the files in each of these directories
  tmp,        \* the files /tmp/{stdout,stderr,killed}.txt
  work,       \* dump files and program outputs in WORKDIR
  binary,     \* the version installed as WORKDIR/BINARY, or None
  proc,       \* the dump.sh of each experiment
  timer,      \* the watchdog of each experiment
  undrained,  \* experiments whose tee has not yet written everything
  stops       \* how often the container was stopped so far

script == <<pc, todo, cur>>
results == <<dirs, saved>>
files == <<tmp, work, binary>>
vars == <<pc, todo, cur, dirs, saved, tmp, work, binary, proc, timer,
          undrained, stops>>

\* No version: FAULT before the first experiment, WORKDIR without a binary.
None == 0

\* A file is a kind and the experiment whose processes wrote it; a file that
\* several wrote to is one such pair for each.  "stdout" stands for stdout.txt
\* and stderr.txt, "stdoutCut" for a stdout.txt moved away before its tee was
\* finished, "dump" for dump.txt, "area" for the *.dump files of large areas,
\* "packed" for dump.txt.bz2, "packedCut" for one that bzip2 has not finished,
\* and "output" for the OUTPUTS of the program.
Kind == {"stdout", "stdoutCut", "killed", "dump", "area", "packed", "packedCut",
         "output"}
File == Kind \X Fault
OfKind(S, K) == {x \in S : x[1] \in K}

ProcState == {"none", "launched", "prep", "gdb", "ok", "failed", "killed"}
Alive == {"launched", "prep", "gdb"}
TimerState == {"off", "armed", "expired", "stopped"}

\* The part of the loop body in which an experiment is under way.
BusyPcs == {"clear", "install", "spawn", "arm", "wait", "mark", "mkdir",
            "saveLogs", "saveOutputs", "saveAreas", "removeAreas", "compress",
            "compressing", "storeDump"}
PcState == BusyPcs \cup {"start", "loop", "end", "stalled", "down"}

----------------------------------------------------------------------------
(* The shell functions.                                                    *)

\* Mutant: the pattern of grep matches nothing.
KillGdbMatchesNothing == UNCHANGED proc

\* The common part of handle_timeout and clear_testbed: ps | grep gdb | xargs
\* rkill -9, repeated until no gdb is left.  A dump.sh that has not reached
\* gdb does not match, it is excluded by grep -v "\.sh".
KillGdb ==
  proc' = [f \in Fault |-> IF proc[f] = "gdb" THEN "killed" ELSE proc[f]]

\* What clear_testbed removes: not the program's own OUTPUTS, not dump.txt.bz2,
\* and no *.dump either, since it lists the names in WORKDIR and runs rm on them
\* in PROGDIR.
ClearedKinds == {"dump", "stdout", "stdoutCut", "killed"}

Init ==
  /\ pc = "start"
  /\ todo = {}
  /\ cur = None
  /\ dirs = {}
  /\ saved = [f \in Fault |-> {}]
  /\ tmp = {}
  /\ work = {}
  /\ binary = None
  /\ proc = [f \in Fault |-> "none"]
  /\ timer = [f \in Fault |-> "off"]
  /\ undrained = {}
  /\ stops = 0

----------------------------------------------------------------------------
(* The script.                                                             *)

\* Mutant: awk numbers its lines from 1, I starts at 2.
ListFaultsFromLineTwo ==
  /\ pc = "start"
  /\ todo' = {i \in DOMAIN FaultList : i > 1 /\ FaultList[i] \notin dirs}
  /\ pc' = "loop"
  /\ UNCHANGED <<cur, results, files, proc, timer, undrained, stops>>

\* ls $SAVEDIR, the normalised list, and join -v 1: the lines whose version
\* has no directory yet.  Duplicate lines stay.
ListFaults ==
  /\ pc = "start"
  /\ todo' = {i \in DOMAIN FaultList : FaultList[i] \notin dirs}
  /\ pc' = "loop"
  /\ UNCHANGED <<cur, results, files, proc, timer, undrained, stops>>

\* awk 'NR==I' for I = 1, 2, ...: i is the next line of the list.
NextLine(i) ==
  /\ pc = "loop"
  /\ i \in todo
  /\ \A j \in todo : i <= j
  /\ todo' = todo \ {i}

\* Mutant: without the test of line 513.
SkippableIfMissing(f) == f \notin HasDiff

\* "Fault not found, skipping" and "Test already done".
Skippable(f) == f \notin HasDiff \/ f \in dirs

Skip(i) ==
  /\ NextLine(i)
  /\ Skippable(FaultList[i])
  /\ UNCHANGED <<pc, cur, results, files, proc, timer, undrained, stops>>

Take(i) ==
  /\ NextLine(i)
  /\ ~Skippable(FaultList[i])
  /\ cur' = FaultList[i]
  /\ pc' = "clear"
  /\ UNCHANGED <<results, files, proc, timer, undrained, stops>>

AllExecuted ==
  /\ pc = "loop"
  /\ todo = {}
  /\ pc' = "end"
  /\ UNCHANGED <<todo, cur, results, files, proc, timer, undrained, stops>>

\* sleep 1000000000: __freeze.txt exists, the list is gone, the disk is full,
\* bspatch or mv fails.  The sleep runs in the foreground, so nothing short
\* of stopping the container gets the script out of it.
Stall ==
  /\ MayStall
  /\ pc \in {"loop", "install"}
  /\ pc' = "stalled"
  /\ UNCHANGED <<todo, cur, results, files, proc, timer, undrained, stops>>

ClearTestbed ==
  /\ pc = "clear"
  /\ KillGdb
  /\ work' = work \ OfKind(work, ClearedKinds)
  /\ tmp' = tmp \ OfKind(tmp, ClearedKinds)
  /\ pc' = "install"
  /\ UNCHANGED <<todo, cur, results, binary, timer, undrained, stops>>

\* Mutant: bspatch is skipped when WORKDIR already has a binary.
InstallIfAbsent ==
  /\ pc = "install"
  /\ binary' = IF binary = None THEN cur ELSE binary
  /\ pc' = "spawn"
  /\ UNCHANGED <<todo, cur, results, tmp, work, proc, timer, undrained, stops>>

\* rm, bspatch and mv of the faulty version.
InstallFaulty ==
  /\ pc = "install"
  /\ binary' = cur
  /\ pc' = "spawn"
  /\ UNCHANGED <<todo, cur, results, tmp, work, proc, timer, undrained, stops>>

\* $TEST > >(... | tee $STDOUT_FILE) ... &
SpawnTest ==
  /\ pc = "spawn"
  /\ proc' = [proc EXCEPT ![cur] = "launched"]
  /\ tmp' = tmp \cup {<<"stdout", cur>>}
  /\ undrained' = undrained \cup {cur}
  /\ pc' = "arm"
  /\ UNCHANGED <<todo, cur, results, work, binary, timer, stops>>

\* (sleep $TIMEOUT ; kill -SIGUSR1 $PID) &
ArmTimer ==
  /\ pc = "arm"
  /\ timer' = [timer EXCEPT ![cur] = "armed"]
  /\ pc' = "wait"
  /\ UNCHANGED <<todo, cur, results, files, proc, undrained, stops>>

\* Mutant: kill $TPID is forgotten.
WaitOkLeavesTimer ==
  /\ pc = "wait"
  /\ proc[cur] = "ok"
  /\ pc' = "mkdir"
  /\ UNCHANGED <<todo, cur, results, files, proc, timer, undrained, stops>>

\* wait returns 0: the watchdog is killed.
WaitOk ==
  /\ pc = "wait"
  /\ proc[cur] = "ok"
  /\ timer' = [timer EXCEPT ![cur] = "stopped"]
  /\ pc' = "mkdir"
  /\ UNCHANGED <<todo, cur, results, files, proc, undrained, stops>>

\* Mutant: only a status above 128 leads to killed.txt.
WaitFailedIsNormal ==
  /\ pc = "wait"
  /\ proc[cur] \in {"failed", "killed"}
  /\ pc' = IF proc[cur] = "killed" THEN "mark" ELSE "mkdir"
  /\ UNCHANGED <<todo, cur, results, files, proc, timer, undrained, stops>>

\* wait returns the status of a test that failed: the watchdog is left alone.
WaitFailed ==
  /\ pc = "wait"
  /\ proc[cur] \in {"failed", "killed"}
  /\ pc' = "mark"
  /\ UNCHANGED <<todo, cur, results, files, proc, timer, undrained, stops>>

\* sleep 3; touch $KILLED_FILE
MarkKilled ==
  /\ pc = "mark"
  /\ tmp' = tmp \cup {<<"killed", cur>>}
  /\ pc' = "mkdir"
  /\ UNCHANGED <<todo, cur, results, work, binary, proc, timer, undrained, stops>>

\* Mutant: the directory of a killed test is not made.
MakeDirUnlessKilled ==
  /\ pc = "mkdir"
  /\ dirs' = IF <<"killed", cur>> \in tmp THEN dirs ELSE dirs \cup {cur}
  /\ pc' = "saveLogs"
  /\ UNCHANGED <<todo, cur, saved, files, proc, timer, undrained, stops>>

\* Mutant: the name of the version is misspelt, the variable is empty.
MakeDirOfNothing ==
  /\ pc = "mkdir"
  /\ dirs' = dirs \cup {None}
  /\ pc' = "saveLogs"
  /\ UNCHANGED <<todo, cur, saved, files, proc, timer, undrained, stops>>

\* mkdir -p $SAVEDIR/$FAULT, before anything is stored there.
MakeDir ==
  /\ pc = "mkdir"
  /\ dirs' = dirs \cup {cur}
  /\ pc' = "saveLogs"
  /\ UNCHANGED <<todo, cur, saved, files, proc, timer, undrained, stops>>

\* save_results, first part: mv of killed.txt, stdout.txt and stderr.txt.  A
\* tee that is still behind goes on writing to a file that is no longer there.
LogFiles ==
  {IF x = <<"stdout", cur>> /\ cur \in undrained THEN <<"stdoutCut", cur>>
   ELSE x : x \in tmp}

SaveLogs ==
  /\ pc = "saveLogs"
  /\ saved' = [saved EXCEPT ![cur] = @ \cup LogFiles]
  /\ tmp' = {}
  /\ pc' = "saveOutputs"
  /\ UNCHANGED <<todo, cur, dirs, work, binary, proc, timer, undrained, stops>>

\* save_results, second part: mv of whatever file of OUTPUTS is in WORKDIR.
SaveOutputs ==
  /\ pc = "saveOutputs"
  /\ saved' = [saved EXCEPT ![cur] = @ \cup OfKind(work, {"output"})]
  /\ work' = work \ OfKind(work, {"output"})
  /\ pc' = "saveAreas"
  /\ UNCHANGED <<todo, cur, dirs, tmp, binary, proc, timer, undrained, stops>>

\* save_results, third part: tar, then rm of *.dump, this time in WORKDIR.
SaveAreas ==
  /\ pc = "saveAreas"
  /\ saved' = [saved EXCEPT ![cur] = @ \cup OfKind(work, {"area"})]
  /\ pc' = "removeAreas"
  /\ UNCHANGED <<todo, cur, dirs, files, proc, timer, undrained, stops>>

\* Mutant: without the rm of line 326.
KeepAreas ==
  /\ pc = "removeAreas"
  /\ pc' = "compress"
  /\ UNCHANGED <<todo, cur, results, files, proc, timer, undrained, stops>>

RemoveAreas ==
  /\ pc = "removeAreas"
  /\ work' = work \ OfKind(work, {"area"})
  /\ pc' = "compress"
  /\ UNCHANGED <<todo, cur, results, tmp, binary, proc, timer, undrained, stops>>

\* save_results, last part, if there is a dump.txt: tail, bzip2 and mv.
NoDump ==
  /\ pc = "compress"
  /\ OfKind(work, {"dump"}) = {}
  /\ pc' = "loop"
  /\ UNCHANGED <<todo, cur, results, files, proc, timer, undrained, stops>>

\* bzip2 refuses to write over a file that is there; mv takes that one.
CompressRefused ==
  /\ pc = "compress"
  /\ OfKind(work, {"dump"}) # {}
  /\ OfKind(work, {"packed", "packedCut"}) # {}
  /\ pc' = "storeDump"
  /\ UNCHANGED <<todo, cur, results, files, proc, timer, undrained, stops>>

Compress ==
  /\ pc = "compress"
  /\ OfKind(work, {"dump"}) # {}
  /\ OfKind(work, {"packed", "packedCut"}) = {}
  /\ work' = work \cup {<<"packedCut", x[2]>> : x \in OfKind(work, {"dump"})}
  /\ pc' = "compressing"
  /\ UNCHANGED <<todo, cur, results, tmp, binary, proc, timer, undrained, stops>>

\* bzip2 removes dump.txt when it is done.
CompressEnds ==
  /\ pc = "compressing"
  /\ work' = (work \ OfKind(work, {"dump", "packedCut"}))
                \cup {<<"packed", x[2]>> : x \in OfKind(work, {"packedCut"})}
  /\ pc' = "storeDump"
  /\ UNCHANGED <<todo, cur, results, tmp, binary, proc, timer, undrained, stops>>

StoreDump ==
  /\ pc = "storeDump"
  /\ saved' = [saved EXCEPT ![cur] = @ \cup OfKind(work, {"packed", "packedCut"})]
  /\ work' = work \ OfKind(work, {"packed", "packedCut"})
  /\ pc' = "loop"
  /\ UNCHANGED <<todo, cur, dirs, tmp, binary, proc, timer, undrained, stops>>

SaveResults ==
  \/ SaveLogs
  \/ SaveOutputs
  \/ SaveAreas \/ RemoveAreas
  \/ NoDump \/ CompressRefused \/ Compress \/ CompressEnds \/ StoreDump

ScriptStep ==
  \/ ListFaults
  \/ \E i \in DOMAIN FaultList : Skip(i) \/ Take(i)
  \/ AllExecuted
  \/ Stall
  \/ ClearTestbed
  \/ InstallFaulty
  \/ SpawnTest
  \/ ArmTimer
  \/ WaitOk
  \/ WaitFailed
  \/ MarkKilled
  \/ MakeDir
  \/ SaveResults

----------------------------------------------------------------------------
(* The watchdogs.                                                          *)

\* All experiments have the same TIMEOUT, so watchdogs expire in the order
\* they were armed, which is the order of the experiments.
OldestArmed(f) ==
  /\ timer[f] = "armed"
  /\ \A g \in Fault : timer[g] = "armed" => f <= g

\* bash runs a trap between two commands: not while it sleeps in Stall, and
\* not before ListFaults, when no watchdog exists.  In wait, the builtin
\* returns with a status above 128 and the trap runs right after it.
TrapRuns == pc \notin {"start", "end", "stalled", "down"}

\* Mutant: any watchdog signals, its own sleep over or not.
HandleTimeoutEarly(f) ==
  /\ TrapRuns
  /\ OldestArmed(f)
  /\ PrepIsPrompt => proc[f] \notin {"launched", "prep"}
  /\ KillGdb
  /\ pc' = IF pc = "wait" THEN "mark" ELSE pc
  /\ UNCHANGED <<todo, cur, results, files, timer, undrained, stops>>

\* Mutant: the trap kills gdb, but wait is started again.
HandleTimeoutKeepsWaiting(f) ==
  /\ TrapRuns
  /\ OldestArmed(f)
  /\ PrepIsPrompt => proc[f] \notin {"launched", "prep"}
  /\ timer' = [timer EXCEPT ![f] = "expired"]
  /\ KillGdb
  /\ UNCHANGED <<script, results, files, undrained, stops>>

HandleTimeout(f) ==
  /\ TrapRuns
  /\ OldestArmed(f)
  /\ PrepIsPrompt => proc[f] \notin {"launched", "prep"}
  /\ timer' = [timer EXCEPT ![f] = "expired"]
  /\ KillGdb
  /\ pc' = IF pc = "wait" THEN "mark" ELSE pc
  /\ UNCHANGED <<todo, cur, results, files, undrained, stops>>

----------------------------------------------------------------------------
(* dump.sh and the gdb it runs, one of each per experiment.  A dump.sh that *)
(* outlives its experiment goes on in the shared WORKDIR.                   *)

\* Temporary files are removed before breakpoints.gdb is written.
CleanUp(f) ==
  /\ proc[f] = "launched"
  /\ proc' = [proc EXCEPT ![f] = "prep"]
  /\ work' = work \ OfKind(work, {"dump"})
  /\ UNCHANGED <<script, results, tmp, binary, timer, undrained, stops>>

\* "Cannot find mtrace()": exit 1.
NoMtrace(f) ==
  /\ TestMayFail
  /\ proc[f] = "prep"
  /\ proc' = [proc EXCEPT ![f] = "failed"]
  /\ UNCHANGED <<script, results, files, timer, undrained, stops>>

\* gdb -x breakpoints.gdb: set logging on creates dump.txt at once.
RunGdb(f) ==
  /\ proc[f] = "prep"
  /\ proc' = [proc EXCEPT ![f] = "gdb"]
  /\ work' = work \cup {<<"dump", f>>}
  /\ UNCHANGED <<script, results, tmp, binary, timer, undrained, stops>>

\* The program under analysis writes one of its OUTPUTS, or heap_dump a *.dump.
WriteFile(f) ==
  /\ proc[f] = "gdb"
  /\ \E k \in Written : work' = work \cup {<<k, f>>}
  /\ UNCHANGED <<script, results, tmp, binary, proc, timer, undrained, stops>>

\* The exit status of dump.sh is that of gdb.
GdbExits(f) ==
  /\ proc[f] = "gdb"
  /\ \E s \in {"ok"} \cup (IF TestMayFail THEN {"failed"} ELSE {}) :
       proc' = [proc EXCEPT ![f] = s]
  /\ UNCHANGED <<script, results, files, timer, undrained, stops>>

\* The process substitution reaches the end of the pipe after dump.sh is gone:
\* wait waits for dump.sh only.
TeeEnds(f) ==
  /\ f \in undrained
  /\ proc[f] \notin Alive
  /\ undrained' = undrained \ {f}
  /\ UNCHANGED <<script, results, files, proc, timer, stops>>

TestStep(f) ==
  CleanUp(f) \/ NoMtrace(f) \/ RunGdb(f) \/ WriteFile(f) \/ GdbExits(f)
    \/ TeeEnds(f)

----------------------------------------------------------------------------
(* The container.                                                          *)

\* Every process dies; SAVEDIR is a volume and survives.
StopContainer ==
  /\ stops < MaxStops
  /\ pc # "down"
  /\ stops' = stops + 1
  /\ pc' = "down"
  /\ todo' = {}
  /\ cur' = None
  /\ proc' = [f \in Fault |-> "none"]
  /\ timer' = [f \in Fault |-> "off"]
  /\ undrained' = {}
  /\ UNCHANGED <<results, files>>

\* docker run gives a container with the image's /tmp and WORKDIR, docker
\* start the file system the stopped one left behind.
StartContainer ==
  /\ pc = "down"
  /\ pc' = "start"
  /\ \/ /\ tmp' = {}
        /\ work' = {}
        /\ binary' = None
     \/ /\ ReuseContainer
        /\ UNCHANGED files
  /\ UNCHANGED <<todo, cur, results, proc, timer, undrained, stops>>

\* The script has exited or sleeps for good.
Done ==
  /\ pc \in {"end", "stalled"}
  /\ UNCHANGED vars

Next ==
  \/ ScriptStep
  \/ \E f \in Fault : HandleTimeout(f) \/ TestStep(f)
  \/ StopContainer
  \/ StartContainer
  \/ Done

Spec == Init /\ [][Next]_vars

\* bash gets on with its commands and the watchdogs' sleeps end; nothing is
\* assumed of the program under analysis, which may hang.
Fairness ==
  /\ WF_vars(ScriptStep)
  /\ WF_vars(\E f \in Fault : HandleTimeout(f))

FairSpec == Spec /\ Fairness

----------------------------------------------------------------------------
(* Properties.                                                             *)

TypeOK ==
  /\ pc \in PcState
  /\ todo \subseteq DOMAIN FaultList
  /\ cur \in Fault \cup {None}
  /\ dirs \subseteq Fault
  /\ saved \in [Fault -> SUBSET File]
  /\ tmp \subseteq File
  /\ work \subseteq File
  /\ binary \in Fault \cup {None}
  /\ proc \in [Fault -> ProcState]
  /\ timer \in [Fault -> TimerState]
  /\ undrained \subseteq Fault
  /\ stops \in 0..MaxStops

Running(f) == cur = f /\ pc \in BusyPcs

Marked(f) == <<"killed", f>> \in saved[f]

HasLogs(f) == \E k \in {"stdout", "stdoutCut"} : <<k, f>> \in saved[f]

\* A watchdog that survives its experiment belongs to a version whose results
\* carry killed.txt: an experiment recorded as a normal end can disturb none
\* of the experiments after it.
StaleTimersAreMarked ==
  \A f \in Fault : timer[f] = "armed" /\ ~Running(f) => Marked(f)

\* Results without killed.txt come from a dump.sh that ended by itself with
\* status 0: no process of that experiment was killed, or is still there.
UnmarkedEndedWell ==
  \A f \in Fault : HasLogs(f) /\ ~Marked(f) => proc[f] \in {"ok", "none"}

\* When the campaign ends every requested version with a .diff has a result
\* directory, whatever was killed, listed twice or interrupted on the way.
AllAccounted ==
  pc = "end" =>
    \A i \in DOMAIN FaultList : FaultList[i] \in HasDiff => FaultList[i] \in dirs

\* Once its experiment is over a version is never executed again and its
\* directory never changes: no later experiment, duplicate line, late watchdog
\* or new campaign touches what was stored.
StoredIsFinal ==
  [][\A f \in dirs : ~Running(f) =>
       f \in dirs' /\ ~Running(f)' /\ saved'[f] = saved[f]]_vars

\* The campaign implements ExperimentLog: versions are executed one at a time
\* and a version whose directory exists is never executed again.
LogStatus ==
  [f \in Fault |-> IF Running(f) THEN "running"
                   ELSE IF f \in dirs THEN "done" ELSE "waiting"]

Log == INSTANCE ExperimentLog WITH status <- LogStatus

RefinesLog == Log!Spec

\* What clear_testbed leaves in WORKDIR.
Leftover == {"area", "packed", "packedCut", "output"}

\* The directory of a version holds files of its own experiment only, until a
\* container that was stopped is started again.  That may add what clear_testbed
\* does not remove, large areas, a compressed dump and OUTPUTS, but never logs or
\* killed.txt.
NoForeignFiles ==
  \A f \in Fault : \A x \in saved[f] :
    x[2] = f \/ (ReuseContainer /\ stops > 0 /\ x[1] \in Leftover)

\* gdb starts on the binary of its own experiment.
RunsOwnBinary ==
  [][\A f \in Fault : proc[f] = "prep" /\ proc'[f] = "gdb" => binary = f]_vars

\* At most one test is alive at any time, in the shared WORKDIR.
OneTestAtATime ==
  \A f, g \in Fault : proc[f] \in Alive /\ proc[g] \in Alive => f = g

\* "An empty file killed.txt is created to remember that the timeout expired".
MarkedMeansTimeout ==
  \A f \in Fault :
    <<"killed", f>> \in tmp \cup saved[f] => timer[f] \in {"expired", "off"}

\* A test is killed only after its own TIMEOUT.
NotCutShort ==
  \A f \in Fault : proc[f] = "killed" => timer[f] = "expired"

\* "Skip the experiment if is has already been executed and the results have
\* been stored": a version skipped because of its directory has its logs there.
SkippedIsStored ==
  pc = "loop" => \A f \in dirs : HasLogs(f)

\* Every experiment that is waited for gets its directory, even if the program
\* under analysis hangs, unless the container is stopped.
WaitEnds ==
  pc = "wait" ~> cur \in dirs \/ pc = "down"

\* A campaign that is started, or started again over the results of one that
\* was stopped, ends, blocks on one of the conditions it cannot handle, or is
\* stopped.
CampaignEnds == pc = "start" ~> pc \in {"end", "stalled", "down"}
============================================================================
