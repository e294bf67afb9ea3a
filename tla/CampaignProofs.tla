--------------------------- MODULE CampaignProofs ---------------------------
(***************************************************************************)
(* Proofs about Campaign.tla, for every fault list, every choice of the    *)
(* switches and any number of restarts of the container.                   *)
(***************************************************************************)
EXTENDS Campaign, TLAPS

\* TypeOK is not inductive: that an experiment under way is one of a version
\* has to be known, too.
TypeInv == TypeOK /\ (pc \in BusyPcs => cur \in Fault)

\* The parts of the loop body, by how far the results are stored.
BeforeMkdir == {"clear", "install", "spawn", "arm", "wait", "mark", "mkdir"}
AfterLogs == {"saveOutputs", "saveAreas", "removeAreas", "compress",
              "compressing", "storeDump"}
AfterMkdir == {"saveLogs"} \cup AfterLogs

\* An experiment is under way for a version that has no directory before mkdir,
\* and has one afterwards; nothing is stored without a directory.
Bookkeeping ==
  /\ pc \in BeforeMkdir => cur \notin dirs
  /\ pc \in AfterMkdir => cur \in dirs
  /\ pc = "saveLogs" => saved[cur] = {}
  /\ \A f \in Fault \ dirs : saved[f] = {}

\* A line that was visited is stored, not available, or under way.
Visited ==
  pc \in BusyPcs \cup {"loop", "end"} =>
    \A i \in DOMAIN FaultList \ todo :
      \/ FaultList[i] \notin HasDiff
      \/ FaultList[i] \in dirs
      \/ Running(FaultList[i])

\* Where killed.txt is while the experiment of cur is under way.
CurMarked ==
  CASE pc \in {"mkdir", "saveLogs"} -> <<"killed", cur>> \in tmp
    [] pc \in AfterLogs -> Marked(cur)
    [] OTHER -> TRUE

\* From mkdir on, an experiment without killed.txt has ended with status 0
\* and its watchdog is gone; before, no watchdog of its own is armed.
Verdict ==
  /\ pc \in {"mkdir"} \cup AfterMkdir /\ ~CurMarked =>
       proc[cur] = "ok" /\ timer[cur] # "armed"
  /\ pc \in {"clear", "install", "spawn", "arm"} => timer[cur] # "armed"

IInv ==
  /\ TypeInv
  /\ Bookkeeping
  /\ Visited
  /\ Verdict
  /\ StaleTimersAreMarked
  /\ UnmarkedEndedWell
  /\ AllAccounted

----------------------------------------------------------------------------
(* Type correctness.                                                       *)

USE DEF None, script, results, files

LEMMA InitTypeInv == Init => TypeInv
  BY SwitchAssumption
  DEF Init, TypeInv, TypeOK, PcState, BusyPcs, File, ProcState, TimerState

LEMMA KillGdbType == TypeOK /\ KillGdb => proc' \in [Fault -> ProcState]
  BY DEF TypeOK, KillGdb, ProcState

\* Files change their kind when they are moved, never the experiment.
LEMMA LogFilesType == TypeInv /\ pc \in BusyPcs => LogFiles \subseteq File
  BY DEF TypeInv, TypeOK, LogFiles, File, Kind

LEMMA ScriptStepTypeInv == TypeInv /\ ScriptStep => TypeInv'
<1> SUFFICES ASSUME TypeInv, ScriptStep PROVE TypeInv'
  OBVIOUS
<1> USE DEF TypeInv, TypeOK, PcState, BusyPcs
<1>1. CASE ListFaults
  BY <1>1 DEF ListFaults
<1>2. ASSUME NEW i \in DOMAIN FaultList, Skip(i) PROVE TypeInv'
  BY <1>2 DEF Skip, NextLine
<1>3. ASSUME NEW i \in DOMAIN FaultList, Take(i) PROVE TypeInv'
  <2>1. FaultList[i] \in Fault
    BY ListAssumption
  <2> QED
    BY <1>3, <2>1 DEF Take, NextLine
<1>4. CASE AllExecuted
  BY <1>4 DEF AllExecuted
<1>5. CASE Stall
  BY <1>5 DEF Stall
<1>6. CASE ClearTestbed
  BY <1>6, KillGdbType DEF ClearTestbed
<1>7. CASE InstallFaulty
  BY <1>7 DEF InstallFaulty
<1>8. CASE SpawnTest
  BY <1>8 DEF SpawnTest, File, Kind, ProcState
<1>9. CASE ArmTimer
  BY <1>9 DEF ArmTimer, TimerState
<1>10. CASE WaitOk
  BY <1>10 DEF WaitOk, TimerState
<1>11. CASE WaitFailed
  BY <1>11 DEF WaitFailed
<1>12. CASE MarkKilled
  BY <1>12 DEF MarkKilled, File, Kind
<1>13. CASE MakeDir
  BY <1>13 DEF MakeDir
<1>14. CASE SaveLogs
  BY <1>14, LogFilesType DEF SaveLogs
<1>15. CASE SaveOutputs
  BY <1>15 DEF SaveOutputs, OfKind
<1>16. CASE SaveAreas
  BY <1>16 DEF SaveAreas, OfKind
<1>17. CASE RemoveAreas
  BY <1>17 DEF RemoveAreas, OfKind
<1>18. CASE NoDump \/ CompressRefused
  BY <1>18 DEF NoDump, CompressRefused
<1>19. CASE Compress
  <2>1. {<<"packedCut", x[2]>> : x \in OfKind(work, {"dump"})} \subseteq File
    BY DEF OfKind, File, Kind
  <2> QED
    BY <1>19, <2>1 DEF Compress
<1>20. CASE CompressEnds
  <2>1. {<<"packed", x[2]>> : x \in OfKind(work, {"packedCut"})} \subseteq File
    BY DEF OfKind, File, Kind
  <2> QED
    BY <1>20, <2>1 DEF CompressEnds
<1>21. CASE StoreDump
  BY <1>21 DEF StoreDump, OfKind
<1> QED
  BY <1>1, <1>2, <1>3, <1>4, <1>5, <1>6, <1>7, <1>8, <1>9, <1>10, <1>11,
     <1>12, <1>13, <1>14, <1>15, <1>16, <1>17, <1>18, <1>19, <1>20, <1>21
  DEF ScriptStep, SaveResults

LEMMA HandleTimeoutTypeInv ==
  ASSUME TypeInv, NEW f \in Fault, HandleTimeout(f)
  PROVE  TypeInv'
  BY KillGdbType DEF HandleTimeout, OldestArmed, TypeInv, TypeOK, PcState,
                     BusyPcs, TimerState

LEMMA TestStepTypeInv ==
  ASSUME TypeInv, NEW f \in Fault, TestStep(f)
  PROVE  TypeInv'
<1> USE DEF TypeInv, TypeOK, ProcState
<1>1. CASE CleanUp(f)
  BY <1>1 DEF CleanUp, OfKind
<1>2. CASE NoMtrace(f)
  BY <1>2 DEF NoMtrace
<1>3. CASE RunGdb(f)
  BY <1>3 DEF RunGdb, File, Kind
<1>4. CASE WriteFile(f)
  BY <1>4, SwitchAssumption DEF WriteFile, File, Kind
<1>5. CASE GdbExits(f)
  BY <1>5 DEF GdbExits
<1>6. CASE TeeEnds(f)
  BY <1>6 DEF TeeEnds
<1> QED
  BY <1>1, <1>2, <1>3, <1>4, <1>5, <1>6 DEF TestStep

LEMMA ContainerTypeInv ==
  ASSUME TypeInv, StopContainer \/ StartContainer
  PROVE  TypeInv'
<1> USE DEF TypeInv, TypeOK, PcState, BusyPcs
<1>1. CASE StopContainer
  BY <1>1, SwitchAssumption DEF StopContainer, ProcState, TimerState
<1>2. CASE StartContainer
  BY <1>2 DEF StartContainer
<1> QED
  BY <1>1, <1>2

LEMMA StutterTypeInv == TypeInv /\ UNCHANGED vars => TypeInv'
  BY DEF TypeInv, TypeOK, vars

LEMMA NextTypeInv == TypeInv /\ [Next]_vars => TypeInv'
  BY ScriptStepTypeInv, HandleTimeoutTypeInv, TestStepTypeInv,
     ContainerTypeInv, StutterTypeInv
  DEF Next, Done

\* Every variable of the campaign keeps its type: in particular no file is ever
\* attributed to a version nobody knows, whatever is killed or restarted.
THEOREM TypeCorrect == Spec => []TypeOK
<1>1. Spec => []TypeInv
  BY InitTypeInv, NextTypeInv, PTL DEF Spec
<1>2. TypeInv => TypeOK
  BY DEF TypeInv
<1> QED
  BY <1>1, <1>2, PTL

----------------------------------------------------------------------------
(* The inductive invariant.                                                *)

LEMMA InitIInv == Init => IInv
<1> SUFFICES ASSUME Init PROVE IInv
  OBVIOUS
<1>1. TypeInv
  BY InitTypeInv
<1>2. Bookkeeping /\ Visited /\ Verdict /\ AllAccounted
  BY DEF Init, Bookkeeping, Visited, Verdict, AllAccounted, BusyPcs,
         BeforeMkdir, AfterMkdir, AfterLogs
<1>3. StaleTimersAreMarked /\ UnmarkedEndedWell
  BY DEF Init, StaleTimersAreMarked, UnmarkedEndedWell, HasLogs
<1> QED
  BY <1>1, <1>2, <1>3 DEF IInv

\* The loop between two experiments.  Take is where duplicates and versions
\* that were stored before are kept out: what is taken has no directory, so
\* nothing is stored for it, and no watchdog of its own can be left.
LEMMA LoopIInv ==
  ASSUME IInv, TypeInv',
         \/ ListFaults
         \/ \E i \in DOMAIN FaultList : Skip(i) \/ Take(i)
         \/ AllExecuted
         \/ Stall
  PROVE  IInv'
<1> USE DEF IInv, TypeInv, TypeOK, BusyPcs, BeforeMkdir, AfterMkdir,
            AfterLogs, Bookkeeping, Visited, Verdict, CurMarked, Running, Marked, HasLogs,
            StaleTimersAreMarked, UnmarkedEndedWell, AllAccounted
<1>1. CASE ListFaults
  BY <1>1 DEF ListFaults
<1>2. ASSUME NEW i \in DOMAIN FaultList, Skip(i) PROVE IInv'
  BY <1>2 DEF Skip, NextLine, Skippable
<1>3. ASSUME NEW i \in DOMAIN FaultList, Take(i) PROVE IInv'
  <2>1. FaultList[i] \in Fault \ dirs
    BY <1>3, ListAssumption DEF Take, Skippable
  <2>2. saved[FaultList[i]] = {} /\ timer[FaultList[i]] # "armed"
    BY <1>3, <2>1 DEF Take, NextLine
  <2> QED
    BY <1>3, <2>1, <2>2 DEF Take, NextLine
<1>4. CASE AllExecuted
  BY <1>4 DEF AllExecuted
<1>5. CASE Stall
  BY <1>5 DEF Stall
<1> QED
  BY <1>1, <1>2, <1>3, <1>4, <1>5

\* From clear_testbed to the wait.
LEMMA TestIInv ==
  ASSUME IInv, TypeInv',
         \/ ClearTestbed \/ InstallFaulty \/ SpawnTest \/ ArmTimer
         \/ WaitOk \/ WaitFailed \/ MarkKilled
  PROVE  IInv'
<1> USE DEF IInv, TypeInv, TypeOK, BusyPcs, BeforeMkdir, AfterMkdir,
            AfterLogs, Bookkeeping, Visited, Verdict, CurMarked, Running, Marked, HasLogs,
            StaleTimersAreMarked, UnmarkedEndedWell, AllAccounted
<1>1. CASE ClearTestbed
  BY <1>1 DEF ClearTestbed, KillGdb
<1>2. CASE InstallFaulty
  BY <1>2 DEF InstallFaulty
<1>3. CASE SpawnTest
  BY <1>3 DEF SpawnTest
<1>4. CASE ArmTimer
  BY <1>4 DEF ArmTimer
<1>5. CASE WaitOk
  BY <1>5 DEF WaitOk
<1>6. CASE WaitFailed
  BY <1>6 DEF WaitFailed
<1>7. CASE MarkKilled
  BY <1>7 DEF MarkKilled
<1> QED
  BY <1>1, <1>2, <1>3, <1>4, <1>5, <1>6, <1>7

\* mkdir and save_results.
LEMMA SaveIInv ==
  ASSUME IInv, TypeInv',
         MakeDir \/ SaveResults
  PROVE  IInv'
<1> USE DEF IInv, TypeInv, TypeOK, BusyPcs, BeforeMkdir, AfterMkdir,
            AfterLogs, Bookkeeping, Visited, Verdict, CurMarked, Running, Marked, HasLogs,
            StaleTimersAreMarked, UnmarkedEndedWell, AllAccounted
<1>1. CASE MakeDir
  BY <1>1 DEF MakeDir
<1>2. CASE SaveLogs
  BY <1>2 DEF SaveLogs, LogFiles
<1>3. CASE SaveOutputs
  BY <1>3 DEF SaveOutputs, OfKind
<1>4. CASE SaveAreas
  BY <1>4 DEF SaveAreas, OfKind
<1>5. CASE RemoveAreas \/ NoDump \/ CompressRefused \/ Compress \/ CompressEnds
  <2>1. /\ pc \in AfterLogs /\ pc' \in AfterLogs \cup {"loop"}
        /\ UNCHANGED <<todo, cur, results, tmp, proc, timer>>
    BY <1>5 DEF RemoveAreas, NoDump, CompressRefused, Compress, CompressEnds,
                AfterLogs
  <2> QED
    BY <2>1
<1>6. CASE StoreDump
  BY <1>6 DEF StoreDump, OfKind
<1> QED
  BY <1>1, <1>2, <1>3, <1>4, <1>5, <1>6 DEF SaveResults

\* The watchdogs, dump.sh, and the container.
LEMMA EnvironmentIInv ==
  ASSUME IInv, TypeInv',
         \/ \E f \in Fault : HandleTimeout(f) \/ TestStep(f)
         \/ StopContainer
         \/ StartContainer
         \/ UNCHANGED vars
  PROVE  IInv'
<1> USE DEF IInv, TypeInv, TypeOK, BusyPcs, BeforeMkdir, AfterMkdir,
            AfterLogs, Bookkeeping, Visited, Verdict, CurMarked, Running, Marked, HasLogs,
            StaleTimersAreMarked, UnmarkedEndedWell, AllAccounted
<1>1. ASSUME NEW f \in Fault, HandleTimeout(f) PROVE IInv'
  BY <1>1 DEF HandleTimeout, TrapRuns, OldestArmed, KillGdb
<1>2. ASSUME NEW f \in Fault, TestStep(f) PROVE IInv'
  <2>1. UNCHANGED <<script, results, tmp, timer>>
    BY <1>2 DEF TestStep, CleanUp, NoMtrace, RunGdb, WriteFile, GdbExits,
                TeeEnds
  <2>2. \A g \in Fault : proc[g] \in {"ok", "none"} => proc'[g] = proc[g]
    BY <1>2 DEF TestStep, CleanUp, NoMtrace, RunGdb, WriteFile, GdbExits,
                TeeEnds
  <2> QED
    BY <2>1, <2>2
<1>3. CASE StopContainer
  BY <1>3 DEF StopContainer
<1>4. CASE StartContainer
  BY <1>4 DEF StartContainer
<1>5. CASE UNCHANGED vars
  BY <1>5 DEF vars
<1> QED
  BY <1>1, <1>2, <1>3, <1>4, <1>5

LEMMA NextIInv == IInv /\ [Next]_vars => IInv'
<1> SUFFICES ASSUME IInv, [Next]_vars PROVE IInv'
  OBVIOUS
<1>1. TypeInv'
  BY NextTypeInv DEF IInv
<1> QED
  BY <1>1, LoopIInv, TestIInv, SaveIInv, EnvironmentIInv
  DEF Next, ScriptStep, Done

LEMMA Invariant == Spec => []IInv
  BY InitIInv, NextIInv, PTL DEF Spec

\* A watchdog that survives its experiment, and may yet interrupt a later one,
\* belongs to a version whose stored results say so (execute_tests.sh leaves
\* the sleeping subshell alone after a status that is not 0).
THEOREM StaleTimersMarked == Spec => []StaleTimersAreMarked
<1>1. IInv => StaleTimersAreMarked
  BY DEF IInv
<1> QED
  BY <1>1, Invariant, PTL

\* Results without killed.txt are those of a dump.sh that returned 0, although
\* watchdogs of earlier experiments kill whatever gdb they find.
THEOREM UnmarkedWell == Spec => []UnmarkedEndedWell
<1>1. IInv => UnmarkedEndedWell
  BY DEF IInv
<1> QED
  BY <1>1, Invariant, PTL

\* When the script ends, every available version of the list has a directory.
THEOREM EveryVersionAccounted == Spec => []AllAccounted
<1>1. IInv => AllAccounted
  BY DEF IInv
<1> QED
  BY <1>1, Invariant, PTL

----------------------------------------------------------------------------
(* The stored results, and the refinement of ExperimentLog.                *)

\* The steps that neither start nor end an experiment, nor store anything.
LEMMA QuietSteps ==
  ASSUME IInv, NEW f \in Fault, HandleTimeout(f) \/ TestStep(f)
  PROVE  /\ UNCHANGED <<todo, cur, dirs, saved>>
         /\ pc' = pc \/ (pc = "wait" /\ pc' = "mark")
  BY DEF HandleTimeout, TestStep, CleanUp, NoMtrace, RunGdb, WriteFile,
         GdbExits, TeeEnds

\* An experiment that is over is never repeated, its directory never changes.
LEMMA StoredStep ==
  ASSUME IInv, [Next]_vars, NEW f \in dirs, ~Running(f)
  PROVE  f \in dirs' /\ ~Running(f)' /\ saved'[f] = saved[f]
<1> USE DEF Running, BusyPcs, IInv, TypeInv, TypeOK
<1>1. CASE \E i \in DOMAIN FaultList : Skip(i) \/ Take(i)
  BY <1>1 DEF Skip, Take, NextLine, Skippable
<1>2. CASE \/ ListFaults \/ AllExecuted \/ Stall \/ ClearTestbed
           \/ InstallFaulty \/ SpawnTest \/ ArmTimer
  BY <1>2 DEF ListFaults, AllExecuted, Stall, ClearTestbed, InstallFaulty,
              SpawnTest, ArmTimer
<1>3. CASE WaitOk \/ WaitFailed \/ MarkKilled
  BY <1>3 DEF WaitOk, WaitFailed, MarkKilled
<1>4. CASE MakeDir \/ SaveResults
  BY <1>4 DEF MakeDir, SaveResults, SaveLogs, SaveOutputs, SaveAreas, RemoveAreas,
              NoDump, CompressRefused, Compress, CompressEnds, StoreDump
<1>5. CASE \E g \in Fault : HandleTimeout(g) \/ TestStep(g)
  BY <1>5, QuietSteps
<1>6. CASE StopContainer \/ StartContainer
  BY <1>6 DEF StopContainer, StartContainer
<1>7. CASE UNCHANGED vars
  BY <1>7 DEF vars
<1> QED
  BY <1>1, <1>2, <1>3, <1>4, <1>5, <1>6, <1>7 DEF Next, ScriptStep, Done

\* What is stored for an experiment that is over stays as it is, through
\* duplicates in the list, late watchdogs and restarted campaigns.
THEOREM StoredFinal == Spec => StoredIsFinal
<1>1. IInv /\ [Next]_vars
        => [\A f \in dirs : ~Running(f) =>
              f \in dirs' /\ ~Running(f)' /\ saved'[f] = saved[f]]_vars
  BY StoredStep
<1> QED
  BY <1>1, Invariant, PTL DEF Spec, StoredIsFinal

LEMMA InitLog == Init => Log!Init
  BY DEF Init, Log!Init, LogStatus, Running, BusyPcs

\* Take starts an experiment, NoDump and StoreDump finish it, Stall and StopContainer may
\* abort it; every other step is a stuttering one.
LEMMA NextLog == IInv /\ [Next]_vars => [Log!Next]_(Log!vars)
<1> SUFFICES ASSUME IInv, [Next]_vars PROVE [Log!Next]_(Log!vars)
  OBVIOUS
<1> USE DEF IInv, TypeInv, TypeOK, Bookkeeping, BeforeMkdir, AfterMkdir,
            AfterLogs, BusyPcs, LogStatus, Running, Log!vars
<1>1. ASSUME NEW i \in DOMAIN FaultList, Take(i) PROVE Log!Next
  <2> DEFINE f == FaultList[i]
  <2>1. f \in Fault \ dirs
    BY <1>1, ListAssumption DEF Take, Skippable
  <2>2. LogStatus[f] = "waiting" /\ \A g \in Fault : LogStatus[g] # "running"
    BY <1>1, <2>1 DEF Take, NextLine
  <2>3. LogStatus' = [LogStatus EXCEPT ![f] = "running"]
    BY <1>1, <2>1 DEF Take, NextLine
  <2> QED
    BY <2>1, <2>2, <2>3 DEF Log!Next, Log!Start
<1>2. CASE NoDump \/ StoreDump
  <2>1. LogStatus[cur] = "running"
    BY <1>2 DEF NoDump, StoreDump
  <2>2. LogStatus' = [LogStatus EXCEPT ![cur] = "done"]
    BY <1>2 DEF NoDump, StoreDump
  <2> QED
    BY <1>2, <2>1, <2>2 DEF Log!Next, Log!Finish, NoDump, StoreDump
<1>3. CASE Stall
  <2>1. CASE pc = "install"
    <3>1. LogStatus[cur] = "running"
      BY <2>1
    <3>2. LogStatus' = [LogStatus EXCEPT ![cur] = "waiting"]
      BY <1>3, <2>1 DEF Stall
    <3> QED
      BY <2>1, <3>1, <3>2 DEF Log!Next, Log!Abort
  <2>2. CASE pc = "loop"
    BY <1>3, <2>2 DEF Stall
  <2> QED
    BY <1>3, <2>1, <2>2 DEF Stall
<1>4. CASE StopContainer
  <2>1. CASE pc \in BeforeMkdir
    <3>1. LogStatus[cur] = "running"
      BY <2>1
    <3>2. LogStatus' = [LogStatus EXCEPT ![cur] = "waiting"]
      BY <1>4, <2>1 DEF StopContainer
    <3> QED
      BY <2>1, <3>1, <3>2 DEF Log!Next, Log!Abort
  <2>2. CASE pc \in AfterMkdir
    <3>1. LogStatus[cur] = "running"
      BY <2>2
    <3>2. LogStatus' = [LogStatus EXCEPT ![cur] = "done"]
      BY <1>4, <2>2 DEF StopContainer
    <3> QED
      BY <2>2, <3>1, <3>2 DEF Log!Next, Log!Finish
  <2>3. CASE pc \notin BusyPcs
    BY <1>4, <2>3 DEF StopContainer
  <2> QED
    BY <2>1, <2>2, <2>3
<1>5. CASE \/ ListFaults \/ AllExecuted \/ ClearTestbed \/ InstallFaulty
           \/ SpawnTest \/ ArmTimer \/ WaitOk \/ WaitFailed \/ MarkKilled
           \/ MakeDir \/ SaveLogs \/ SaveOutputs \/ SaveAreas \/ RemoveAreas
           \/ CompressRefused \/ Compress \/ CompressEnds \/ StartContainer
  <2>1. UNCHANGED LogStatus
    BY <1>5 DEF ListFaults, AllExecuted, ClearTestbed, InstallFaulty,
       SpawnTest, ArmTimer, WaitOk, WaitFailed, MarkKilled, MakeDir, SaveLogs,
       SaveOutputs, SaveAreas, RemoveAreas, CompressRefused, Compress,
       CompressEnds, StartContainer
  <2> QED
    BY <2>1
<1>6. ASSUME NEW i \in DOMAIN FaultList, Skip(i) PROVE UNCHANGED LogStatus
  BY <1>6 DEF Skip, NextLine
<1>7. CASE \E f \in Fault : HandleTimeout(f) \/ TestStep(f)
  <2>1. UNCHANGED LogStatus
    BY <1>7, QuietSteps
  <2> QED
    BY <2>1
<1>8. CASE UNCHANGED vars
  BY <1>8 DEF vars
<1> QED
  BY <1>1, <1>2, <1>3, <1>4, <1>5, <1>6, <1>7, <1>8
  DEF Next, ScriptStep, SaveResults, Done

\* The campaign implements ExperimentLog: one experiment at a time, and a
\* version with a directory is never executed again.
THEOREM CampaignRefinesLog == Spec => RefinesLog
<1>1. Spec => Log!Init /\ [][Log!Next]_(Log!vars)
  BY InitLog, NextLog, Invariant, PTL DEF Spec
<1> QED
  BY <1>1 DEF RefinesLog, Log!Spec
=============================================================================
