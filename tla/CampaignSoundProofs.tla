------------------------ MODULE CampaignSoundProofs ------------------------
(***************************************************************************)
(* What a campaign guarantees when no dump.sh fails by itself and none     *)
(* takes longer than TIMEOUT to reach gdb, whether a container that was    *)
(* stopped is replaced by a new one or started again.                      *)
(***************************************************************************)
EXTENDS CampaignProofs

Orderly == ~TestMayFail /\ PrepIsPrompt

\* No container was started again: WORKDIR cannot hold files of an experiment
\* that was interrupted.
Fresh == ~(ReuseContainer /\ stops > 0)

\* The points where nothing of an experiment is in /tmp or WORKDIR.
EmptyPcs == {"start", "loop", "install", "spawn", "end", "stalled", "clear"}

\* A watchdog is armed only while the script waits for its own test, and only
\* a test whose watchdog expired is killed.
TimersInv ==
  /\ \A f \in Fault : timer[f] = "armed" => f = cur /\ pc = "wait"
  /\ \A f \in Fault : proc[f] = "killed" => timer[f] = "expired"
  /\ pc \in {"arm", "wait"} => proc[cur] # "killed"
  /\ pc = "wait" => timer[cur] = "armed"
  /\ pc = "mark" => timer[cur] = "expired"

\* A test is alive only between its launch and the end of the wait, with its
\* own binary in WORKDIR.
TestInv ==
  /\ \A f \in Fault : proc[f] # "failed"
  /\ \A f \in Fault : proc[f] \in Alive => f = cur /\ pc \in {"arm", "wait"}
  /\ pc \in {"spawn", "arm", "wait"} => binary = cur

\* A file that the experiment under way may store.
Storable(x) == x[2] = cur \/ (~Fresh /\ x[1] \in Leftover)

\* Whatever is in /tmp and WORKDIR belongs to the experiment under way, once
\* clear_testbed has run, or is one of the files it leaves.
SharedInv ==
  /\ pc = "down" => stops > 0
  /\ pc \in BusyPcs \ {"clear"} => \A x \in tmp \cup work : Storable(x)
  /\ pc \in {"install", "spawn"} \cup AfterLogs => tmp = {}
  /\ pc \in {"arm", "wait"} => \A x \in tmp : x[1] # "killed"
  /\ \A x \in tmp : x[1] \in {"stdout", "stdoutCut", "killed"}
  /\ \A x \in work : x[1] \in {"dump"} \cup Leftover

\* In a container that is new, save_results leaves nothing behind.
EmptiedInv ==
  Fresh =>
    /\ pc \in EmptyPcs => tmp = {} /\ work = {}
    /\ pc \in AfterLogs \ {"saveOutputs"} => \A x \in work : x[1] # "output"
    /\ pc \in {"compress", "compressing", "storeDump"} =>
         \A x \in work : x[1] # "area"
    /\ pc \in BusyPcs \ {"compressing", "storeDump"} =>
         \A x \in work : x[1] \notin {"packed", "packedCut"}
    /\ pc = "storeDump" => \A x \in work : x[1] # "dump"

FilesInv == SharedInv /\ EmptiedInv

SoundInv ==
  /\ IInv
  /\ TimersInv
  /\ TestInv
  /\ FilesInv
  /\ MarkedMeansTimeout
  /\ NoForeignFiles

----------------------------------------------------------------------------

USE DEF None, script, results, files

LEMMA InitSoundInv == Init => SoundInv
<1> SUFFICES ASSUME Init PROVE SoundInv
  OBVIOUS
<1>1. IInv
  BY InitIInv
<1>2. TimersInv /\ TestInv /\ FilesInv
  BY DEF Init, TimersInv, TestInv, FilesInv, SharedInv, EmptiedInv, Alive,
         EmptyPcs, BusyPcs, AfterLogs
<1>3. MarkedMeansTimeout /\ NoForeignFiles
  BY DEF Init, MarkedMeansTimeout, NoForeignFiles
<1> QED
  BY <1>1, <1>2, <1>3 DEF SoundInv

\* The loop between two experiments, and what leads up to the test.
LEMMA LoopSound ==
  ASSUME Orderly, SoundInv, IInv',
         \/ ListFaults
         \/ \E i \in DOMAIN FaultList : Skip(i) \/ Take(i)
         \/ AllExecuted \/ Stall \/ ClearTestbed \/ InstallFaulty
         \/ SpawnTest \/ ArmTimer
  PROVE  SoundInv'
<1> USE DEF SoundInv, IInv, TypeInv, TypeOK, BusyPcs, Bookkeeping, BeforeMkdir,
            AfterMkdir, AfterLogs, TimersInv, TestInv, FilesInv, SharedInv,
            EmptiedInv, Fresh, Storable, Leftover, Alive, EmptyPcs, Orderly,
            MarkedMeansTimeout, NoForeignFiles
<1>1. CASE \/ ListFaults \/ AllExecuted \/ Stall
           \/ \E i \in DOMAIN FaultList : Skip(i) \/ Take(i)
  <2>1. /\ pc \in {"start", "loop", "install"}
        /\ pc' \in {"loop", "end", "stalled", "clear"}
        /\ pc' = "clear" => pc = "loop"
        /\ UNCHANGED <<results, files, proc, timer, stops>>
    BY <1>1 DEF ListFaults, AllExecuted, Stall, Skip, Take, NextLine
  <2>2. \A f \in Fault : timer[f] # "armed" /\ proc[f] \notin Alive
    BY <2>1
  <2>3. TimersInv' /\ TestInv'
    BY <2>1, <2>2
  <2>4. FilesInv' /\ MarkedMeansTimeout' /\ NoForeignFiles'
    BY <2>1
  <2> QED
    BY <2>3, <2>4
<1>2. CASE ClearTestbed
  <2>1. TimersInv' /\ TestInv' /\ MarkedMeansTimeout' /\ NoForeignFiles'
    BY <1>2 DEF ClearTestbed, KillGdb, OfKind
  <2>2. tmp' = {}
    <3>1. \A x \in tmp : x[1] \in ClearedKinds
      BY DEF ClearedKinds
    <3> QED
      BY <1>2, <3>1 DEF ClearTestbed, OfKind
  <2>3. /\ work' \subseteq work /\ \A x \in work' : x[1] \in Leftover
        /\ pc = "clear" /\ pc' = "install" /\ UNCHANGED stops
    BY <1>2 DEF ClearTestbed, OfKind, ClearedKinds
  <2>4. FilesInv'
    BY <2>2, <2>3
  <2> QED
    BY <2>1, <2>4
<1>3. CASE InstallFaulty
  BY <1>3 DEF InstallFaulty
<1>4. CASE SpawnTest
  BY <1>4 DEF SpawnTest
<1>5. CASE ArmTimer
  <2>1. <<"killed", cur>> \notin tmp \cup saved[cur]
    BY <1>5 DEF ArmTimer
  <2>2. MarkedMeansTimeout'
    BY <1>5, <2>1 DEF ArmTimer
  <2>3. TimersInv' /\ TestInv' /\ FilesInv' /\ NoForeignFiles'
    BY <1>5 DEF ArmTimer
  <2> QED
    BY <2>2, <2>3
<1> QED
  BY <1>1, <1>2, <1>3, <1>4, <1>5

\* The end of the wait, and save_results.
LEMMA SaveSound ==
  ASSUME Orderly, SoundInv, IInv',
         \/ WaitOk \/ WaitFailed \/ MarkKilled
         \/ MakeDir \/ SaveResults
  PROVE  SoundInv'
<1> USE DEF SoundInv, IInv, TypeInv, TypeOK, BusyPcs, Bookkeeping, BeforeMkdir,
            AfterMkdir, AfterLogs, TimersInv, TestInv, FilesInv, SharedInv,
            EmptiedInv, Fresh, Storable, Leftover, Alive, EmptyPcs, Orderly,
            MarkedMeansTimeout, NoForeignFiles
<1>1. CASE WaitOk
  <2>1. <<"killed", cur>> \notin tmp \cup saved[cur]
    BY <1>1 DEF WaitOk
  <2>2. MarkedMeansTimeout'
    BY <1>1, <2>1 DEF WaitOk
  <2>3. TimersInv' /\ TestInv' /\ FilesInv' /\ NoForeignFiles'
    BY <1>1 DEF WaitOk
  <2> QED
    BY <2>2, <2>3
<1>2. CASE WaitFailed
  BY <1>2 DEF WaitFailed
<1>3. CASE MarkKilled
  BY <1>3 DEF MarkKilled
<1>4. CASE MakeDir
  BY <1>4 DEF MakeDir
<1>5. CASE SaveLogs
  BY <1>5 DEF SaveLogs, LogFiles
<1>6. CASE SaveOutputs
  BY <1>6 DEF SaveOutputs, OfKind
<1>7. CASE SaveAreas
  BY <1>7 DEF SaveAreas, OfKind
<1>8. CASE RemoveAreas
  BY <1>8 DEF RemoveAreas, OfKind
<1>9. CASE NoDump
  BY <1>9 DEF NoDump, OfKind
<1>10. CASE CompressRefused
  BY <1>10 DEF CompressRefused, OfKind
<1>11. CASE Compress
  BY <1>11 DEF Compress, OfKind
<1>12. CASE CompressEnds
  BY <1>12 DEF CompressEnds, OfKind
<1>13. CASE StoreDump
  BY <1>13 DEF StoreDump, OfKind
<1> QED
  BY <1>1, <1>2, <1>3, <1>4, <1>5, <1>6, <1>7, <1>8, <1>9, <1>10, <1>11, <1>12,
     <1>13 DEF SaveResults

\* The watchdog of the experiment under way is the only one there is, and it
\* waits for gdb.
LEMMA TimeoutSound ==
  ASSUME Orderly, SoundInv, IInv', NEW f \in Fault, HandleTimeout(f)
  PROVE  SoundInv'
<1> USE DEF SoundInv, IInv, TypeInv, TypeOK, BusyPcs, AfterLogs, TimersInv,
            TestInv, FilesInv, SharedInv, EmptiedInv, Fresh, Storable, Leftover,
            Alive, EmptyPcs, Orderly, HandleTimeout, OldestArmed,
            KillGdb, ProcState
<1>1. f = cur /\ pc = "wait" /\ pc' = "mark"
  OBVIOUS
<1>2. TimersInv' /\ TestInv' /\ FilesInv'
  BY <1>1
<1>3. MarkedMeansTimeout' /\ NoForeignFiles'
  BY <1>1 DEF MarkedMeansTimeout, NoForeignFiles
<1> QED
  BY <1>2, <1>3

LEMMA TestSound ==
  ASSUME Orderly, SoundInv, IInv', NEW f \in Fault, TestStep(f)
  PROVE  SoundInv'
<1> USE DEF SoundInv, IInv, TypeInv, TypeOK, BusyPcs, AfterLogs, TimersInv,
            TestInv, FilesInv, SharedInv, EmptiedInv, Fresh, Storable, Leftover,
            Alive, EmptyPcs, Orderly, MarkedMeansTimeout,
            NoForeignFiles
<1>1. CASE CleanUp(f)
  BY <1>1 DEF CleanUp, OfKind
<1>2. CASE NoMtrace(f)
  BY <1>2 DEF NoMtrace
<1>3. CASE RunGdb(f)
  BY <1>3 DEF RunGdb
<1>4. CASE WriteFile(f)
  BY <1>4, SwitchAssumption DEF WriteFile
<1>5. CASE GdbExits(f)
  BY <1>5 DEF GdbExits
<1>6. CASE TeeEnds(f)
  BY <1>6 DEF TeeEnds
<1> QED
  BY <1>1, <1>2, <1>3, <1>4, <1>5, <1>6 DEF TestStep

LEMMA ContainerSound ==
  ASSUME Orderly, SoundInv, IInv',
         StopContainer \/ StartContainer \/ UNCHANGED vars
  PROVE  SoundInv'
<1> USE DEF SoundInv, IInv, TypeInv, TypeOK, BusyPcs, AfterLogs, TimersInv,
            TestInv, FilesInv, SharedInv, EmptiedInv, Fresh, Storable, Leftover,
            Alive, EmptyPcs, Orderly, MarkedMeansTimeout,
            NoForeignFiles
<1>1. CASE StopContainer
  BY <1>1 DEF StopContainer
<1>2. CASE StartContainer
  BY <1>2 DEF StartContainer
<1>3. CASE UNCHANGED vars
  BY <1>3 DEF vars
<1> QED
  BY <1>1, <1>2, <1>3

LEMMA NextSoundInv == Orderly /\ SoundInv /\ [Next]_vars => SoundInv'
<1> SUFFICES ASSUME Orderly, SoundInv, [Next]_vars PROVE SoundInv'
  OBVIOUS
<1>1. IInv'
  BY NextIInv DEF SoundInv
<1> QED
  BY <1>1, LoopSound, SaveSound, TimeoutSound, TestSound, ContainerSound
  DEF Next, ScriptStep, Done

LEMMA Sound == ASSUME Orderly PROVE Spec => []SoundInv
<1>1. Init => SoundInv
  BY InitSoundInv
<1>2. SoundInv /\ [Next]_vars => SoundInv'
  BY NextSoundInv, Orderly
<1> QED
  BY <1>1, <1>2, PTL DEF Spec

\* In an orderly campaign the directory of a version holds files of its own
\* experiment only, although /tmp and WORKDIR are shared by all of them; what
\* comes along when a stopped container is started again is none of the logs.
THEOREM FilesAreOwn == ASSUME Orderly PROVE Spec => []NoForeignFiles
<1>1. SoundInv => NoForeignFiles
  BY DEF SoundInv
<1> QED
  BY <1>1, Sound, PTL

\* In an orderly campaign killed.txt means what its comment says: the TIMEOUT
\* of that experiment expired.
THEOREM MarksAreTimeouts == ASSUME Orderly PROVE Spec => []MarkedMeansTimeout
<1>1. SoundInv => MarkedMeansTimeout
  BY DEF SoundInv
<1> QED
  BY <1>1, Sound, PTL

\* In an orderly campaign no test is killed before its own TIMEOUT.
THEOREM NothingCutShort == ASSUME Orderly PROVE Spec => []NotCutShort
<1>1. SoundInv => NotCutShort
  BY DEF SoundInv, TimersInv, NotCutShort
<1> QED
  BY <1>1, Sound, PTL

\* In an orderly campaign the tests follow one another: clear_testbed and
\* dump.sh never meet a test of an earlier experiment.
THEOREM TestsAlone == ASSUME Orderly PROVE Spec => []OneTestAtATime
<1>1. SoundInv => OneTestAtATime
  BY DEF SoundInv, TestInv, OneTestAtATime
<1> QED
  BY <1>1, Sound, PTL

\* In an orderly campaign gdb runs the faulty binary of its own experiment.
THEOREM OwnBinary == ASSUME Orderly PROVE Spec => RunsOwnBinary
<1>1. ASSUME SoundInv, [Next]_vars, NEW f \in Fault,
             proc[f] = "prep", proc'[f] = "gdb"
      PROVE  binary = f
  <2>1. f = cur /\ pc \in {"arm", "wait"}
    BY <1>1 DEF SoundInv, TestInv, Alive
  <2> QED
    BY <1>1, <2>1 DEF SoundInv, TestInv
<1>2. SoundInv /\ [Next]_vars
        => [\A f \in Fault : proc[f] = "prep" /\ proc'[f] = "gdb"
                               => binary = f]_vars
  BY <1>1
<1> QED
  BY <1>2, Sound, PTL DEF Spec, RunsOwnBinary
=============================================================================
