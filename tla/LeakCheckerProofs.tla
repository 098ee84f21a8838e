------------------------- MODULE LeakCheckerProofs -------------------------
(***************************************************************************)
(* The whole process, host, pool threads and interception together, keeps  *)
(* what KeyTracker asks of its user, so everything proved of KeyTracker    *)
(* holds in it: proofs about LeakChecker, for every number of slots,       *)
(* workers, rounds and tasks.                                              *)
(***************************************************************************)
EXTENDS LeakChecker, KeyTrackerProofs, FiniteSetTheorems, FunctionTheorems

(***************************************************************************)
(* The inductive invariant ties the three parts together: when main is not *)
(* in run_plugin there is no worker, a thread inside the wrapper is there  *)
(* for a runtime key whose once guard it alone holds, and a probe holds    *)
(* keys only while main is in tls_used.                                    *)
(***************************************************************************)
ProcessTypes ==
  /\ wrap \in [Threads -> {"idle", "created", "locked"}]
  /\ worker \in [Workers -> {"unborn", "starting", "ready", "throwing", "gone"}]
  /\ once \in [RuntimeKeys -> {"unset", "busy", "set"}]
  /\ table \in [Slots -> Owners]

InsideRun ==
  /\ call # "out" => at \in {"running", "ended"} /\ image = "mapped"
  /\ at = "running" => call # "out"
  /\ call = "out" => \A w \in Workers : worker[w] = "unborn"

Guarded ==
  /\ \A t \in Threads : wrap[t] # "idle" => \E k \in RuntimeKeys : Needs(t, k) /\ once[k] = "busy"
  /\ \A t, u \in Threads, k \in RuntimeKeys :
       Needs(t, k) /\ Needs(u, k) /\ wrap[t] # "idle" /\ wrap[u] # "idle" => t = u

Probing ==
  /\ probe \subseteq KeysOf("foreign")
  /\ at \notin {"probing", "restoring"} => probe = {}
  /\ at \in {"probing", "restoring"} => call = "out"

ProcessInv == ProcessTypes /\ InsideRun /\ Guarded /\ Probing

-----------------------------------------------------------------------------
\* The initial states satisfy the inductive invariant.
LEMMA InitProcess == Init => ProcessInv
  BY DEF Init, TrackerInit, RunInit, ProcessInv, ProcessTypes, InsideRun, Guarded, Probing,
     Owners, KeysOf

\* Outside run_plugin no thread is inside the wrapper: what dlclose needs.
LEMMA QuietOutsideRun == ProcessInv /\ call = "out" => Quiet
  BY WorkersAssumption DEF ProcessInv, InsideRun, Guarded, Needs, Quiet, ProcessTypes

\* The steps of tls_used and the other steps of main outside run_plugin.
LEMMA HostPreserves ==
  ASSUME ProcessInv,
         \/ ProbeCreate \/ ProbeFails \/ ProbeDelete \/ Baseline \/ Sample \/ Pronounce
         \/ Open \/ OpenFails \/ Construct \/ Call \/ NoSymbol \/ Destruct \/ Close \/ LoopEnds
  PROVE  ProcessInv'
<1> USE DEF ProcessInv, ProcessTypes, InsideRun, Probing, KeysOf, Owners, runVars, trackerVars
<1>0. call = "out"
  BY DEF ProbeCreate, ProbeFails, ProbeDelete, Baseline, Sample, Pronounce, Open, OpenFails,
     Construct, Call, Enter, NoSymbol, Destruct, Close, LoopEnds, Probed
<1>1. Quiet
  BY <1>0, QuietOutsideRun
<1>2. ASSUME UNCHANGED wrap PROVE Guarded'
  BY <1>1, <1>2 DEF Guarded, Quiet
<1>3. CASE ProbeCreate
  BY <1>2, <1>3 DEF ProbeCreate, Create
<1>4. CASE ProbeFails
  BY <1>2, <1>4 DEF ProbeFails
<1>5. CASE ProbeDelete
  BY <1>2, <1>5 DEF ProbeDelete, Delete
<1>6. CASE Baseline \/ Sample \/ Pronounce
  BY <1>2, <1>6 DEF Baseline, Sample, Pronounce, Probed
<1>7. CASE Open
  BY <1>2, <1>7 DEF Open, MapImage, RuntimeKeys
<1>8. CASE OpenFails \/ NoSymbol \/ LoopEnds
  BY <1>2, <1>8 DEF OpenFails, NoSymbol, LoopEnds
<1>9. CASE Construct
  BY <1>2, <1>9 DEF Construct, plugin_init, hostVars
<1>10. CASE Call
  BY <1>2, <1>10 DEF Call, Enter
<1>11. CASE Destruct
  BY <1>0, <1>2, <1>11 DEF Destruct, FiniLock, FiniClear, FiniDelete, Delete, hostVars
<1>12. CASE Close
  BY <1>0, <1>2, <1>12 DEF Close, UnmapImage, Orphaned
<1>13. QED
  BY <1>3, <1>4, <1>5, <1>6, <1>7, <1>8, <1>9, <1>10, <1>11, <1>12

\* The steps of main inside run_plugin.
LEMMA RunPreserves == ASSUME ProcessInv, Run PROVE ProcessInv'
<1> USE WorkersAssumption
    DEF ProcessInv, ProcessTypes, InsideRun, Probing, KeysOf, Run, trackerVars
<1>1. ASSUME NEW w \in Workers, Spawn(w) PROVE ProcessInv'
  BY <1>1 DEF Spawn, Guarded, Needs
<1>2. CASE SpawnFails
  BY <1>2 DEF SpawnFails, Guarded, Needs
<1>3. CASE CatchSpawnError
  BY <1>3 DEF CatchSpawnError, Guarded, Needs
<1>4. CASE Submit(argv.task_count)
  BY <1>4 DEF Submit, Guarded, Needs
<1>5. CASE BulkDone
  BY <1>5 DEF BulkDone, Guarded, Needs
<1>6. CASE Return
  BY <1>6 DEF Return, Guarded, Needs
<1>7. QED BY <1>1, <1>2, <1>3, <1>4, <1>5, <1>6 DEF MainStep

\* The steps of the threads inside the plugin.
LEMMA PluginPreserves ==
  ASSUME ProcessInv, NEW t \in Threads, PluginStep(t) PROVE ProcessInv'
<1> USE WorkersAssumption
    DEF ProcessInv, ProcessTypes, InsideRun, Probing, KeysOf, PluginStep, hostVars, trackerVars
<1>1. ASSUME NEW k \in RuntimeKeys, BeginKey(t, k) PROVE ProcessInv'
  BY <1>1 DEF BeginKey, RealCreate, Create, Guarded, Needs, Owners
<1>2. CASE LockKey(t)
  BY <1>2 DEF LockKey, LockForPush, runVars, Guarded, Needs
<1>3. ASSUME NEW k \in RuntimeKeys, EndKey(t, k) PROVE ProcessInv'
  BY <1>3 DEF EndKey, PushKey, Guarded, Needs
<1>4. CASE t \in Workers /\ Started(t)
  BY <1>4 DEF Started, Guarded, Needs
<1>5. ASSUME t \in Workers, NEW id \in tasks, DoWork(t, id) PROVE ProcessInv'
  BY <1>5 DEF DoWork, Guarded, Needs
<1>6. CASE t \in Workers /\ CatchFailure(t)
  BY <1>6 DEF CatchFailure, Guarded, Needs
<1>7. CASE t \in Workers /\ Exit(t)
  BY <1>7 DEF Exit, Guarded, Needs
<1>8. QED BY <1>1, <1>2, <1>3, <1>4, <1>5, <1>6, <1>7 DEF KeyStep, WorkerStep

\* Every step of the process preserves the inductive invariant.
LEMMA NextProcess == ProcessInv /\ [Next]_vars => ProcessInv'
<1> SUFFICES ASSUME ProcessInv, [Next]_vars PROVE ProcessInv'
  OBVIOUS
<1>1. CASE HostStep
  BY <1>1, HostPreserves, RunPreserves DEF HostStep
<1>2. ASSUME NEW t \in Threads, PluginStep(t) PROVE ProcessInv'
  BY <1>2, PluginPreserves
<1>3. ASSUME NEW t \in Threads, Abort(t) PROVE ProcessInv'
  BY <1>3 DEF Abort, ProcessInv, ProcessTypes, InsideRun, Guarded, Needs, Probing, KeysOf,
     runVars, trackerVars
<1>4. CASE UNCHANGED vars
  BY <1>4 DEF vars, hostVars, runVars, trackerVars, ProcessInv, ProcessTypes, InsideRun,
     Guarded, Needs, Probing, KeysOf
<1>5. QED BY <1>1, <1>2, <1>3, <1>4 DEF Next, ThreadStep, Terminated

\* The inductive invariant holds in every reachable state.
LEMMA ProcessInvariance == Spec => []ProcessInv
  BY InitProcess, NextProcess, PTL DEF Spec

-----------------------------------------------------------------------------
\* Every step of the process is a step the interception allows, or does not
\* concern it; the one with a condition is plugin_fini, which needs Quiet.
LEMMA TrackerStep == ProcessInv /\ [Next]_vars => [TrackerNext]_trackerVars
<1> SUFFICES ASSUME ProcessInv, [Next]_vars PROVE [TrackerNext]_trackerVars
  OBVIOUS
<1> USE DEF TrackerNext
<1>1. CASE ProbeCreate
  BY <1>1 DEF ProbeCreate, ForeignKey
<1>2. CASE ProbeDelete
  BY <1>2 DEF ProbeDelete, ForeignKey, ProcessInv, Probing, KeysOf
<1>3. CASE \/ ProbeFails \/ Baseline \/ Sample \/ Pronounce
           \/ OpenFails \/ NoSymbol \/ LoopEnds
  BY <1>3 DEF ProbeFails, Baseline, Sample, Pronounce, OpenFails, NoSymbol, LoopEnds
<1>4. CASE Open \/ Construct
  BY <1>4 DEF Open, Construct
<1>5. CASE Call \/ Run
  BY <1>5 DEF Call, Enter, Run, MainStep, Spawn, SpawnFails, CatchSpawnError, Submit,
     BulkDone, Return
<1>6. CASE Destruct
  <2>1. Quiet
    BY <1>6, QuietOutsideRun DEF Destruct, ProcessInv, InsideRun
  <2>2. QED BY <1>6, <2>1 DEF Destruct
<1>7. CASE Close
  BY <1>7 DEF Close
<1>8. ASSUME NEW t \in Threads, PluginStep(t) PROVE [TrackerNext]_trackerVars
  BY <1>8 DEF PluginStep, KeyStep, BeginKey, LockKey, EndKey, WorkerStep, Started, DoWork,
     CatchFailure, Exit
<1>9. ASSUME NEW t \in Threads, Abort(t) PROVE UNCHANGED trackerVars
  BY <1>9 DEF Abort
<1>10. CASE UNCHANGED vars
  BY <1>10 DEF vars
<1>11. QED
  BY <1>1, <1>2, <1>3, <1>4, <1>5, <1>6, <1>7, <1>8, <1>9, <1>10
  DEF Next, ThreadStep, HostStep, Terminated

\* The host and run_plugin use the interception as KeyTracker asks: dlclose
\* comes when no thread is inside the wrapper.
THEOREM ProcessUsesTracker == Spec => TrackerSpec
<1>1. Init => TrackerInit BY DEF Init
<1>2. QED BY <1>1, TrackerStep, ProcessInvariance, PTL DEF Spec, TrackerSpec

\* For any number of rounds, workers, tasks and slots, no key of the plugin
\* survives a dlclose in the fixed build.
THEOREM ProcessLeaksNothing == Spec => []NoOrphans
  BY ProcessUsesTracker, NothingLeaks, PTL

\* No pool thread outlives the image, also when the pool's constructor throws.
THEOREM ThreadsStayInside == Spec => []NoThreadOutlivesImage
<1>1. ProcessInv => NoThreadOutlivesImage
  BY DEF ProcessInv, InsideRun, ProcessTypes, NoThreadOutlivesImage
<1>2. QED BY <1>1, ProcessInvariance, PTL

-----------------------------------------------------------------------------
(***************************************************************************)
(* What the host counts.  First its control: where main can be in which    *)
(* round, and that nothing is mapped while it probes or between rounds.    *)
(***************************************************************************)
Verdicts == {"LEAK CONFIRMED", "no leak detected"}

ControlTypes ==
  /\ argv \in [plugin : Plugins, rounds : 0..MaxRounds, task_count : 0..MaxTasks]
  /\ at \in {"probing", "restoring", "looping", "opened", "running", "closing", "ended"}
  /\ phase \in {"baseline", "sample", "final"}
  /\ round \in 0 .. MaxRounds + 1
  /\ status \in {"running", "dlopen failed", "symbol not found",
                 "LEAK CONFIRMED", "no leak detected", "aborted"}

Rounds ==
  /\ round = 0 => at \in {"probing", "restoring"} /\ phase = "baseline"
  /\ at \in {"opened", "running", "closing"} => round \in 1 .. argv.rounds
  /\ at = "looping" => round \in 1 .. argv.rounds + 1
  /\ at \in {"probing", "restoring"} =>
       \/ phase = "baseline" /\ round = 0
       \/ phase = "sample" /\ round \in 1 .. argv.rounds
       \/ phase = "final" /\ round = argv.rounds + 1

Ending ==
  /\ at \in {"probing", "restoring", "looping"} => image = "unmapped"
  /\ at # "ended" => status \in {"running", "symbol not found"}
  /\ at \notin {"closing", "ended"} => status = "running"
  /\ status \in Verdicts => image = "unmapped"

ControlInv == ControlTypes /\ Rounds /\ Ending

LEMMA InitControl == Init => ControlInv
BY BoundsAssumption DEF Init, TrackerInit, ControlInv, ControlTypes, Rounds, Ending, Verdicts

LEMMA NextRound ==
  ASSUME NEW m \in Nat, NEW n \in 0 .. m, NEW r \in 1 .. n
  PROVE  r + 1 \in 1 .. n + 1 /\ r + 1 \in 0 .. m + 1 /\ r # 0 /\ r + 1 # 0
OBVIOUS

\* Every step keeps the control of the host.
LEMMA ControlStep == ASSUME ProcessInv, ControlInv, [Next]_vars PROVE ControlInv'
<1> USE BoundsAssumption
<1> USE DEF ControlInv, ControlTypes, Rounds, Ending, Verdicts
<1>1. CASE ProbeCreate \/ ProbeFails \/ ProbeDelete
  BY <1>1 DEF ProbeCreate, ProbeFails, ProbeDelete, trackerVars
<1>2. CASE Baseline
  BY <1>2 DEF Baseline, Probed, trackerVars
<1>3. CASE Sample
  BY <1>3 DEF Sample, Probed, trackerVars
<1>4. CASE Pronounce
  BY <1>4 DEF Pronounce, Probed, trackerVars
<1>5. CASE Open
  BY <1>5 DEF Open
<1>6. CASE OpenFails \/ NoSymbol
  BY <1>6 DEF OpenFails, NoSymbol, trackerVars
<1>a. CASE LoopEnds
  <2>1. round = argv.rounds + 1
    BY <1>a DEF LoopEnds
  <2>2. QED BY <1>a, <2>1 DEF LoopEnds, trackerVars
<1>7. CASE Construct
  BY <1>7 DEF Construct, plugin_init, hostVars
<1>8. CASE Call
  BY <1>8 DEF Call
<1>9. CASE Run
  BY <1>9 DEF Run
<1>10. CASE Destruct
  BY <1>10 DEF Destruct, hostVars
<1>11. CASE Close
  <2>1. /\ at = "closing" /\ image' = "unmapped" /\ UNCHANGED <<argv, status>>
        /\ round \in 1 .. argv.rounds /\ argv.rounds \in 0 .. MaxRounds
    BY <1>11 DEF Close, UnmapImage
  <2>2. round + 1 \in 1 .. argv.rounds + 1 /\ round + 1 \in 0 .. MaxRounds + 1
    BY <2>1, NextRound
  <2>3. \/ at' = "ended" /\ UNCHANGED <<phase, round>>
        \/ status = "running" /\ at' = "probing" /\ phase' = "sample" /\ UNCHANGED round
        \/ status = "running" /\ at' = "looping" /\ round' = round + 1 /\ UNCHANGED phase
    BY <1>11 DEF Close
  <2>4. ControlTypes'
    BY <2>1, <2>2, <2>3
  <2>5. Rounds'
    <3>1. round # 0 /\ round + 1 # 0
      BY <2>1, NextRound
    <3>2. CASE at' = "ended" /\ UNCHANGED <<phase, round>>
      BY <3>1, <3>2
    <3>3. CASE at' = "probing" /\ phase' = "sample" /\ UNCHANGED round
      BY <2>1, <3>1, <3>3
    <3>4. CASE at' = "looping" /\ round' = round + 1
      BY <2>1, <2>2, <3>1, <3>4
    <3>5. QED BY <2>3, <3>2, <3>3, <3>4
  <2>6. Ending'
    BY <2>1, <2>3
  <2>7. QED BY <2>4, <2>5, <2>6
<1>12. ASSUME NEW t \in Threads, PluginStep(t) PROVE ControlInv'
  BY <1>12 DEF PluginStep, hostVars
<1>13. ASSUME NEW t \in Threads, Abort(t) PROVE ControlInv'
  BY <1>13 DEF Abort, trackerVars
<1>14. CASE UNCHANGED vars
  BY <1>14 DEF vars, hostVars, trackerVars
<1>15. QED
  BY <1>1, <1>2, <1>3, <1>4, <1>5, <1>6, <1>a, <1>7, <1>8, <1>9, <1>10, <1>11, <1>12, <1>13, <1>14
  DEF Next, ThreadStep, HostStep, Terminated

\* What has been shown of the process so far.
HostInv == ProcessInv /\ TrackerInv /\ ControlInv

LEMMA HostInvariant == Spec => []HostInv
<1>1. Init => HostInv
  BY InitProcess, InitControl, InitEstablishesInv DEF HostInv, Init
<1>2. HostInv /\ [Next]_vars => HostInv'
  BY NextProcess, ControlStep, TrackerStep, NextPreservesInv DEF HostInv
<1>3. QED BY <1>1, <1>2, PTL DEF Spec

-----------------------------------------------------------------------------
(***************************************************************************)
(* The keys the host counts.  Apart from those a probe holds, the keys of  *)
(* other code never change, and orphans come into being only in dlclose.   *)
(***************************************************************************)
OtherKeys == KeysOf("foreign") \ probe

NoneUnmapped == image = "unmapped" => KeysOf("image") = {}

\* A step that leaves the table and the probe alone.
LEMMA TableStays ==
  ASSUME UNCHANGED <<table, probe>>
  PROVE  /\ OtherKeys' = OtherKeys /\ Orphans' = Orphans /\ \A o : KeysOf(o)' = KeysOf(o)
BY DEF OtherKeys, Orphans, KeysOf

LEMMA KeyMoves ==
  ASSUME HostInv, NoneUnmapped, [Next]_vars
  PROVE  /\ OtherKeys' = OtherKeys /\ NoneUnmapped'
         /\ Orphans' = IF Close THEN Orphans \cup KeysOf("image") ELSE Orphans
<1> DEFINE Goal == /\ OtherKeys' = OtherKeys /\ NoneUnmapped'
                   /\ Orphans' = IF Close THEN Orphans \cup KeysOf("image") ELSE Orphans
<1>a. table \in [Slots -> Owners] /\ (at # "closing" => ~Close) /\ probe \subseteq KeysOf("foreign")
  BY DEF HostInv, ProcessInv, ProcessTypes, Probing, Close
<1>b. ASSUME UNCHANGED <<table, probe>>, ~Close, image' = "unmapped" => image = "unmapped" PROVE Goal
  BY <1>b, TableStays DEF NoneUnmapped
<1>1. CASE ProbeCreate
  <2>1. PICK s \in Slots : table[s] = "free" /\ table' = [table EXCEPT ![s] = "foreign"] /\ probe' = probe \cup {s}
    BY <1>1 DEF ProbeCreate, Create
  <2>2. ~Close /\ image' = image
    BY <1>1, <1>a DEF ProbeCreate
  <2>3. KeysOf("foreign")' = KeysOf("foreign") \cup {s} /\ s \notin KeysOf("foreign")
    BY <1>a, <2>1 DEF KeysOf
  <2>4. Orphans' = Orphans /\ KeysOf("image")' = KeysOf("image")
    BY <1>a, <2>1 DEF Orphans, KeysOf
  <2>5. QED BY <2>1, <2>2, <2>3, <2>4 DEF OtherKeys, NoneUnmapped
<1>2. CASE ProbeDelete
  <2>1. PICK s \in probe : table' = [table EXCEPT ![s] = "free"] /\ probe' = probe \ {s}
    BY <1>2 DEF ProbeDelete, Delete
  <2>2. ~Close /\ image' = image
    BY <1>2, <1>a DEF ProbeDelete
  <2>3. KeysOf("foreign")' = KeysOf("foreign") \ {s} /\ table[s] = "foreign" /\ s \in Slots
    BY <1>a, <2>1 DEF KeysOf
  <2>4. Orphans' = Orphans /\ KeysOf("image")' = KeysOf("image")
    BY <1>a, <2>1, <2>3 DEF Orphans, KeysOf
  <2>5. QED BY <2>1, <2>2, <2>3, <2>4 DEF OtherKeys, NoneUnmapped
<1>3. CASE ProbeFails \/ Baseline \/ Sample \/ Pronounce \/ OpenFails \/ LoopEnds \/ NoSymbol
  <2>1. UNCHANGED <<table, probe, image>> /\ ~Close
    BY <1>3, <1>a DEF ProbeFails, Baseline, Sample, Pronounce, Probed, OpenFails, LoopEnds, NoSymbol, trackerVars,
                      Close, UnmapImage
  <2>2. QED BY <1>b, <2>1
<1>4. CASE Open
  <2>1. UNCHANGED <<table, probe>> /\ ~Close /\ image' # "unmapped"
    BY <1>4, <1>a DEF Open, MapImage
  <2>2. QED BY <1>b, <2>1
<1>5. CASE Construct
  <2>1. UNCHANGED <<table, probe>> /\ ~Close /\ image' # "unmapped"
    BY <1>5, <1>a DEF Construct, plugin_init, hostVars
  <2>2. QED BY <1>b, <2>1
<1>6. CASE Call \/ Run
  <2>1. UNCHANGED <<table, probe, image>> /\ ~Close
    BY <1>6, <1>a DEF Call, Enter, Run, MainStep, Spawn, SpawnFails, CatchSpawnError, Submit, BulkDone, Return,
                      trackerVars
  <2>2. QED BY <1>b, <2>1
<1>7. CASE Destruct
  <2>1. ~Close /\ image' # "unmapped" /\ probe' = probe
    BY <1>7 DEF Destruct, FiniLock, FiniClear, FiniDelete, Close, UnmapImage, hostVars
  <2>2. CASE \E k \in Slots : FiniDelete(k)
    <3>1. PICK k \in Slots : FiniDelete(k)
      BY <2>2
    <3>2. table[k] = "image" /\ table' = [table EXCEPT ![k] = "free"]
      BY <3>1 DEF FiniDelete, Delete, HostInv, TrackerInv, DeletesOnlyOwnKeys
    <3>3. KeysOf("foreign")' = KeysOf("foreign") /\ Orphans' = Orphans
      BY <1>a, <3>2 DEF KeysOf, Orphans
    <3>4. QED BY <2>1, <3>3 DEF OtherKeys, NoneUnmapped
  <2>3. CASE FiniLock \/ FiniClear
    BY <1>b, <2>1, <2>3 DEF FiniLock, FiniClear
  <2>4. QED BY <1>7, <2>2, <2>3 DEF Destruct
<1>8. CASE Close
  <2>1. table' = Orphaned /\ probe' = probe
    BY <1>8 DEF Close, UnmapImage
  <2>2. KeysOf("foreign")' = KeysOf("foreign") /\ KeysOf("image")' = {}
        /\ Orphans' = Orphans \cup KeysOf("image")
    BY <1>a, <2>1 DEF KeysOf, Orphans, Orphaned
  <2>3. QED BY <1>8, <2>1, <2>2 DEF OtherKeys, NoneUnmapped
<1>9. ASSUME NEW t \in Threads, PluginStep(t) PROVE Goal
  <2>1. at = "running" /\ ~Close /\ UNCHANGED probe /\ image # "unmapped"
    BY <1>9, <1>a DEF PluginStep, hostVars, HostInv, ProcessInv, InsideRun
  <2>2. CASE \E k \in RuntimeKeys : BeginKey(t, k)
    <3>1. PICK s \in Slots : table[s] = "free" /\ table' = [table EXCEPT ![s] = "image"] /\ image' = image
      BY <2>2 DEF BeginKey, RealCreate, Create
    <3>2. KeysOf("foreign")' = KeysOf("foreign") /\ Orphans' = Orphans
      BY <1>a, <3>1 DEF KeysOf, Orphans
    <3>3. QED BY <2>1, <3>1, <3>2 DEF OtherKeys, NoneUnmapped
  <2>3. CASE ~\E k \in RuntimeKeys : BeginKey(t, k)
    <3>1. UNCHANGED <<table, image>>
      BY <1>9, <2>3 DEF PluginStep, KeyStep, LockKey, LockForPush, EndKey, PushKey, WorkerStep, Started, DoWork,
                        CatchFailure, Exit, trackerVars
    <3>2. QED BY <1>b, <2>1, <3>1
  <2>4. QED BY <2>2, <2>3
<1>10. ASSUME NEW t \in Threads, Abort(t) PROVE Goal
  <2>1. UNCHANGED <<table, probe, image>> /\ ~Close
    BY <1>10, <1>a DEF Abort, trackerVars
  <2>2. QED BY <1>b, <2>1
<1>11. CASE UNCHANGED vars
  <2>1. UNCHANGED <<table, probe, image>>
    BY <1>11 DEF vars, trackerVars, hostVars
  <2>2. ~Close
    BY <1>11 DEF vars, hostVars, Close
  <2>3. QED BY <1>b, <2>1, <2>2
<1>12. QED
  BY <1>1, <1>2, <1>3, <1>4, <1>5, <1>6, <1>7, <1>8, <1>9, <1>10, <1>11
  DEF Next, ThreadStep, HostStep, Terminated

LEMMA DisjointCards ==
  ASSUME NEW A, NEW B, IsFiniteSet(A), IsFiniteSet(B), A \cap B = {}
  PROVE  Cardinality(A \cup B) = Cardinality(A) + Cardinality(B)
<1>1. Cardinality(A \cap B) = 0
  BY FS_EmptySet
<1>2. Cardinality(A \cup B) = Cardinality(A) + Cardinality(B) - Cardinality(A \cap B)
  BY FS_Union
<1>3. Cardinality(A) \in Nat /\ Cardinality(B) \in Nat
  BY FS_CardinalityType
<1>4. QED BY <1>1, <1>2, <1>3

LEMMA SlotCards ==
  ASSUME NEW A, A \subseteq Slots
  PROVE  IsFiniteSet(A) /\ Cardinality(A) \in 0 .. Total /\ Total \in Nat /\ (Cardinality(A) = 0 <=> A = {})
<1>1. Total \in Nat /\ IsFiniteSet(A) /\ Cardinality(A) <= Total
  BY SlotsAssumption, FS_Subset, FS_CardinalityType DEF Total
<1>2. Cardinality(A) \in Nat
  BY <1>1, FS_CardinalityType
<1>3. QED BY <1>1, <1>2, FS_EmptySet

LEMMA Shares == OtherKeys \subseteq Slots /\ Orphans \subseteq Slots /\ UsedKeys \subseteq Slots
BY DEF OtherKeys, Orphans, KeysOf, UsedKeys

\* In a full table without an image, what a probe does not hold is in use.
LEMMA FullCount ==
  ASSUME HostInv, NoneUnmapped, image = "unmapped", Full
  PROVE  Total - Cardinality(probe) = Cardinality(OtherKeys) + Cardinality(Orphans)
<1>1. table \in [Slots -> Owners] /\ probe \subseteq KeysOf("foreign")
  BY DEF HostInv, ProcessInv, ProcessTypes, Probing
<1>2. /\ Slots = probe \cup (OtherKeys \cup Orphans)
      /\ probe \cap (OtherKeys \cup Orphans) = {} /\ OtherKeys \cap Orphans = {}
  BY <1>1 DEF OtherKeys, Orphans, KeysOf, Full, Owners, NoneUnmapped
<1>3. IsFiniteSet(probe) /\ IsFiniteSet(OtherKeys) /\ IsFiniteSet(Orphans) /\ IsFiniteSet(OtherKeys \cup Orphans)
  BY <1>2, Shares, SlotCards
<1>4. Total = Cardinality(probe) + Cardinality(OtherKeys \cup Orphans)
  BY <1>2, <1>3, DisjointCards DEF Total
<1>5. Cardinality(OtherKeys \cup Orphans) = Cardinality(OtherKeys) + Cardinality(Orphans)
  BY <1>2, <1>3, DisjointCards
<1>6. Cardinality(probe) \in Nat /\ Cardinality(OtherKeys) \in Nat /\ Cardinality(Orphans) \in Nat
  BY <1>3, FS_CardinalityType
<1>7. QED BY <1>4, <1>5, <1>6

\* The same of the table once the probe has been given back.
LEMMA UsedCount ==
  ASSUME HostInv, NoneUnmapped, image = "unmapped", probe = {}
  PROVE  Cardinality(UsedKeys) = Cardinality(OtherKeys) + Cardinality(Orphans)
<1>1. table \in [Slots -> Owners]
  BY DEF HostInv, ProcessInv, ProcessTypes
<1>2. UsedKeys = OtherKeys \cup Orphans /\ OtherKeys \cap Orphans = {}
  BY <1>1 DEF UsedKeys, OtherKeys, Orphans, KeysOf, Owners, NoneUnmapped
<1>3. IsFiniteSet(OtherKeys) /\ IsFiniteSet(Orphans)
  BY Shares, SlotCards
<1>4. QED BY <1>2, <1>3, DisjointCards

-----------------------------------------------------------------------------
\* The estimate of the round in which the table is exhausted.
LEMMA Division ==
  ASSUME NEW n \in Nat, NEW d \in Nat \ {0}
  PROVE  /\ n \div d \in Nat /\ n % d \in 0 .. d - 1 /\ n = (n \div d) * d + (n % d)
OBVIOUS

LEMMA ProductMono ==
  ASSUME NEW a \in Nat, NEW x \in Nat, NEW y \in Nat, x <= y
  PROVE  a * x <= a * y
OBVIOUS

LEMMA CrashEstIsNotLate ==
  ASSUME NEW rounds \in Nat \ {0}, NEW net \in Nat \ {0}, NEW remaining \in Nat
  PROVE  /\ CrashEst(rounds, net, remaining) \in Nat /\ CrashEst(rounds, net, remaining) >= rounds
         /\ net * CrashEst(rounds, net, remaining) <= (net + remaining) * rounds
<1> DEFINE q == net \div rounds
           g == q + 1
           h == remaining \div g
<1>1. q \in Nat /\ net % rounds \in 0 .. rounds - 1 /\ net = q * rounds + (net % rounds)
  BY Division
<1>2. g \in Nat \ {0}
  BY <1>1
<1>3. h \in Nat /\ remaining % g \in 0 .. g - 1 /\ remaining = h * g + (remaining % g)
  BY <1>2, Division
<1>4. CrashEst(rounds, net, remaining) = rounds + h
  BY DEF CrashEst
<1>5. net <= g * rounds
  <2>1. g * rounds = q * rounds + rounds /\ q * rounds \in Nat
    BY <1>1
  <2>2. QED BY <1>1, <2>1
<1> HIDE DEF q, g, h
<1>6. net * h <= remaining * rounds
  <2>1. h * net <= h * (g * rounds)
    <3>1. g * rounds \in Nat
      BY <1>2
    <3>2. QED BY <1>3, <1>5, <3>1, ProductMono
  <2>2. rounds * (h * g) <= rounds * remaining
    <3>1. h * g \in Nat
      BY <1>2, <1>3
    <3>2. h * g <= remaining
      <4>1. remaining % g \in Nat
        BY <1>2, <1>3
      <4>2. QED BY <1>3, <3>1, <4>1
    <3>3. QED BY <3>1, <3>2, ProductMono
  <2>3. h * (g * rounds) = rounds * (h * g) /\ net * h = h * net /\ remaining * rounds = rounds * remaining
    BY <1>2, <1>3
  <2>4. QED
    <3>1. h * net \in Nat /\ h * (g * rounds) \in Nat /\ rounds * remaining \in Nat
      BY <1>2, <1>3
    <3>2. QED BY <2>1, <2>2, <2>3, <3>1
<1>7. net * (rounds + h) = net * rounds + net * h /\ (net + remaining) * rounds = net * rounds + remaining * rounds
  BY <1>3
<1>8. net * rounds \in Nat /\ net * h \in Nat /\ remaining * rounds \in Nat
  BY <1>3
<1>9. QED BY <1>3, <1>4, <1>6, <1>7, <1>8

-----------------------------------------------------------------------------
(***************************************************************************)
(* The account: what the host's variables say of the table.                *)
(***************************************************************************)
CountTypes == {used, baseline, prev} \subseteq 0..Total /\ total_leaked \in Nat

Counted ==
  /\ round = 0 \/ argv.rounds = 0 => Orphans = {}
  /\ round # 0 => Cardinality(OtherKeys) = baseline
  /\ at = "restoring" => used = Cardinality(OtherKeys) + Cardinality(Orphans)
  /\ round # 0 => /\ baseline <= prev /\ prev <= baseline + Cardinality(Orphans)
                  /\ total_leaked = prev - baseline

Pronounced ==
  /\ status \in Verdicts => used = baseline + Cardinality(Orphans)
  /\ status = "no leak detected" => Orphans = {}
  /\ status = "LEAK CONFIRMED" =>
       /\ Orphans # {} /\ argv.rounds # 0
       /\ crash_est = CrashEst(argv.rounds, used - baseline, Total - used)
  /\ crash_est = -1 \/ status = "LEAK CONFIRMED"

AccountInv == NoneUnmapped /\ CountTypes /\ Counted /\ Pronounced

LEMMA InitAccount == Init => AccountInv
<1> SUFFICES ASSUME Init PROVE AccountInv
  OBVIOUS
<1>1. table \in [Slots -> {"free", "foreign"}] /\ used = 0 /\ baseline = 0 /\ prev = 0 /\ total_leaked = 0
      /\ round = 0 /\ at = "probing" /\ crash_est = -1 /\ status = "running"
  BY DEF Init, TrackerInit
<1>2. Orphans = {} /\ KeysOf("image") = {}
  BY <1>1 DEF Orphans, KeysOf
<1>3. Total \in Nat
  BY SlotCards, Shares
<1>4. QED BY <1>1, <1>2, <1>3 DEF AccountInv, NoneUnmapped, CountTypes, Counted, Pronounced, Verdicts

\* A step that changes none of the host's counts.
LEMMA AccountStays ==
  ASSUME AccountInv, NoneUnmapped', OtherKeys' = OtherKeys, Orphans' = Orphans,
         UNCHANGED <<used, baseline, prev, total_leaked, crash_est, argv>>,
         round' = 0 <=> round = 0, at' = "restoring" => at = "restoring",
         status' = status \/ (status \notin Verdicts /\ status' \notin Verdicts)
  PROVE  AccountInv'
<1>1. CountTypes'
  BY DEF AccountInv, CountTypes, Total
<1>2. Counted'
  BY DEF AccountInv, Counted
<1>3. Pronounced'
  <2>1. CASE status' = status
    BY <2>1 DEF AccountInv, Pronounced, Verdicts, Total
  <2>2. CASE status \notin Verdicts /\ status' \notin Verdicts
    BY <2>2 DEF AccountInv, Pronounced, Verdicts
  <2>3. QED BY <2>1, <2>2
<1>4. QED BY <1>1, <1>2, <1>3 DEF AccountInv

LEMMA RoundsNat == HostInv => argv.rounds \in Nat /\ round \in Nat
<1> SUFFICES ASSUME HostInv PROVE argv.rounds \in Nat /\ round \in Nat
  OBVIOUS
<1>1. argv \in [plugin : Plugins, rounds : 0..MaxRounds, task_count : 0..MaxTasks] /\ round \in 0 .. MaxRounds + 1
  BY DEF HostInv, ControlInv, ControlTypes
<1>2. argv.rounds \in 0 .. MaxRounds
  BY <1>1
<1>3. QED BY <1>1, <1>2, BoundsAssumption

\* What the step of each action of the host says of the counts.
LEMMA ProbeFailsAccount ==
  ASSUME HostInv, AccountInv, ProbeFails, NoneUnmapped', OtherKeys' = OtherKeys, Orphans' = Orphans
  PROVE  AccountInv'
<1>0. /\ at = "probing" /\ Full /\ used' = Total - Cardinality(probe)
      /\ UNCHANGED <<argv, round, baseline, prev, total_leaked, crash_est, status>>
  BY DEF ProbeFails
<1>1. image = "unmapped" /\ status = "running" /\ probe \subseteq Slots
  BY <1>0 DEF HostInv, ControlInv, Ending, ProcessInv, Probing, KeysOf
<1>2. used' = Cardinality(OtherKeys) + Cardinality(Orphans)
  BY <1>0, <1>1, FullCount DEF AccountInv
<1>3. used' \in 0 .. Total
  BY <1>0, <1>1, SlotCards
<1>4. CountTypes'
  BY <1>0, <1>3 DEF AccountInv, CountTypes, Total
<1>5. Counted'
  BY <1>0, <1>2 DEF AccountInv, Counted
<1>6. Pronounced'
  BY <1>0, <1>1 DEF AccountInv, Pronounced, Verdicts
<1>7. QED BY <1>4, <1>5, <1>6 DEF AccountInv

LEMMA BaselineAccount ==
  ASSUME HostInv, AccountInv, Baseline, NoneUnmapped', OtherKeys' = OtherKeys, Orphans' = Orphans
  PROVE  AccountInv'
<1>0. /\ at = "restoring" /\ phase = "baseline" /\ at' = "looping" /\ round' = 1
      /\ baseline' = used /\ prev' = used /\ total_leaked' = 0
      /\ UNCHANGED <<argv, used, crash_est, status>>
  BY DEF Baseline, Probed
<1>1. round = 0 /\ status = "running"
  BY <1>0 DEF HostInv, ControlInv, Ending, Rounds
<1>2. Orphans = {} /\ Cardinality(Orphans) = 0 /\ Cardinality(OtherKeys) \in Nat
      /\ used = Cardinality(OtherKeys) + Cardinality(Orphans)
  BY <1>0, <1>1, Shares, SlotCards DEF AccountInv, Counted
<1>3. CountTypes'
  BY <1>0 DEF AccountInv, CountTypes, Total
<1>4. Counted'
  BY <1>0, <1>2 DEF Counted
<1>5. Pronounced'
  BY <1>0, <1>1 DEF AccountInv, Pronounced, Verdicts
<1>6. QED BY <1>3, <1>4, <1>5 DEF AccountInv

LEMMA SampleAccount ==
  ASSUME HostInv, AccountInv, Sample, NoneUnmapped', OtherKeys' = OtherKeys, Orphans' = Orphans
  PROVE  AccountInv'
<1>0. /\ at = "restoring" /\ phase = "sample" /\ at' = "looping" /\ round' = round + 1
      /\ total_leaked' = total_leaked + (IF used - prev > 0 THEN used - prev ELSE 0) /\ prev' = used
      /\ UNCHANGED <<argv, used, baseline, crash_est, status>>
  BY DEF Sample, Probed
<1>1. round \in 1 .. argv.rounds /\ argv.rounds \in Nat /\ status = "running"
  BY <1>0, BoundsAssumption DEF HostInv, ControlInv, ControlTypes, Ending, Rounds
<1>2. round # 0 /\ round + 1 # 0
  BY <1>1
<1>3. /\ used \in Nat /\ prev \in Nat /\ baseline \in Nat /\ total_leaked \in Nat
      /\ Cardinality(OtherKeys) \in Nat /\ Cardinality(Orphans) \in Nat
      /\ Cardinality(OtherKeys) = baseline /\ used = baseline + Cardinality(Orphans)
      /\ baseline <= prev /\ prev <= used /\ total_leaked = prev - baseline
  <2>1. /\ used \in Nat /\ prev \in Nat /\ baseline \in Nat /\ total_leaked \in Nat
    BY SlotCards, Shares DEF AccountInv, CountTypes
  <2>2. Cardinality(OtherKeys) \in Nat /\ Cardinality(Orphans) \in Nat
    BY SlotCards, Shares
  <2>3. QED BY <1>0, <1>2, <2>1, <2>2 DEF AccountInv, Counted
<1>4. total_leaked' = used - baseline /\ total_leaked' \in Nat
  BY <1>0, <1>3
<1>5. CountTypes'
  BY <1>0, <1>4 DEF AccountInv, CountTypes, Total
<1>6. Counted'
  BY <1>0, <1>2, <1>3, <1>4 DEF AccountInv, Counted
<1>7. Pronounced'
  BY <1>0, <1>1 DEF AccountInv, Pronounced, Verdicts
<1>8. QED BY <1>5, <1>6, <1>7 DEF AccountInv

LEMMA PronounceAccount ==
  ASSUME HostInv, AccountInv, Pronounce, NoneUnmapped', OtherKeys' = OtherKeys, Orphans' = Orphans
  PROVE  AccountInv'
<1>0. /\ at = "restoring" /\ phase = "final" /\ at' = "ended"
      /\ \/ /\ used - baseline > 0 /\ status' = "LEAK CONFIRMED"
            /\ crash_est' = CrashEst(argv.rounds, used - baseline, Total - used)
         \/ used - baseline <= 0 /\ status' = "no leak detected" /\ UNCHANGED crash_est
      /\ UNCHANGED <<argv, round, used, baseline, prev, total_leaked>>
  BY DEF Pronounce, Probed
<1>1. round # 0 /\ status = "running"
  <2>1. round = argv.rounds + 1 /\ argv.rounds \in Nat /\ status = "running"
    BY <1>0, RoundsNat DEF HostInv, ControlInv, Ending, Rounds
  <2>2. QED BY <2>1
<1>2. /\ used \in Nat /\ baseline \in Nat
      /\ Cardinality(Orphans) \in Nat /\ (Cardinality(Orphans) = 0 <=> Orphans = {})
      /\ used = baseline + Cardinality(Orphans)
  <2>1. /\ used \in Nat /\ baseline \in Nat
    BY SlotCards, Shares DEF AccountInv, CountTypes
  <2>2. Cardinality(Orphans) \in Nat /\ (Cardinality(Orphans) = 0 <=> Orphans = {})
    BY SlotCards, Shares
  <2>3. QED BY <1>0, <1>1, <2>1, <2>2 DEF AccountInv, Counted
<1>3. CountTypes'
  BY <1>0 DEF AccountInv, CountTypes, Total
<1>4. Counted'
  BY <1>0 DEF AccountInv, Counted
<1>5. Pronounced'
  <2>1. CASE used - baseline > 0
    <3>1. status' = "LEAK CONFIRMED" /\ crash_est' = CrashEst(argv.rounds, used - baseline, Total - used)
      <4>1. ~(used - baseline <= 0)
        BY <1>2, <2>1
      <4>2. QED BY <1>0, <4>1
    <3>2. Orphans # {} /\ argv.rounds # 0
      BY <1>2, <2>1 DEF AccountInv, Counted
    <3>3. QED BY <1>0, <1>2, <3>1, <3>2 DEF Pronounced, Verdicts, Total
  <2>2. CASE used - baseline <= 0
    <3>1. status' = "no leak detected" /\ crash_est' = crash_est /\ Orphans = {}
      <4>1. ~(used - baseline > 0) /\ Orphans = {}
        <5>1. ASSUME NEW u \in Nat, NEW b \in Nat, NEW c \in Nat, u = b + c, u - b <= 0
              PROVE  c = 0 /\ ~(u - b > 0)
          BY <5>1
        <5>2. Cardinality(Orphans) = 0 /\ ~(used - baseline > 0)
          BY <1>2, <2>2, <5>1
        <5>3. QED BY <1>2, <5>2
      <4>2. QED BY <1>0, <4>1
    <3>2. crash_est = -1
      BY <1>1 DEF AccountInv, Pronounced
    <3>3. QED BY <1>0, <1>2, <3>1, <3>2 DEF Pronounced, Verdicts
  <2>3. QED BY <1>2, <2>1, <2>2
<1>6. QED BY <1>3, <1>4, <1>5 DEF AccountInv

LEMMA CloseAccount ==
  ASSUME HostInv, AccountInv, Close, NoneUnmapped', OtherKeys' = OtherKeys,
         Orphans' = Orphans \cup KeysOf("image")
  PROVE  AccountInv'
<1>0. /\ at = "closing" /\ at' \in {"ended", "probing", "looping"}
      /\ round' = round \/ round' = round + 1
      /\ UNCHANGED <<argv, used, baseline, prev, total_leaked, crash_est, status>>
  BY DEF Close
<1>1. round \in 1 .. argv.rounds /\ argv.rounds \in Nat /\ status \notin Verdicts
  <2>1. round \in 1 .. argv.rounds
    BY <1>0 DEF HostInv, ControlInv, Rounds
  <2>2. status \notin Verdicts
    BY <1>0 DEF HostInv, ControlInv, Ending, Verdicts
  <2>3. QED BY <2>1, <2>2, RoundsNat
<1>2. round # 0 /\ round' # 0 /\ argv.rounds # 0
  BY <1>0, <1>1
<1>3. Cardinality(Orphans) \in Nat /\ Cardinality(Orphans') \in Nat /\ Cardinality(Orphans) <= Cardinality(Orphans')
  <2>1. Orphans' \subseteq Slots /\ Orphans \subseteq Orphans'
    BY Shares DEF KeysOf
  <2>2. IsFiniteSet(Orphans') /\ Cardinality(Orphans') \in Nat /\ Cardinality(Orphans) \in Nat
    BY <2>1, Shares, SlotCards
  <2>3. QED BY <2>1, <2>2, FS_Subset
<1>4. CountTypes'
  BY <1>0 DEF AccountInv, CountTypes, Total
<1>5. Counted'
  <2>1. baseline \in Nat /\ prev \in Nat
    BY SlotCards, Shares DEF AccountInv, CountTypes
  <2>2. baseline <= prev /\ prev <= baseline + Cardinality(Orphans) /\ total_leaked = prev - baseline
        /\ Cardinality(OtherKeys) = baseline
    BY <1>2 DEF AccountInv, Counted
  <2>3. prev <= baseline + Cardinality(Orphans')
    BY <1>3, <2>1, <2>2
  <2>4. QED BY <1>0, <1>2, <2>2, <2>3 DEF Counted
<1>6. Pronounced'
  BY <1>0, <1>1 DEF AccountInv, Pronounced, Verdicts
<1>7. QED BY <1>4, <1>5, <1>6 DEF AccountInv

\* Every step keeps the account.
LEMMA AccountStep == ASSUME HostInv, AccountInv, [Next]_vars PROVE AccountInv'
<1> USE DEF hostVars
<1>0. /\ OtherKeys' = OtherKeys /\ NoneUnmapped'
      /\ Orphans' = IF Close THEN Orphans \cup KeysOf("image") ELSE Orphans
  BY KeyMoves DEF AccountInv
<1>a. at # "ended" => status \notin Verdicts
  BY DEF HostInv, ControlInv, Ending, Verdicts
<1>b. at # "closing" => Orphans' = Orphans
  BY <1>0 DEF Close
<1>1. CASE ProbeCreate \/ ProbeDelete
  BY <1>1, <1>0, <1>b, AccountStays DEF ProbeCreate, ProbeDelete
<1>2. CASE ProbeFails
  BY <1>2, <1>0, <1>b, ProbeFailsAccount DEF ProbeFails
<1>3. CASE Baseline
  BY <1>3, <1>0, <1>b, BaselineAccount DEF Baseline, Probed
<1>4. CASE Sample
  BY <1>4, <1>0, <1>b, SampleAccount DEF Sample, Probed
<1>5. CASE Pronounce
  BY <1>5, <1>0, <1>b, PronounceAccount DEF Pronounce, Probed
<1>6. CASE Open \/ Call \/ LoopEnds \/ Run
  BY <1>6, <1>0, <1>b, AccountStays DEF Open, Call, LoopEnds, Run
<1>7. CASE OpenFails \/ NoSymbol
  BY <1>7, <1>0, <1>a, <1>b, AccountStays DEF OpenFails, NoSymbol, Verdicts
<1>8. CASE Construct
  BY <1>8, <1>0, <1>b, AccountStays DEF Construct
<1>9. CASE Destruct
  <2>1. ~Close
    BY <1>9 DEF Destruct, Close
  <2>2. QED BY <1>9, <1>0, <2>1, AccountStays DEF Destruct
<1>10. CASE Close
  BY <1>10, <1>0, CloseAccount
<1>11. ASSUME NEW t \in Threads, PluginStep(t) PROVE AccountInv'
  BY <1>11, <1>0, <1>b, AccountStays DEF PluginStep
<1>12. ASSUME NEW t \in Threads, Abort(t) PROVE AccountInv'
  BY <1>12, <1>0, <1>a, <1>b, AccountStays DEF Abort, Verdicts
<1>13. CASE UNCHANGED vars
  <2>1. ~Close
    BY <1>13 DEF vars, Close
  <2>2. QED BY <1>13, <1>0, <2>1, AccountStays DEF vars
<1>14. QED
  BY <1>1, <1>2, <1>3, <1>4, <1>5, <1>6, <1>7, <1>8, <1>9, <1>10, <1>11, <1>12, <1>13
  DEF Next, ThreadStep, HostStep, Terminated

LEMMA AccountInvariant == Spec => []AccountInv
<1>1. HostInv /\ AccountInv /\ [Next]_vars => AccountInv'
  BY AccountStep
<1>2. QED BY <1>1, InitAccount, HostInvariant, PTL DEF Spec

\* tls_used gives back what it took: apart from the keys a probe holds, the
\* keys of other code are those the baseline counted, in every round.
THEOREM ProbesLeaveNoTrace == Spec => []ProbeLeavesNoTrace
<1>1. HostInv /\ AccountInv => ProbeLeavesNoTrace
  <2> SUFFICES ASSUME HostInv, AccountInv, round >= 1 PROVE Cardinality(OtherKeys) = baseline
    BY DEF ProbeLeavesNoTrace, OtherKeys
  <2>1. round # 0
    BY RoundsNat
  <2>2. QED BY <2>1 DEF AccountInv, Counted
<1>2. QED BY <1>1, HostInvariant, AccountInvariant, PTL

\* What tls_used returns is the number of keys in use when it returns.
THEOREM ProbesAreExact == Spec => ProbeIsExact
<1>1. ASSUME HostInv, AccountInv, [Next]_vars
      PROVE  [at = "restoring" /\ at' # "restoring" => used = Cardinality(UsedKeys)]_vars
  <2> SUFFICES ASSUME at = "restoring", at' # "restoring" PROVE used = Cardinality(UsedKeys)
    OBVIOUS
  <2>1. probe = {}
    <3>1. \A t \in Threads : ~PluginStep(t) /\ ~Abort(t)
      BY DEF PluginStep, Abort
    <3>2. ~UNCHANGED vars
      BY DEF vars, hostVars
    <3>3. HostStep
      BY <1>1, <3>1, <3>2 DEF Next, ThreadStep, Terminated
    <3>4. Baseline \/ Sample \/ Pronounce
      BY <3>3 DEF HostStep, ProbeCreate, ProbeFails, ProbeDelete, Open, OpenFails, Construct, Call, NoSymbol, Run,
                  Destruct, Close, LoopEnds, hostVars
    <3>5. QED BY <3>4 DEF Baseline, Sample, Pronounce, Probed
  <2>2. image = "unmapped"
    BY <1>1 DEF HostInv, ControlInv, Ending
  <2>3. QED BY <1>1, <2>1, <2>2, UsedCount DEF AccountInv, Counted
<1>2. QED BY <1>1, HostInvariant, AccountInvariant, PTL DEF Spec, ProbeIsExact

\* Adding up the positive deltas only, at whatever rounds are sampled, loses
\* nothing: total_leaked is the growth since the baseline.
THEOREM SamplesSumUp == Spec => []SamplesAddUp
<1>1. HostInv /\ AccountInv => SamplesAddUp
  <2> SUFFICES ASSUME HostInv, AccountInv, round >= 1 PROVE total_leaked = prev - baseline
    BY DEF SamplesAddUp
  <2>1. round # 0
    BY RoundsNat
  <2>2. QED BY <2>1 DEF AccountInv, Counted
<1>2. QED BY <1>1, HostInvariant, AccountInvariant, PTL

\* The verdict is right both ways, for every plugin, build and sample period.
THEOREM VerdictsAreRight == Spec => []VerdictIsRight
<1>1. AccountInv => VerdictIsRight
  BY DEF AccountInv, Pronounced, VerdictIsRight
<1>2. QED BY <1>1, AccountInvariant, PTL

LEMMA EstimateOfCounts ==
  ASSUME NEW rounds \in Nat \ {0}, NEW total \in Nat, NEW u \in 0 .. total, NEW b \in 0 .. total,
         NEW c \in Nat \ {0}, u = b + c
  PROVE  /\ CrashEst(rounds, u - b, total - u) \in Nat
         /\ CrashEst(rounds, u - b, total - u) >= rounds /\ rounds > 0
         /\ (u - b) * CrashEst(rounds, u - b, total - u) <= (total - b) * rounds
<1>1. u - b \in Nat \ {0} /\ total - u \in Nat /\ (u - b) + (total - u) = total - b
  OBVIOUS
<1>2. rounds > 0
  OBVIOUS
<1>3. /\ CrashEst(rounds, u - b, total - u) \in Nat /\ CrashEst(rounds, u - b, total - u) >= rounds
      /\ (u - b) * CrashEst(rounds, u - b, total - u) <= ((u - b) + (total - u)) * rounds
  BY <1>1, CrashEstIsNotLate
<1>4. QED BY <1>1, <1>2, <1>3

\* A leak is confirmed only after at least one round, so the estimate divides
\* by no zero, and at the average rate measured it is not late.
THEOREM EstimatesAreNotLate == Spec => []EstimateIsNotLate
<1>1. HostInv /\ AccountInv => EstimateIsNotLate
  <2>1. HostInv /\ AccountInv =>
          /\ argv.rounds \in Nat /\ Total \in Nat /\ used \in 0 .. Total /\ baseline \in 0 .. Total
          /\ Cardinality(Orphans) \in Nat /\ (Orphans # {} => Cardinality(Orphans) \in Nat \ {0})
    BY SlotCards, Shares, RoundsNat DEF AccountInv, CountTypes
  <2>2. AccountInv /\ status = "LEAK CONFIRMED" =>
          /\ Orphans # {} /\ argv.rounds # 0 /\ used = baseline + Cardinality(Orphans)
          /\ crash_est = CrashEst(argv.rounds, used - baseline, Total - used)
    BY DEF AccountInv, Pronounced, Verdicts
  <2>3. QED BY <2>1, <2>2, EstimateOfCounts DEF EstimateIsNotLate
<1>2. QED BY <1>1, HostInvariant, AccountInvariant, PTL

-----------------------------------------------------------------------------
(***************************************************************************)
(* Failures: an odd index is at one place, still to be taken, thrown by a  *)
(* worker that has not handled it yet, or counted.                         *)
(***************************************************************************)
Odd(S)   == {i \in S : i % 2 # 0}
Throwers == {w \in Workers : worker[w] = "throwing"}
Expected == argv.task_count \div 2

BulkInv ==
  /\ RunTypeOK
  /\ call # "working" => tasks = {} /\ Throwers = {}
  /\ tasks \subseteq 0 .. argv.task_count - 1
  /\ call = "building" => failures = 0
  /\ call = "working" => failures + Cardinality(Throwers) + Cardinality(Odd(tasks)) = Expected
  /\ call = "joining" => failures = Expected

FailInv == BulkInv /\ FailuresAreCounted

LEMMA OddCount ==
  ASSUME NEW n \in Nat
  PROVE  Cardinality(Odd(0 .. n - 1)) = n \div 2
<1> DEFINE S == Odd(0 .. n - 1)
           m == n \div 2
           f == [j \in 1 .. m |-> 2 * j - 1]
<1>1. m \in Nat /\ 2 * m <= n /\ n <= 2 * m + 1
  OBVIOUS
<1>2. f \in [1 .. m -> S]
  <2> SUFFICES ASSUME NEW j \in 1 .. m PROVE 2 * j - 1 \in S
    OBVIOUS
  <2>1. 2 * j - 1 \in 0 .. n - 1 /\ (2 * j - 1) % 2 # 0
    BY <1>1
  <2>2. QED BY <2>1 DEF Odd
<1>3. \A a, b \in 1 .. m : f[a] = f[b] => a = b
  BY <1>1
<1>4. \A i \in S : \E j \in 1 .. m : f[j] = i
  <2> SUFFICES ASSUME NEW i \in S PROVE \E j \in 1 .. m : f[j] = i
    OBVIOUS
  <2>1. i \in 0 .. n - 1 /\ i % 2 # 0
    BY DEF Odd
  <2>2. (i + 1) \div 2 \in 1 .. m /\ 2 * ((i + 1) \div 2) - 1 = i
    BY <1>1, <2>1
  <2>3. QED BY <2>2
<1> HIDE DEF S, m, f
<1>5. f \in Bijection(1 .. m, S)
  BY <1>2, <1>3, <1>4, Fun_IsBij
<1>6. ExistsBijection(1 .. m, S)
  BY <1>5, Fun_ExistsBij
<1>7. QED BY <1>1, <1>6, FS_CountingElements DEF S, m

LEMMA BulkSets ==
  ASSUME BulkInv, HostInv
  PROVE  /\ argv.task_count \in Nat /\ Expected \in Nat
         /\ IsFiniteSet(Throwers) /\ Cardinality(Throwers) \in Nat
         /\ IsFiniteSet(Odd(tasks)) /\ Cardinality(Odd(tasks)) \in Nat
<1>1. argv.task_count \in Nat
  <2>1. argv \in [plugin : Plugins, rounds : 0..MaxRounds, task_count : 0..MaxTasks]
    BY DEF HostInv, ControlInv, ControlTypes
  <2>2. argv.task_count \in 0 .. MaxTasks
    BY <2>1
  <2>3. QED BY <2>2, BoundsAssumption
<1>2. Expected \in Nat
  BY <1>1 DEF Expected
<1>3. IsFiniteSet(Throwers)
  <2>1. IsFiniteSet(Workers) /\ Throwers \subseteq Workers
    BY WorkersAssumption DEF Throwers
  <2>2. QED BY <2>1, FS_Subset
<1>4. IsFiniteSet(Odd(tasks))
  <2>1. IsFiniteSet(0 .. argv.task_count - 1)
    BY <1>1, FS_Interval
  <2>2. Odd(tasks) \subseteq 0 .. argv.task_count - 1
    BY DEF BulkInv, Odd
  <2>3. QED BY <2>1, <2>2, FS_Subset
<1>5. QED BY <1>1, <1>2, <1>3, <1>4, FS_CardinalityType

LEMMA InitFails == Init => FailInv
<1> SUFFICES ASSUME Init PROVE FailInv
  OBVIOUS
<1>1. call = "out" /\ at = "probing" /\ Throwers = {}
  BY DEF Init, RunInit, Throwers
<1>2. RunTypeOK /\ tasks = {}
  BY DEF Init, RunInit, RunTypeOK
<1>3. QED BY <1>1, <1>2 DEF FailInv, BulkInv, FailuresAreCounted

\* Steps outside run_plugin.
LEMMA HostFails ==
  ASSUME HostInv, FailInv,
         \/ ProbeCreate \/ ProbeFails \/ ProbeDelete \/ Baseline \/ Sample \/ Pronounce
         \/ Open \/ OpenFails \/ Construct \/ Call \/ NoSymbol \/ Destruct \/ Close \/ LoopEnds
         \/ (\E t \in Threads : Abort(t)) \/ UNCHANGED vars
  PROVE  FailInv'
<1> USE DEF hostVars
<1>0. BulkInv /\ FailuresAreCounted /\ RunTypeOK
  BY DEF FailInv, BulkInv
<1>a. ASSUME UNCHANGED <<runVars, argv>> PROVE BulkInv'
  BY <1>0, <1>a DEF runVars, BulkInv, RunTypeOK, Throwers, Expected
<1>b. ASSUME at' \notin {"closing"} \/ status' # "running" PROVE FailuresAreCounted'
  BY <1>b DEF FailuresAreCounted
<1>1. CASE ProbeCreate \/ ProbeFails \/ ProbeDelete
  BY <1>1, <1>a, <1>b DEF ProbeCreate, ProbeFails, ProbeDelete, FailInv
<1>2. CASE Baseline \/ Sample \/ Pronounce
  BY <1>2, <1>a, <1>b DEF Baseline, Sample, Pronounce, FailInv
<1>3. CASE OpenFails \/ NoSymbol \/ LoopEnds \/ Close \/ \E t \in Threads : Abort(t)
  BY <1>3, <1>a, <1>b DEF OpenFails, NoSymbol, LoopEnds, Close, Abort, FailInv
<1>4. CASE Open
  <2>1. UNCHANGED <<call, worker, tasks, failures, result, argv>> /\ at' = "opened"
        /\ once' = [k \in RuntimeKeys |-> "unset"]
    BY <1>4 DEF Open
  <2>2. once' \in [RuntimeKeys -> {"unset", "busy", "set"}]
    BY <2>1
  <2>3. BulkInv'
    BY <1>0, <2>1, <2>2 DEF BulkInv, RunTypeOK, Throwers, Expected
  <2>4. QED BY <1>b, <2>1, <2>3 DEF FailInv
<1>5. CASE Construct
  <2>1. UNCHANGED <<runVars, argv, at, status>>
    BY <1>5 DEF Construct
  <2>2. at = "opened"
    BY <1>5 DEF Construct
  <2>3. QED BY <1>a, <1>b, <2>1, <2>2 DEF FailInv
<1>6. CASE Call
  <2>1. call = "out" /\ call' = "building" /\ failures' = 0 /\ UNCHANGED <<worker, once, tasks, result, argv>>
        /\ at' = "running"
    BY <1>6 DEF Call, Enter
  <2>2. BulkInv'
    BY <1>0, <2>1 DEF BulkInv, RunTypeOK, Throwers
  <2>3. QED BY <1>b, <2>1, <2>2 DEF FailInv
<1>7. CASE Destruct \/ UNCHANGED vars
  <2>1. UNCHANGED <<runVars, argv, at, status>>
    BY <1>7 DEF Destruct, vars
  <2>2. FailuresAreCounted'
    BY <1>0, <2>1 DEF FailuresAreCounted, runVars
  <2>3. QED BY <1>a, <2>1, <2>2 DEF FailInv
<1>8. QED BY <1>1, <1>2, <1>3, <1>4, <1>5, <1>6, <1>7

\* Steps of main in run_plugin.
LEMMA RunFails == ASSUME HostInv, FailInv, Run PROVE FailInv'
<1>0. BulkInv /\ RunTypeOK /\ at = "running" /\ argv' = argv
  BY DEF FailInv, BulkInv, Run
<1>a. /\ worker \in [Workers -> {"unborn", "starting", "ready", "throwing", "gone"}]
      /\ once \in [RuntimeKeys -> {"unset", "busy", "set"}]
      /\ failures \in Nat
  BY <1>0 DEF RunTypeOK
<1>b. at' = "closing" => call' = "out"
  BY DEF Run
<1>c. call' # "out" => FailuresAreCounted'
  BY <1>b DEF FailuresAreCounted
<1>1. ASSUME NEW w \in Workers, Spawn(w) PROVE FailInv'
  <2>1. call = "building" /\ worker' = [worker EXCEPT ![w] = "starting"]
        /\ UNCHANGED <<call, once, tasks, failures, result>>
    BY <1>1 DEF Spawn
  <2>2. worker' \in [Workers -> {"unborn", "starting", "ready", "throwing", "gone"}]
    BY <1>a, <2>1
  <2>3. Throwers' \subseteq Throwers
    BY <1>a, <2>1 DEF Throwers
  <2>4. BulkInv'
    BY <1>0, <2>1, <2>2, <2>3 DEF BulkInv, RunTypeOK
  <2>5. QED BY <1>c, <2>1, <2>4 DEF FailInv
<1>2. CASE SpawnFails \/ CatchSpawnError
  <2>1. call \in {"building", "throwing"} /\ call' \in {"throwing", "unwinding"}
        /\ UNCHANGED <<worker, once, tasks, failures, result>>
    BY <1>2 DEF SpawnFails, CatchSpawnError
  <2>2. BulkInv'
    BY <1>0, <2>1 DEF BulkInv, RunTypeOK, Throwers
  <2>3. QED BY <1>c, <2>1, <2>2 DEF FailInv
<1>3. CASE Submit(argv.task_count)
  <2>1. call = "building" /\ call' = "working" /\ tasks' = 0 .. argv.task_count - 1
        /\ UNCHANGED <<worker, once, failures, result>>
    BY <1>3 DEF Submit
  <2>2. Throwers' = {} /\ failures' = 0
    BY <1>0, <2>1 DEF BulkInv, Throwers
  <2>3. argv.task_count \in Nat
    BY <1>0, BulkSets
  <2>4. Cardinality(Odd(tasks')) = Expected /\ Cardinality({}) = 0 /\ Expected \in Nat
    BY <1>0, <2>1, <2>3, OddCount, FS_EmptySet, BulkSets DEF Expected
  <2>5. failures' + Cardinality(Throwers') + Cardinality(Odd(tasks')) = Expected /\ Expected' = Expected
    BY <1>0, <2>2, <2>4 DEF Expected
  <2>6. tasks' \subseteq Nat
    BY <2>1, <2>3
  <2>7. BulkInv'
    BY <1>0, <2>1, <2>5, <2>6 DEF BulkInv, RunTypeOK
  <2>8. QED BY <1>c, <2>1, <2>7 DEF FailInv
<1>4. CASE BulkDone
  <2>1. call = "working" /\ call' = "joining" /\ tasks = {} /\ (\A w \in Workers : worker[w] # "throwing")
        /\ UNCHANGED <<worker, once, tasks, failures, result>>
    BY <1>4 DEF BulkDone
  <2>2. Throwers = {} /\ Throwers' = {} /\ Odd(tasks) = {}
    BY <2>1 DEF Throwers, Odd
  <2>3. failures = Expected
    <3>1. failures + Cardinality(Throwers) + Cardinality(Odd(tasks)) = Expected
      BY <1>0, <2>1 DEF BulkInv
    <3>2. Cardinality(Throwers) = 0 /\ Cardinality(Odd(tasks)) = 0
      BY <2>2, FS_EmptySet
    <3>3. QED BY <1>a, <3>1, <3>2
  <2>4. BulkInv'
    BY <1>0, <2>1, <2>2, <2>3 DEF BulkInv, RunTypeOK, Expected
  <2>5. QED BY <1>c, <2>1, <2>4 DEF FailInv
<1>5. CASE Return
  <2>1. /\ call \in {"joining", "unwinding"} /\ call' = "out" /\ worker' = [w \in Workers |-> "unborn"]
        /\ UNCHANGED <<once, tasks, failures>>
    BY <1>5 DEF Return
  <2>2. \/ call = "unwinding" /\ result' = 2
        \/ call = "joining" /\ failures > 0 /\ result' = 1
        \/ call = "joining" /\ failures = 0 /\ result' = 0
    BY <1>5, <1>a, <2>1 DEF Return
  <2>3. result' \in 0 .. 2 /\ Throwers' = {}
    BY <2>1, <2>2 DEF Throwers
  <2>4. worker' \in [Workers -> {"unborn", "starting", "ready", "throwing", "gone"}]
    BY <2>1
  <2>5. BulkInv'
    BY <1>0, <2>1, <2>3, <2>4 DEF BulkInv, RunTypeOK
  <2>6. FailuresAreCounted'
    <3>1. call = "joining" => failures = argv.task_count \div 2
      BY <1>0 DEF BulkInv, Expected
    <3>2. CASE call = "unwinding"
      BY <2>1, <2>2, <3>2 DEF FailuresAreCounted
    <3>3. CASE call = "joining"
      <4>1. result' = IF failures' > 0 THEN 1 ELSE 0
        BY <1>a, <2>1, <2>2, <3>3
      <4>2. QED BY <1>0, <2>1, <3>1, <3>3, <4>1 DEF FailuresAreCounted
    <3>4. QED BY <2>1, <3>2, <3>3
  <2>7. QED BY <2>5, <2>6 DEF FailInv
<1>6. QED BY <1>1, <1>2, <1>3, <1>4, <1>5 DEF Run, MainStep

\* Steps of the threads in the plugin.
LEMMA PluginFails == ASSUME HostInv, FailInv, NEW t \in Threads, PluginStep(t) PROVE FailInv'
<1>0. BulkInv /\ RunTypeOK /\ at = "running" /\ UNCHANGED hostVars
  BY DEF FailInv, BulkInv, PluginStep
<1>a. /\ worker \in [Workers -> {"unborn", "starting", "ready", "throwing", "gone"}]
      /\ once \in [RuntimeKeys -> {"unset", "busy", "set"}]
      /\ failures \in Nat
  BY <1>0 DEF RunTypeOK
<1>b. FailuresAreCounted' /\ argv' = argv /\ Expected' = Expected
  BY <1>0 DEF FailuresAreCounted, hostVars, Expected
<1>1. ASSUME NEW k \in RuntimeKeys, BeginKey(t, k) \/ EndKey(t, k) PROVE FailInv'
  <2>1. once' \in [RuntimeKeys -> {"unset", "busy", "set"}] /\ UNCHANGED <<call, worker, tasks, failures, result>>
    BY <1>1, <1>a DEF BeginKey, EndKey
  <2>2. BulkInv'
    BY <1>0, <1>b, <2>1 DEF BulkInv, RunTypeOK, Throwers
  <2>3. QED BY <1>b, <2>2 DEF FailInv
<1>2. CASE LockKey(t)
  <2>1. BulkInv'
    BY <1>0, <1>b, <1>2 DEF LockKey, runVars, BulkInv, RunTypeOK, Throwers
  <2>2. QED BY <1>b, <2>1 DEF FailInv
<1>3. CASE t \in Workers /\ (Started(t) \/ Exit(t))
  <2>1. PICK l \in {"ready", "gone"} : worker' = [worker EXCEPT ![t] = l]
    BY <1>3 DEF Started, Exit
  <2>2. worker[t] # "throwing" /\ UNCHANGED <<call, once, tasks, failures, result>>
    BY <1>3 DEF Started, Exit
  <2>3. worker' \in [Workers -> {"unborn", "starting", "ready", "throwing", "gone"}]
    BY <1>a, <2>1
  <2>4. Throwers' = Throwers
    BY <1>3, <1>a, <2>1, <2>2 DEF Throwers
  <2>5. BulkInv'
    BY <1>0, <1>b, <2>2, <2>3, <2>4 DEF BulkInv, RunTypeOK
  <2>6. QED BY <1>b, <2>5 DEF FailInv
<1>4. ASSUME t \in Workers, NEW id \in tasks, DoWork(t, id) PROVE FailInv'
  <2>1. /\ worker[t] = "ready" /\ tasks' = tasks \ {id} /\ UNCHANGED <<call, once, failures, result>>
        /\ worker' = [worker EXCEPT ![t] = IF id % 2 # 0 THEN "throwing" ELSE "ready"]
    BY <1>4 DEF DoWork
  <2>2. worker' \in [Workers -> {"unborn", "starting", "ready", "throwing", "gone"}]
    BY <1>a, <2>1
  <2>3. call = "working" /\ failures + Cardinality(Throwers) + Cardinality(Odd(tasks)) = Expected
    BY <1>0, <1>4 DEF BulkInv
  <2>4. /\ IsFiniteSet(Throwers) /\ Cardinality(Throwers) \in Nat
        /\ IsFiniteSet(Odd(tasks)) /\ Cardinality(Odd(tasks)) \in Nat
    BY <1>0, BulkSets
  <2>5. failures + Cardinality(Throwers') + Cardinality(Odd(tasks')) = Expected
    <3>1. CASE id % 2 # 0
      <4>1. Throwers' = Throwers \cup {t} /\ t \notin Throwers
        BY <1>4, <1>a, <2>1, <3>1 DEF Throwers
      <4>2. Odd(tasks') = Odd(tasks) \ {id} /\ id \in Odd(tasks)
        BY <2>1, <3>1 DEF Odd
      <4>3. Cardinality(Throwers') = Cardinality(Throwers) + 1
        BY <2>4, <4>1, FS_AddElement
      <4>4. Cardinality(Odd(tasks')) = Cardinality(Odd(tasks)) - 1
        BY <2>4, <4>2, FS_RemoveElement
      <4>5. QED BY <1>a, <2>3, <2>4, <4>3, <4>4
    <3>2. CASE ~(id % 2 # 0)
      <4>1. Throwers' = Throwers /\ Odd(tasks') = Odd(tasks)
        BY <1>4, <1>a, <2>1, <3>2 DEF Throwers, Odd
      <4>2. QED BY <2>3, <4>1
    <3>3. QED BY <3>1, <3>2
  <2>6. BulkInv'
    BY <1>0, <1>b, <2>1, <2>2, <2>3, <2>5 DEF BulkInv, RunTypeOK
  <2>7. QED BY <1>b, <2>6 DEF FailInv
<1>5. CASE t \in Workers /\ CatchFailure(t)
  <2>1. /\ worker[t] = "throwing" /\ failures' = failures + 1 /\ UNCHANGED <<call, once, tasks, result>>
        /\ worker' = [worker EXCEPT ![t] = "ready"]
    BY <1>5 DEF CatchFailure
  <2>2. worker' \in [Workers -> {"unborn", "starting", "ready", "throwing", "gone"}] /\ failures' \in Nat
    <3>1. failures' \in Nat
      BY <1>a, <2>1
    <3>2. worker' \in [Workers -> {"unborn", "starting", "ready", "throwing", "gone"}]
      BY <1>a, <2>1
    <3>3. QED BY <3>1, <3>2
  <2>3. t \in Throwers /\ Throwers' = Throwers \ {t}
    BY <1>5, <1>a, <2>1 DEF Throwers
  <2>4. call = "working" /\ failures + Cardinality(Throwers) + Cardinality(Odd(tasks)) = Expected
    BY <1>0, <2>3 DEF BulkInv
  <2>5. /\ IsFiniteSet(Throwers) /\ Cardinality(Throwers) \in Nat /\ Cardinality(Odd(tasks)) \in Nat
    BY <1>0, BulkSets
  <2>6. Cardinality(Throwers') = Cardinality(Throwers) - 1
    BY <2>3, <2>5, FS_RemoveElement
  <2>7. failures' + Cardinality(Throwers') + Cardinality(Odd(tasks)) = Expected
    BY <1>a, <2>1, <2>4, <2>5, <2>6
  <2>8. BulkInv'
    BY <1>0, <1>b, <2>1, <2>2, <2>4, <2>7 DEF BulkInv, RunTypeOK
  <2>9. QED BY <1>b, <2>8 DEF FailInv
<1>6. QED BY <1>1, <1>2, <1>3, <1>4, <1>5 DEF PluginStep, KeyStep, WorkerStep

LEMMA FailInvariant == Spec => []FailInv
<1>1. HostInv /\ FailInv /\ [Next]_vars => FailInv'
  BY HostFails, RunFails, PluginFails DEF Next, ThreadStep, HostStep, Terminated
<1>2. QED BY <1>1, InitFails, HostInvariant, PTL DEF Spec

\* Each do_work that throws is counted exactly once before run_plugin returns,
\* for any number of workers and tasks, and the returned code says so.
THEOREM FailuresAreAllCounted == Spec => []FailuresAreCounted
<1>1. FailInv => FailuresAreCounted
  BY DEF FailInv
<1>2. QED BY <1>1, FailInvariant, PTL

-----------------------------------------------------------------------------
\* Types of the whole process.
THEOREM ProcessIsTyped == Spec => []TypeOK
<1>1. HostInv /\ AccountInv /\ FailInv => TypeOK
  <2> SUFFICES ASSUME HostInv, AccountInv, FailInv PROVE TypeOK
    OBVIOUS
  <2>1. TrackerTypeOK /\ RunTypeOK /\ probe \subseteq Slots
    BY DEF HostInv, TrackerInv, FailInv, BulkInv, ProcessInv, Probing, KeysOf
  <2>2. crash_est \in Nat \cup {-1}
    <3>1. CASE status # "LEAK CONFIRMED"
      BY <3>1 DEF AccountInv, Pronounced
    <3>2. CASE status = "LEAK CONFIRMED"
      <4>1. /\ Orphans # {} /\ argv.rounds # 0 /\ used = baseline + Cardinality(Orphans)
            /\ crash_est = CrashEst(argv.rounds, used - baseline, Total - used)
        BY <3>2 DEF AccountInv, Pronounced, Verdicts
      <4>2. /\ argv.rounds \in Nat \ {0} /\ Total \in Nat /\ used \in 0 .. Total /\ baseline \in 0 .. Total
            /\ Cardinality(Orphans) \in Nat \ {0}
        BY <4>1, SlotCards, Shares, RoundsNat DEF AccountInv, CountTypes
      <4>3. crash_est \in Nat
        BY <4>1, <4>2, EstimateOfCounts
      <4>4. QED BY <4>3
    <3>3. QED BY <3>1, <3>2
  <2>3. HostTypeOK
    BY <2>1, <2>2 DEF HostTypeOK, HostInv, ControlInv, ControlTypes, AccountInv, CountTypes
  <2>4. QED BY <2>1, <2>3 DEF TypeOK
<1>2. QED BY <1>1, HostInvariant, AccountInvariant, FailInvariant, PTL

-----------------------------------------------------------------------------
(***************************************************************************)
(* The runtime's keys: a mapped image holds at most one key for each once  *)
(* guard that is no longer unset, exactly one when nothing intercepts the  *)
(* creation; and a call of run_plugin that comes back has made one.        *)
(***************************************************************************)
Made == {k \in RuntimeKeys : once[k] # "unset"}

Kept ==
  /\ Cardinality(KeysOf("image")) <= Cardinality(Made)
  /\ ~Wrapped => /\ image \in {"unmapped", "mapped"}
                 /\ image = "mapped" => Cardinality(KeysOf("image")) = Cardinality(Made)

Used ==
  /\ call \in {"working", "joining"} => \A w \in Workers : worker[w] # "unborn"
  /\ \A w \in Workers : worker[w] \in {"ready", "throwing", "gone"} => once["thread_data"] = "set"
  /\ call = "unwinding" => once["eh_globals"] = "set"
  /\ at = "closing" /\ status = "running" => Made # {}

ImageInv == NoneUnmapped /\ Kept /\ Used

LEMMA RuntimeCards ==
  /\ IsFiniteSet(RuntimeKeys) /\ Cardinality(RuntimeKeys) = 2
  /\ \A A : A \subseteq RuntimeKeys => /\ IsFiniteSet(A) /\ Cardinality(A) \in 0 .. 2
                                       /\ (A # RuntimeKeys => Cardinality(A) < 2)
                                       /\ (A # {} => Cardinality(A) > 0)
<1>1. IsFiniteSet({"thread_data"}) /\ Cardinality({"thread_data"}) = 1
  BY FS_Singleton
<1>2. RuntimeKeys = {"thread_data"} \cup {"eh_globals"} /\ "eh_globals" \notin {"thread_data"}
  BY DEF RuntimeKeys
<1>3. IsFiniteSet(RuntimeKeys) /\ Cardinality(RuntimeKeys) = 2
  BY <1>1, <1>2, FS_AddElement
<1>4. ASSUME NEW A, A \subseteq RuntimeKeys
      PROVE  /\ IsFiniteSet(A) /\ Cardinality(A) \in 0 .. 2
             /\ (A # RuntimeKeys => Cardinality(A) < 2) /\ (A # {} => Cardinality(A) > 0)
  <2>1. /\ IsFiniteSet(A) /\ Cardinality(A) <= 2
        /\ (Cardinality(A) = 2 => A = RuntimeKeys)
    BY <1>3, <1>4, FS_Subset
  <2>2. Cardinality(A) \in Nat /\ (Cardinality(A) = 0 => A = {})
    BY <2>1, FS_CardinalityType, FS_EmptySet
  <2>3. QED BY <2>1, <2>2
<1>5. QED BY <1>3, <1>4

LEMMA InitImage == Init => ImageInv
<1> SUFFICES ASSUME Init PROVE ImageInv
  OBVIOUS
<1>1. /\ table \in [Slots -> {"free", "foreign"}] /\ image = "unmapped" /\ call = "out" /\ at = "probing"
      /\ worker = [w \in Workers |-> "unborn"]
  BY DEF Init, TrackerInit, RunInit
<1>2. KeysOf("image") = {} /\ Cardinality(KeysOf("image")) = 0
  BY <1>1, FS_EmptySet DEF KeysOf
<1>3. Cardinality(Made) \in 0 .. 2
  BY RuntimeCards DEF Made
<1>4. QED BY <1>1, <1>2, <1>3 DEF ImageInv, NoneUnmapped, Kept, Used

\* A step that changes neither the image's keys nor the once guards.
LEMMA ImageStays ==
  ASSUME ImageInv, NoneUnmapped', KeysOf("image")' = KeysOf("image"), once' = once, image' = image \/ Wrapped
  PROVE  Kept'
BY DEF ImageInv, Kept, Made

LEMMA HostImage ==
  ASSUME HostInv, ImageInv, NoneUnmapped',
         \/ ProbeCreate \/ ProbeFails \/ ProbeDelete \/ Baseline \/ Sample \/ Pronounce
         \/ Open \/ OpenFails \/ Construct \/ Call \/ NoSymbol \/ Destruct \/ Close \/ LoopEnds
         \/ (\E t \in Threads : Abort(t)) \/ UNCHANGED vars
  PROVE  ImageInv'
<1> USE DEF hostVars, runVars, trackerVars
<1>0. /\ Used /\ Kept /\ table \in [Slots -> Owners] /\ probe \subseteq KeysOf("foreign")
      /\ (at \notin {"running", "ended"} => call = "out" /\ \A w \in Workers : worker[w] = "unborn")
  BY DEF ImageInv, HostInv, ProcessInv, ProcessTypes, Probing, InsideRun
<1>a. ASSUME UNCHANGED <<call, worker, once>>, at' # "closing" \/ status' # "running" PROVE Used'
  BY <1>0, <1>a DEF Used, Made
<1>1. CASE ProbeCreate \/ ProbeDelete
  <2>1. KeysOf("image")' = KeysOf("image")
    <3>1. CASE ProbeCreate
      BY <1>0, <3>1 DEF ProbeCreate, Create, KeysOf
    <3>2. CASE ProbeDelete
      BY <1>0, <3>2 DEF ProbeDelete, Delete, KeysOf
    <3>3. QED BY <1>1, <3>1, <3>2
  <2>2. UNCHANGED <<call, worker, once, image>> /\ at' # "closing"
    BY <1>1 DEF ProbeCreate, ProbeDelete
  <2>3. QED BY <1>a, <2>1, <2>2, ImageStays DEF ImageInv
<1>2. CASE \/ ProbeFails \/ Baseline \/ Sample \/ Pronounce \/ OpenFails \/ NoSymbol \/ LoopEnds
           \/ \E t \in Threads : Abort(t)
  <2>1. UNCHANGED <<call, worker, once, image, table>> /\ (at' # "closing" \/ status' # "running")
    BY <1>2 DEF ProbeFails, Baseline, Sample, Pronounce, OpenFails, NoSymbol, LoopEnds, Abort, Probed
  <2>2. QED BY <1>a, <2>1, ImageStays DEF ImageInv, KeysOf
<1>3. CASE Open
  <2>1. /\ at = "looping" /\ at' = "opened" /\ image = "unmapped" /\ UNCHANGED <<table, call, worker>>
        /\ image' = (IF Wrapped THEN "constructing" ELSE "mapped") /\ once' = [k \in RuntimeKeys |-> "unset"]
    BY <1>3 DEF Open, MapImage
  <2>2. KeysOf("image")' = {} /\ Made' = {}
    BY <2>1 DEF ImageInv, NoneUnmapped, KeysOf, Made
  <2>3. Kept'
    BY <2>1, <2>2, FS_EmptySet DEF Kept
  <2>4. call' = "out" /\ \A w \in Workers : worker'[w] = "unborn"
    BY <1>0, <2>1
  <2>5. Used'
    BY <2>1, <2>4 DEF Used
  <2>6. QED BY <2>3, <2>5 DEF ImageInv
<1>4. CASE Construct
  <2>1. image = "constructing" /\ image' = "mapped" /\ at' = "opened" /\ UNCHANGED <<call, worker, once, table>>
    BY <1>4 DEF Construct, plugin_init
  <2>2. Wrapped
    BY <1>0, <2>1 DEF Kept
  <2>3. QED BY <1>a, <2>1, <2>2, ImageStays DEF ImageInv, KeysOf
<1>5. CASE Call
  <2>1. /\ at = "opened" /\ at' = "running" /\ call' = "building" /\ UNCHANGED <<worker, once, table, image>>
    BY <1>5 DEF Call, Enter
  <2>2. Used'
    BY <1>0, <2>1 DEF Used
  <2>3. QED BY <2>1, <2>2, ImageStays DEF ImageInv, KeysOf
<1>6. CASE Destruct
  <2>1. UNCHANGED <<call, worker, once, at, status>> /\ Wrapped /\ image' \in {"destructing", "destructed"}
    <3>1. UNCHANGED <<call, worker, once, at, status>> /\ image' \in {"destructing", "destructed"}
      BY <1>6 DEF Destruct, FiniLock, FiniClear, FiniDelete
    <3>2. image' # image \/ image = "destructing"
      BY <1>6 DEF Destruct, FiniLock, FiniClear, FiniDelete
    <3>3. Wrapped
      BY <1>0, <1>6, <3>1 DEF Destruct, FiniLock, FiniClear, FiniDelete, Kept
    <3>4. QED BY <3>1, <3>3
  <2>2. KeysOf("image")' \subseteq KeysOf("image")
    BY <1>0, <1>6 DEF Destruct, FiniLock, FiniClear, FiniDelete, Delete, KeysOf
  <2>3. Cardinality(KeysOf("image")') <= Cardinality(KeysOf("image")) /\ Cardinality(KeysOf("image")') \in Nat
        /\ Cardinality(KeysOf("image")) \in Nat
    <3>1. KeysOf("image") \subseteq Slots /\ KeysOf("image")' \subseteq Slots
      BY DEF KeysOf
    <3>2. QED BY <2>2, <3>1, SlotCards, FS_Subset
  <2>4. Made' = Made /\ Cardinality(Made) \in Nat
    BY <2>1, RuntimeCards DEF Made
  <2>5. Kept'
    BY <1>0, <2>1, <2>3, <2>4 DEF Kept
  <2>6. Used'
    BY <1>0, <2>1, <2>4 DEF Used
  <2>7. QED BY <2>5, <2>6 DEF ImageInv
<1>7. CASE Close
  <2>1. /\ image' = "unmapped" /\ UNCHANGED <<call, worker, once>> /\ at' # "closing"
    BY <1>7 DEF Close, UnmapImage
  <2>2. KeysOf("image")' = {}
    BY <2>1 DEF NoneUnmapped
  <2>3. Cardinality(Made') \in 0 .. 2 /\ Cardinality({}) = 0
    BY RuntimeCards, FS_EmptySet DEF Made
  <2>4. Kept'
    BY <2>1, <2>2, <2>3 DEF Kept
  <2>5. QED BY <1>a, <2>1, <2>4 DEF ImageInv
<1>8. CASE UNCHANGED vars
  <2>1. UNCHANGED <<call, worker, once, image, table, at, status>>
    BY <1>8 DEF vars
  <2>2. QED BY <1>0, <2>1, ImageStays DEF ImageInv, KeysOf, Used, Made
<1>9. QED BY <1>1, <1>2, <1>3, <1>4, <1>5, <1>6, <1>7, <1>8

\* Main in run_plugin: when it returns, some worker has run or some exception
\* has been caught.
LEMMA RunImage == ASSUME HostInv, ImageInv, NoneUnmapped', Run PROVE ImageInv'
<1>0. /\ Used /\ worker \in [Workers -> {"unborn", "starting", "ready", "throwing", "gone"}]
      /\ at = "running" /\ UNCHANGED <<once, status, table, image>>
      /\ (at' = "closing" => call' = "out")
  <2>1. Used /\ worker \in [Workers -> {"unborn", "starting", "ready", "throwing", "gone"}]
    BY DEF ImageInv, HostInv, ProcessInv, ProcessTypes
  <2>2. QED BY <2>1 DEF Run, MainStep, Spawn, SpawnFails, CatchSpawnError, Submit, BulkDone, Return, trackerVars
<1>a. Kept'
  BY <1>0, ImageStays DEF KeysOf
<1>1. ASSUME NEW w \in Workers, Spawn(w) PROVE Used'
  BY <1>0, <1>1 DEF Spawn, Used
<1>2. ASSUME SpawnFails \/ CatchSpawnError PROVE Used'
  <2>1. /\ call' \in {"throwing", "unwinding"} /\ (call' = "unwinding" => once["eh_globals"] = "set")
        /\ UNCHANGED worker
    BY <1>2 DEF SpawnFails, CatchSpawnError
  <2>2. QED BY <1>0, <2>1 DEF Used
<1>3. ASSUME Submit(argv.task_count) \/ BulkDone PROVE Used'
  <2>1. /\ call' \in {"working", "joining"} /\ UNCHANGED worker
        /\ (call = "working" \/ \A w \in Workers : worker[w] # "unborn")
    BY <1>3 DEF Submit, BulkDone
  <2>2. QED BY <1>0, <2>1 DEF Used
<1>4. ASSUME Return PROVE Used'
  <2>1. /\ call \in {"joining", "unwinding"} /\ call' = "out" /\ worker' = [w \in Workers |-> "unborn"]
        /\ \A w \in Workers : worker[w] \in {"unborn", "gone"}
    BY <1>4 DEF Return
  <2>2. Made # {}
    <3>1. CASE call = "unwinding"
      BY <1>0, <3>1 DEF Used, Made, RuntimeKeys
    <3>2. CASE call = "joining"
      <4>1. PICK w \in Workers : worker[w] = "gone"
        BY <1>0, <2>1, <3>2, WorkersAssumption DEF Used
      <4>2. QED BY <1>0, <4>1 DEF Used, Made, RuntimeKeys
    <3>3. QED BY <2>1, <3>1, <3>2
  <2>3. Made' = Made
    BY <1>0 DEF Made
  <2>4. call' = "out" /\ \A w \in Workers : worker'[w] = "unborn"
    BY <2>1
  <2>5. QED BY <2>2, <2>3, <2>4 DEF Used
<1>5. QED BY <1>a, <1>1, <1>2, <1>3, <1>4 DEF Run, MainStep, ImageInv

LEMMA PluginImage ==
  ASSUME HostInv, ImageInv, NoneUnmapped', NEW t \in Threads, PluginStep(t)
  PROVE  ImageInv'
<1>0. /\ Used /\ Kept /\ at = "running" /\ UNCHANGED <<at, status>>
      /\ worker \in [Workers -> {"unborn", "starting", "ready", "throwing", "gone"}]
      /\ once \in [RuntimeKeys -> {"unset", "busy", "set"}]
      /\ table \in [Slots -> Owners]
  BY DEF ImageInv, HostInv, ProcessInv, ProcessTypes, PluginStep, hostVars
<1>1. ASSUME NEW k \in RuntimeKeys, BeginKey(t, k) PROVE ImageInv'
  <2>1. PICK s \in Slots : table[s] = "free" /\ table' = [table EXCEPT ![s] = "image"]
    BY <1>1 DEF BeginKey, RealCreate, Create
  <2>2. PICK o \in {"busy", "set"} : once' = [once EXCEPT ![k] = o]
    BY <1>1 DEF BeginKey
  <2>3. once[k] = "unset" /\ image = "mapped" /\ UNCHANGED <<call, worker, image>>
    BY <1>1 DEF BeginKey, RealCreate
  <2>4. KeysOf("image")' = KeysOf("image") \cup {s} /\ s \notin KeysOf("image")
    BY <1>0, <2>1 DEF KeysOf
  <2>5. Made' = Made \cup {k} /\ k \notin Made
    BY <1>0, <2>2, <2>3 DEF Made
  <2>6. /\ IsFiniteSet(KeysOf("image")) /\ Cardinality(KeysOf("image")) \in Nat
        /\ IsFiniteSet(Made) /\ Cardinality(Made) \in Nat
    <3>1. KeysOf("image") \subseteq Slots /\ Made \subseteq RuntimeKeys
      BY DEF KeysOf, Made
    <3>2. QED BY <3>1, SlotCards, RuntimeCards
  <2>7. Cardinality(KeysOf("image")') = Cardinality(KeysOf("image")) + 1
    BY <2>4, <2>6, FS_AddElement
  <2>8. Cardinality(Made') = Cardinality(Made) + 1
    BY <2>5, <2>6, FS_AddElement
  <2>9. Kept'
    BY <1>0, <2>3, <2>6, <2>7, <2>8 DEF Kept
  <2>10. Used'
    <3>1. \A j \in RuntimeKeys : once[j] = "set" => once'[j] = "set"
      BY <1>0, <2>2, <2>3
    <3>2. QED BY <1>0, <2>3, <3>1 DEF Used, RuntimeKeys
  <2>11. QED BY <2>9, <2>10 DEF ImageInv
<1>2. ASSUME NEW k \in RuntimeKeys, EndKey(t, k) PROVE ImageInv'
  <2>1. /\ once' = [once EXCEPT ![k] = "set"] /\ UNCHANGED <<call, worker, table, image>>
        /\ wrap[t] = "locked" /\ Needs(t, k)
    BY <1>2 DEF EndKey, PushKey
  <2>2. PICK j \in RuntimeKeys : Needs(t, j) /\ once[j] = "busy"
    BY <2>1 DEF HostInv, ProcessInv, Guarded
  <2>3. j = k
    BY <2>1, <2>2, WorkersAssumption DEF Needs
  <2>4. Made' = Made
    BY <1>0, <2>1, <2>2, <2>3 DEF Made
  <2>5. Kept'
    BY <1>0, <2>1, <2>4 DEF Kept, KeysOf
  <2>6. Used'
    <3>1. \A i \in RuntimeKeys : once[i] = "set" => once'[i] = "set"
      BY <1>0, <2>1
    <3>2. QED BY <1>0, <2>1, <3>1 DEF Used, RuntimeKeys
  <2>7. QED BY <2>5, <2>6 DEF ImageInv
<1>3. CASE LockKey(t)
  <2>1. UNCHANGED <<call, worker, once, table, image>>
    BY <1>3 DEF LockKey, LockForPush, runVars
  <2>2. QED BY <1>0, <2>1, ImageStays DEF ImageInv, KeysOf, Used
<1>4. CASE t \in Workers /\ WorkerStep(t)
  <2>1. UNCHANGED <<call, once, table, image>>
    BY <1>4 DEF WorkerStep, Started, CatchFailure, Exit, DoWork, trackerVars
  <2>2. PICK l \in {"ready", "throwing", "gone"} : worker' = [worker EXCEPT ![t] = l]
    BY <1>4 DEF WorkerStep, Started, CatchFailure, Exit, DoWork
  <2>3. \/ worker[t] = "starting" /\ once["thread_data"] = "set"
        \/ worker[t] \in {"ready", "throwing"}
    BY <1>4 DEF WorkerStep, Started, CatchFailure, Exit, DoWork
  <2>4. Used'
    BY <1>0, <2>1, <2>2, <2>3 DEF Used
  <2>5. QED BY <2>1, <2>4, ImageStays DEF ImageInv, KeysOf
<1>5. QED BY <1>1, <1>2, <1>3, <1>4 DEF PluginStep, KeyStep

LEMMA ImageStep == ASSUME HostInv, ImageInv, [Next]_vars PROVE ImageInv'
<1>1. NoneUnmapped'
  BY KeyMoves DEF ImageInv
<1>2. QED BY <1>1, HostImage, RunImage, PluginImage DEF Next, ThreadStep, HostStep, Terminated

LEMMA ImageInvariant == Spec => []ImageInv
<1>1. HostInv /\ ImageInv /\ [Next]_vars => ImageInv'
  BY ImageStep
<1>2. QED BY <1>1, InitImage, HostInvariant, PTL DEF Spec

-----------------------------------------------------------------------------
(***************************************************************************)
(* The fixed build: while a thread asks for a runtime key, one guard is    *)
(* unset, so the image holds fewer keys than the runtime has; there are no *)
(* orphans, and the rest of the table is what the baseline counted.        *)
(***************************************************************************)
StarveInv == Wrapped /\ status = "aborted" => baseline + Cardinality(RuntimeKeys) > Total

\* When the table is full in the fixed build, it had no room for one image.
LEMMA DeniedAtBaseline ==
  ASSUME HostInv, AccountInv, ImageInv, Wrapped, NEW t \in Threads, at = "running", KeyDenied(t)
  PROVE  baseline + Cardinality(RuntimeKeys) > Total
<1>1. table \in [Slots -> Owners] /\ Orphans = {} /\ probe = {} /\ Full
  BY DEF HostInv, ProcessInv, ProcessTypes, Probing, TrackerInv, NoOrphans, Orphans, KeyDenied
<1>2. round # 0
  BY RoundsNat DEF HostInv, ControlInv, Rounds
<1>3. Cardinality(OtherKeys) = baseline
  BY <1>2 DEF AccountInv, Counted
<1>4. Slots = OtherKeys \cup KeysOf("image") /\ OtherKeys \cap KeysOf("image") = {}
  BY <1>1 DEF OtherKeys, Orphans, KeysOf, Full, Owners
<1>5. /\ IsFiniteSet(OtherKeys) /\ IsFiniteSet(KeysOf("image"))
      /\ Cardinality(OtherKeys) \in Nat /\ Cardinality(KeysOf("image")) \in Nat
  BY <1>4, SlotCards
<1>6. Total = baseline + Cardinality(KeysOf("image"))
  BY <1>3, <1>4, <1>5, DisjointCards DEF Total
<1>7. PICK k \in RuntimeKeys : once[k] = "unset"
  BY DEF KeyDenied
<1>8. Made \subseteq RuntimeKeys /\ Made # RuntimeKeys
  BY <1>7 DEF Made
<1>9. /\ Cardinality(Made) \in 0 .. 2 /\ Cardinality(Made) < 2 /\ Cardinality(RuntimeKeys) = 2
      /\ Cardinality(KeysOf("image")) <= Cardinality(Made)
  BY <1>8, RuntimeCards DEF ImageInv, Kept
<1>10. QED BY <1>3, <1>5, <1>6, <1>9

LEMMA StarveStep ==
  ASSUME HostInv, AccountInv, ImageInv, StarveInv, [Next]_vars PROVE StarveInv'
<1> USE DEF hostVars
<1>1. at # "ended" => status # "aborted"
  BY DEF HostInv, ControlInv, Ending
<1>2. CASE \E t \in Threads : Abort(t)
  <2>1. PICK t \in Threads : Abort(t)
    BY <1>2
  <2>2. at = "running" /\ KeyDenied(t) /\ baseline' = baseline
    BY <2>1 DEF Abort
  <2>3. Wrapped => baseline + Cardinality(RuntimeKeys) > Total
    BY <2>2, DeniedAtBaseline
  <2>4. QED BY <2>2, <2>3 DEF StarveInv, Total, RuntimeKeys
<1>3. CASE UNCHANGED vars
  BY <1>3 DEF vars, StarveInv, Total, RuntimeKeys
<1>4. CASE HostStep
  <2>1. status' # "aborted"
    BY <1>1, <1>4 DEF HostStep, ProbeCreate, ProbeFails, ProbeDelete, Baseline, Sample, Pronounce, Probed, Open,
          OpenFails, Construct, Call, NoSymbol, Run, Destruct, Close, LoopEnds
  <2>2. QED BY <2>1 DEF StarveInv
<1>5. ASSUME NEW t \in Threads, PluginStep(t) PROVE StarveInv'
  <2>1. status' # "aborted"
    BY <1>1, <1>5 DEF PluginStep
  <2>2. QED BY <2>1 DEF StarveInv
<1>6. QED BY <1>2, <1>3, <1>4, <1>5 DEF Next, ThreadStep, Terminated

\* The fixed build never dies of key exhaustion in a later round: if it does,
\* the table had no room for the runtime's keys when the baseline was taken.
THEOREM FixedBuildNeverStarves == Spec => []FixedPluginNeverStarves
<1>1. Init => StarveInv
  BY DEF Init, StarveInv
<1>2. StarveInv => FixedPluginNeverStarves
  BY LinkModeAssumption DEF StarveInv, FixedPluginNeverStarves
<1>3. HostInv /\ AccountInv /\ ImageInv /\ StarveInv /\ [Next]_vars => StarveInv'
  BY StarveStep
<1>4. QED BY <1>1, <1>2, <1>3, HostInvariant, AccountInvariant, ImageInvariant, PTL DEF Spec

-----------------------------------------------------------------------------
(***************************************************************************)
(* The build without the interception: the images unmapped so far, Closed  *)
(* many, have left one or two keys each.                                   *)
(***************************************************************************)
Closed == IF at \in {"probing", "restoring"} /\ phase = "sample" THEN round ELSE round - 1

Leaking == ~Wrapped /\ argv.plugin = "leak_plugin"

LeakInv ==
  Leaking => /\ status # "symbol not found"
             /\ round # 0 /\ at # "ended" => /\ Closed <= Cardinality(Orphans)
                                             /\ Cardinality(Orphans) <= 2 * Closed

\* A step that unmaps nothing, and counts no image either.
LEMMA LeakStays ==
  ASSUME LeakInv, Orphans' = Orphans, argv' = argv, Closed' = Closed, round' = round \/ round # 0,
         at # "ended" \/ at' = "ended", status' = status \/ status' # "symbol not found"
  PROVE  LeakInv'
BY DEF LeakInv, Leaking

\* dlclose leaves the keys of the image, one or two, behind.
LEMMA CloseLeaks ==
  ASSUME HostInv, ImageInv, LeakInv, Leaking, Close, Orphans' = Orphans \cup KeysOf("image")
  PROVE  LeakInv'
<1>1. /\ at = "closing" /\ UNCHANGED <<argv, status>> /\ status = "running" /\ image = "mapped"
  <2>1. at = "closing" /\ UNCHANGED <<argv, status>> /\ image = "mapped"
    BY DEF Close, UnmapImage, Leaking
  <2>2. status = "running"
    BY <2>1 DEF HostInv, ControlInv, Ending, LeakInv
  <2>3. QED BY <2>1, <2>2
<1>2. round \in 1 .. argv.rounds /\ round \in Nat /\ round # 0
  <2>1. round \in 1 .. argv.rounds
    BY <1>1 DEF HostInv, ControlInv, Rounds
  <2>2. QED BY <2>1, RoundsNat
<1>3. Closed' = round
  <2>1. \/ at' = "probing" /\ phase' = "sample" /\ round' = round
        \/ at' = "looping" /\ round' = round + 1
    BY <1>1 DEF Close
  <2>2. CASE at' = "probing" /\ phase' = "sample" /\ round' = round
    BY <2>2 DEF Closed
  <2>3. CASE at' = "looping" /\ round' = round + 1
    BY <1>2, <2>3 DEF Closed
  <2>4. QED BY <2>1, <2>2, <2>3
<1>4. round - 1 <= Cardinality(Orphans) /\ Cardinality(Orphans) <= 2 * (round - 1)
  BY <1>1, <1>2 DEF LeakInv, Closed
<1>5. Cardinality(KeysOf("image")) \in 1 .. 2
  <2>1. Made \subseteq RuntimeKeys /\ Made # {}
    BY <1>1 DEF ImageInv, Used, Made
  <2>2. Cardinality(Made) \in 0 .. 2 /\ Cardinality(Made) > 0
    BY <2>1, RuntimeCards
  <2>3. Cardinality(KeysOf("image")) = Cardinality(Made)
    BY <1>1 DEF ImageInv, Kept, Leaking
  <2>4. QED BY <2>2, <2>3
<1>6. Cardinality(Orphans') = Cardinality(Orphans) + Cardinality(KeysOf("image")) /\ Cardinality(Orphans) \in Nat
  <2>1. Orphans \cap KeysOf("image") = {} /\ KeysOf("image") \subseteq Slots
    BY DEF Orphans, KeysOf
  <2>2. IsFiniteSet(Orphans) /\ IsFiniteSet(KeysOf("image")) /\ Cardinality(Orphans) \in Nat
    BY <2>1, Shares, SlotCards
  <2>3. QED BY <2>1, <2>2, DisjointCards
<1>7. round <= Cardinality(Orphans') /\ Cardinality(Orphans') <= 2 * round
  BY <1>2, <1>4, <1>5, <1>6
<1>8. QED BY <1>1, <1>3, <1>7 DEF LeakInv

LEMMA LeakStep ==
  ASSUME HostInv, AccountInv, ImageInv, LeakInv, [Next]_vars PROVE LeakInv'
<1> USE DEF hostVars
<1>0. Orphans' = IF Close THEN Orphans \cup KeysOf("image") ELSE Orphans
  BY KeyMoves DEF ImageInv
<1>a. at # "closing" => Orphans' = Orphans
  BY <1>0 DEF Close
<1>1. CASE ProbeCreate \/ ProbeFails \/ ProbeDelete
  <2>1. at \in {"probing", "restoring"} /\ at' \in {"probing", "restoring"} /\ UNCHANGED <<phase, round, argv, status>>
    BY <1>1 DEF ProbeCreate, ProbeFails, ProbeDelete
  <2>2. Closed' = Closed
    BY <2>1 DEF Closed
  <2>3. QED BY <1>a, <2>1, <2>2, LeakStays
<1>2. CASE Baseline
  <2>1. at = "restoring" /\ phase = "baseline" /\ at' = "looping" /\ round' = 1 /\ UNCHANGED <<argv, status>>
    BY <1>2 DEF Baseline, Probed
  <2>2. round = 0
    BY <2>1 DEF HostInv, ControlInv, Rounds
  <2>3. Orphans' = {}
    BY <1>a, <2>1, <2>2 DEF AccountInv, Counted
  <2>4. Closed' = 0 /\ Cardinality(Orphans') = 0
    BY <2>1, <2>3, FS_EmptySet DEF Closed
  <2>5. Closed' <= Cardinality(Orphans') /\ Cardinality(Orphans') <= 2 * Closed'
    BY <2>4
  <2>6. QED BY <2>1, <2>5 DEF LeakInv, Leaking
<1>3. CASE Sample
  <2>1. at = "restoring" /\ phase = "sample" /\ at' = "looping" /\ round' = round + 1 /\ UNCHANGED <<argv, status>>
    BY <1>3 DEF Sample, Probed
  <2>2. round \in Nat /\ round # 0
    BY <2>1, RoundsNat DEF HostInv, ControlInv, Rounds
  <2>3. Closed' = Closed
    BY <2>1, <2>2 DEF Closed
  <2>4. QED BY <1>a, <2>1, <2>2, <2>3, LeakStays
<1>4. CASE Pronounce \/ OpenFails \/ \E t \in Threads : Abort(t)
  <2>1. at' = "ended" /\ status' # "symbol not found"
    BY <1>4 DEF Pronounce, OpenFails, Abort
  <2>2. QED BY <2>1 DEF LeakInv
<1>5. CASE Open \/ Construct \/ Call \/ Run \/ \E t \in Threads : PluginStep(t)
  <2>1. /\ at \in {"looping", "opened", "running"} /\ at' \notin {"probing", "restoring"}
        /\ UNCHANGED <<round, argv, status>>
    BY <1>5 DEF Open, Construct, Call, Run, PluginStep
  <2>2. Closed' = Closed
    BY <2>1 DEF Closed
  <2>3. QED BY <1>a, <2>1, <2>2, LeakStays
<1>6. CASE NoSymbol
  BY <1>6 DEF NoSymbol, LeakInv, Leaking
<1>7. CASE Destruct
  <2>1. at = "closing" /\ UNCHANGED <<at, round, argv, status>> /\ ~Close
    BY <1>7 DEF Destruct, Close
  <2>2. Closed' = Closed
    BY <2>1 DEF Closed
  <2>3. QED BY <1>0, <2>1, <2>2, LeakStays
<1>8. CASE Close
  <2>1. CASE Leaking
    BY <1>0, <1>8, <2>1, CloseLeaks
  <2>2. CASE ~Leaking
    BY <1>8, <2>2 DEF Close, LeakInv, Leaking
  <2>3. QED BY <2>1, <2>2
<1>9. CASE LoopEnds
  <2>1. at = "looping" /\ at' = "probing" /\ phase' = "final" /\ UNCHANGED <<round, argv, status>>
    BY <1>9 DEF LoopEnds
  <2>2. Closed' = Closed
    BY <2>1 DEF Closed
  <2>3. QED BY <1>a, <2>1, <2>2, LeakStays
<1>10. CASE UNCHANGED vars
  <2>1. UNCHANGED <<at, phase, round, argv, status>> /\ ~Close
    BY <1>10 DEF vars, Close
  <2>2. Closed' = Closed
    BY <2>1 DEF Closed
  <2>3. QED BY <1>0, <2>1, <2>2, LeakStays
<1>11. QED
  BY <1>1, <1>2, <1>3, <1>4, <1>5, <1>6, <1>7, <1>8, <1>9, <1>10
  DEF Next, ThreadStep, HostStep, Terminated

\* Without the interception every round leaves one key behind at least, and no
\* more than the runtime has, for any number of workers, tasks and slots.
THEOREM EachRoundLeaks == Spec => []EveryRoundLeaks
<1>1. Init => LeakInv
  BY DEF Init, LeakInv
<1>2. HostInv /\ LeakInv => EveryRoundLeaks
  <2> SUFFICES ASSUME HostInv, LeakInv, LinkMode = "win32", argv.plugin = "leak_plugin", at = "looping"
               PROVE  Cardinality(Orphans) \in round - 1 .. Cardinality(RuntimeKeys) * (round - 1)
    BY DEF EveryRoundLeaks
  <2>1. Leaking /\ round # 0 /\ round \in Nat
    BY LinkModeAssumption, RoundsNat DEF Leaking, HostInv, ControlInv, Rounds
  <2>2. round - 1 <= Cardinality(Orphans) /\ Cardinality(Orphans) <= 2 * (round - 1)
    BY <2>1 DEF LeakInv, Closed
  <2>3. Cardinality(Orphans) \in Nat /\ Cardinality(RuntimeKeys) = 2
    BY Shares, SlotCards, RuntimeCards
  <2>4. QED BY <2>1, <2>2, <2>3
<1>3. HostInv /\ AccountInv /\ ImageInv /\ LeakInv /\ [Next]_vars => LeakInv'
  BY LeakStep
<1>4. QED BY <1>1, <1>2, <1>3, HostInvariant, AccountInvariant, ImageInvariant, PTL DEF Spec
=============================================================================
