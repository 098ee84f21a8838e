---------------------------- MODULE LeakChecker ----------------------------
(***************************************************************************)
(* The detector, main/main.cpp: measure the key table, load, run and       *)
(* unload the plugin round after round, sample the table now and then,     *)
(* measure it again and pronounce.  The plugin it loads is RunPlugin with  *)
(* KeyTracker's interception, so a state of this module is a state of the  *)
(* whole process: the host's main thread, the pool's workers, the mapped   *)
(* image and the key table they share.                                     *)
(***************************************************************************)
EXTENDS RunPlugin, Integers

CONSTANTS LinkMode,      \* PLUGIN_LINK_MODE, or "win32": the _WIN32 build
          Plugins,       \* what argv[1] may name
          MaxRounds,     \* bound on argv[2]
          MaxTasks,      \* bound on argv[3]
          SamplePeriod   \* 10 in the code

ASSUME LinkModeAssumption == /\ LinkMode \in {"fix", "static", "shared", "win32"}
                             /\ Wrapped = (LinkMode = "fix")
ASSUME SlotsAssumption    == IsFiniteSet(Slots)      \* PTHREAD_KEYS_MAX of them
ASSUME PluginsAssumption  == Plugins \subseteq {"leak_plugin", "no_symbol", "no_file"}
ASSUME BoundsAssumption   == MaxRounds \in Nat /\ MaxTasks \in Nat /\ SamplePeriod \in Nat \ {0}

VARIABLES argv,          \* plugin_path, rounds and task_count
          at,            \* where main is
          phase,         \* which of its three calls of tls_used main is in
          probe,         \* the keys tls_used holds
          used,          \* what tls_used returned last
          round, baseline, prev, total_leaked,
          crash_est,     \* -1 until it is computed
          status         \* what the process ended with

hostVars == <<argv, at, phase, probe, used, round, baseline, prev, total_leaked, crash_est, status>>
vars     == <<trackerVars, runVars, hostVars>>

Total == Cardinality(Slots)          \* tls_total()

HostTypeOK ==
  /\ argv \in [plugin : Plugins, rounds : 0..MaxRounds, task_count : 0..MaxTasks]
  /\ at \in {"probing", "restoring", "looping", "opened", "running", "closing", "ended"}
  /\ phase \in {"baseline", "sample", "final"}
  /\ probe \subseteq Slots
  /\ {used, baseline, prev} \subseteq 0..Total
  /\ round \in 0 .. MaxRounds + 1
  /\ total_leaked \in Nat
  /\ crash_est \in Nat \cup {-1}
  /\ status \in {"running", "dlopen failed", "symbol not found",
                 "LEAK CONFIRMED", "no leak detected", "aborted"}

TypeOK == TrackerTypeOK /\ RunTypeOK /\ HostTypeOK

Init ==
  /\ TrackerInit
  /\ RunInit
  /\ argv \in [plugin : Plugins, rounds : 0..MaxRounds, task_count : 0..MaxTasks]
  /\ at = "probing"
  /\ phase = "baseline"
  /\ probe = {}
  /\ used = 0 /\ baseline = 0 /\ prev = 0 /\ total_leaked = 0
  /\ round = 0
  /\ crash_est = -1
  /\ status = "running"

-----------------------------------------------------------------------------
(***************************************************************************)
(* Plausible bugs, each the mutant of the definition it is named after.    *)
(***************************************************************************)
\* The creation that fails is counted as a key.
MutProbeFails ==
  /\ at = "probing" /\ Full
  /\ used' = Total - Cardinality(probe) - 1
  /\ at' = "restoring"
  /\ UNCHANGED <<trackerVars, runVars, argv, phase, probe, round, baseline, prev,
                 total_leaked, crash_est, status>>

\* The loop that deletes starts at the second key.
MutProbeForgets ==
  /\ at = "probing" /\ Full
  /\ used' = Total - Cardinality(probe)
  /\ \E s \in probe : probe' = probe \ {s}
  /\ at' = "restoring"
  /\ UNCHANGED <<trackerVars, runVars, argv, phase, round, baseline, prev,
                 total_leaked, crash_est, status>>

\* prev stays at the baseline.
MutSample ==
  /\ at = "restoring" /\ probe = {} /\ phase = "sample"
  /\ total_leaked' = total_leaked + (IF used > prev THEN used - prev ELSE 0)
  /\ round' = round + 1
  /\ at' = "looping"
  /\ UNCHANGED <<trackerVars, runVars, argv, phase, probe, used, baseline, prev, crash_est, status>>

\* Only a rate of zero is rounded up.
MutCrashEst(rounds, net_leaked, remaining) ==
  rounds + remaining \div (IF net_leaked < rounds THEN 1 ELSE net_leaked \div rounds)

\* One leaked key is taken for noise.
MutPronounce ==
  /\ at = "restoring" /\ probe = {} /\ phase = "final"
  /\ status' = IF used - baseline > 1 THEN "LEAK CONFIRMED" ELSE "no leak detected"
  /\ at' = "ended"
  /\ UNCHANGED <<trackerVars, runVars, argv, phase, probe, used, round, baseline, prev,
                 total_leaked, crash_est>>

\* The image was not unmapped: its once guards are still set.
MutOpen ==
  /\ at = "looping" /\ round <= argv.rounds
  /\ MapImage
  /\ at' = "opened"
  /\ UNCHANGED <<runVars, argv, phase, probe, used, round, baseline, prev, total_leaked,
                 crash_est, status>>

\* The loop runs once too often.
MutOpenOnceMore ==
  /\ at = "looping" /\ round <= argv.rounds + 1
  /\ argv.plugin = "leak_plugin"
  /\ MapImage
  /\ once' = [k \in RuntimeKeys |-> "unset"]
  /\ at' = "opened"
  /\ UNCHANGED <<call, worker, tasks, failures, result, argv, phase, probe, used, round,
                 baseline, prev, total_leaked, crash_est, status>>

-----------------------------------------------------------------------------
(***************************************************************************)
(* tls_used: create keys until that fails, count them, delete them.        *)
(***************************************************************************)
ProbeCreate ==
  /\ at = "probing"
  /\ \E s \in Slots : Create(s, "foreign") /\ probe' = probe \cup {s}
  /\ UNCHANGED <<image, wrap, got, mutex, tracked, doomed, runVars, argv, at, phase,
                 used, round, baseline, prev, total_leaked, crash_est, status>>

ProbeFails ==
  /\ at = "probing"
  /\ Full
  /\ used' = Total - Cardinality(probe)
  /\ at' = "restoring"
  /\ UNCHANGED <<trackerVars, runVars, argv, phase, probe, round, baseline, prev,
                 total_leaked, crash_est, status>>

ProbeDelete ==
  /\ at = "restoring"
  /\ \E s \in probe : Delete(s) /\ probe' = probe \ {s}
  /\ UNCHANGED <<image, wrap, got, mutex, tracked, doomed, runVars, argv, at, phase,
                 used, round, baseline, prev, total_leaked, crash_est, status>>

Probed(p) == at = "restoring" /\ probe = {} /\ phase = p

\* Lines 107-115.
Baseline ==
  /\ Probed("baseline")
  /\ baseline' = used
  /\ prev' = used
  /\ total_leaked' = 0
  /\ round' = 1
  /\ at' = "looping"
  /\ UNCHANGED <<trackerVars, runVars, argv, phase, probe, used, crash_est, status>>

\* Lines 134-142, then ++r.
Sample ==
  /\ Probed("sample")
  /\ LET delta == used - prev
     IN  total_leaked' = total_leaked + (IF delta > 0 THEN delta ELSE 0)
  /\ prev' = used
  /\ round' = round + 1
  /\ at' = "looping"
  /\ UNCHANGED <<trackerVars, runVars, argv, phase, probe, used, baseline, crash_est, status>>

CrashEst(rounds, net_leaked, remaining) ==
  rounds + remaining \div (net_leaked \div rounds + 1)

\* Lines 146-166.
Pronounce ==
  /\ Probed("final")
  /\ LET net_leaked == used - baseline
     IN  \/ /\ net_leaked > 0
            /\ crash_est' = CrashEst(argv.rounds, net_leaked, Total - used)
            /\ status' = "LEAK CONFIRMED"
         \/ /\ net_leaked <= 0
            /\ status' = "no leak detected"
            /\ UNCHANGED crash_est
  /\ at' = "ended"
  /\ UNCHANGED <<trackerVars, runVars, argv, phase, probe, used, round, baseline, prev,
                 total_leaked>>

-----------------------------------------------------------------------------
(***************************************************************************)
(* One round.  dlopen resolves every symbol at once (RTLD_NOW).  The image *)
(* defines and exports __wrap_pthread_key_create in each mode that is not  *)
(* _WIN32, and __real_pthread_key_create, which that function calls, is    *)
(* defined by nothing but the linker's --wrap.                             *)
(***************************************************************************)
Undefined == IF LinkMode \in {"fix", "win32"} THEN {} ELSE {"__real_pthread_key_create"}
Loadable  == argv.plugin # "no_file" /\ Undefined = {}

Open ==
  /\ at = "looping"
  /\ round <= argv.rounds
  /\ Loadable
  /\ MapImage
  /\ once' = [k \in RuntimeKeys |-> "unset"]
  /\ at' = "opened"
  /\ UNCHANGED <<call, worker, tasks, failures, result, argv, phase, probe, used, round,
                 baseline, prev, total_leaked, crash_est, status>>

OpenFails ==
  /\ at = "looping"
  /\ round <= argv.rounds
  /\ ~Loadable
  /\ status' = "dlopen failed"
  /\ at' = "ended"
  /\ UNCHANGED <<trackerVars, runVars, argv, phase, probe, used, round, baseline, prev,
                 total_leaked, crash_est>>

Construct == at = "opened" /\ plugin_init /\ UNCHANGED <<runVars, hostVars>>

Call ==
  /\ at = "opened"
  /\ argv.plugin # "no_symbol"
  /\ Enter
  /\ at' = "running"
  /\ UNCHANGED <<argv, phase, probe, used, round, baseline, prev, total_leaked, crash_est, status>>

NoSymbol ==
  /\ at = "opened"
  /\ image = "mapped"
  /\ argv.plugin = "no_symbol"
  /\ status' = "symbol not found"
  /\ at' = "closing"
  /\ UNCHANGED <<trackerVars, runVars, argv, phase, probe, used, round, baseline, prev,
                 total_leaked, crash_est>>

Run ==
  /\ at = "running"
  /\ MainStep(argv.task_count)
  /\ at' = IF call' = "out" THEN "closing" ELSE "running"
  /\ UNCHANGED <<argv, phase, probe, used, round, baseline, prev, total_leaked, crash_est, status>>

\* dlclose: the destructors of the image ...
Destruct ==
  /\ at = "closing"
  /\ FiniLock \/ FiniClear \/ \E k \in Slots : FiniDelete(k)
  /\ UNCHANGED <<runVars, hostVars>>

SampleDue == round % SamplePeriod = 0 \/ round = 1

\* ... and its unmapping; then line 126 or line 133.
Close ==
  /\ at = "closing"
  /\ UnmapImage
  /\ \/ /\ status # "running"
        /\ at' = "ended"
        /\ UNCHANGED <<phase, round>>
     \/ /\ status = "running"
        /\ SampleDue
        /\ at' = "probing"
        /\ phase' = "sample"
        /\ UNCHANGED round
     \/ /\ status = "running"
        /\ ~SampleDue
        /\ at' = "looping"
        /\ round' = round + 1
        /\ UNCHANGED phase
  /\ UNCHANGED <<runVars, argv, probe, used, baseline, prev, total_leaked, crash_est, status>>

LoopEnds ==
  /\ at = "looping"
  /\ round > argv.rounds
  /\ at' = "probing"
  /\ phase' = "final"
  /\ UNCHANGED <<trackerVars, runVars, argv, probe, used, round, baseline, prev,
                 total_leaked, crash_est, status>>

-----------------------------------------------------------------------------
Abort(t) ==
  /\ at = "running"
  /\ KeyDenied(t)
  /\ status' = "aborted"
  /\ at' = "ended"
  /\ UNCHANGED <<trackerVars, runVars, argv, phase, probe, used, round, baseline, prev,
                 total_leaked, crash_est>>

HostStep ==
  \/ ProbeCreate \/ ProbeFails \/ ProbeDelete
  \/ Baseline \/ Sample \/ Pronounce
  \/ Open \/ OpenFails \/ Construct \/ Call \/ NoSymbol \/ Run
  \/ Destruct \/ Close \/ LoopEnds

\* What any thread of the process does inside the plugin.
PluginStep(t) ==
  /\ at = "running"
  /\ KeyStep(t) \/ (t \in Workers /\ WorkerStep(t))
  /\ UNCHANGED hostVars

ThreadStep(t) == (t = Main /\ HostStep) \/ PluginStep(t) \/ Abort(t)

Terminated == at = "ended" /\ UNCHANGED vars

Next == (\E t \in Threads : ThreadStep(t)) \/ Terminated

\* Every thread of the process is scheduled as long as it can take a step.
Fairness == \A t \in Threads : WF_vars(ThreadStep(t))

Spec == Init /\ [][Next]_vars /\ Fairness

-----------------------------------------------------------------------------
Orphans == KeysOf("orphan")

\* Pool threads exist only while the image that holds their code and the
\* destructors of their thread-specific values is mapped and not being torn
\* down: run_plugin returns only when all it started are joined, on the path
\* where the pool's constructor throws as well (plugin.cpp:107, 137-140).
NoThreadOutlivesImage ==
  \A w \in Workers : worker[w] \notin {"unborn", "gone"} => image = "mapped" /\ call # "out"

\* With the fix a run never dies of key exhaustion, whatever the number of
\* rounds, once the table had room for the runtime's keys of a single image
\* (plugin.cpp:13: no more crash).
FixedPluginNeverStarves ==
  LinkMode = "fix" /\ status = "aborted" => baseline + Cardinality(RuntimeKeys) > Total

\* tls_used gives back every key it took, also between the first failure and
\* the return: apart from the keys a probe holds, the keys of other code are
\* those the baseline counted (main.cpp:70-81).
ProbeLeavesNoTrace ==
  round >= 1 => Cardinality(KeysOf("foreign") \ probe) = baseline

\* What tls_used returns is the number of keys in use when it returns, for
\* every caller, although the count is taken before the deletions.
ProbeIsExact ==
  [][at = "restoring" /\ at' # "restoring" => used = Cardinality(UsedKeys)]_vars

\* The verdict is right both ways: LEAK CONFIRMED iff unmapped images left
\* keys behind (main.cpp:147-166).
VerdictIsRight ==
  /\ status = "LEAK CONFIRMED" => Orphans # {}
  /\ status = "no leak detected" => Orphans = {}

\* Adding up only the positive deltas loses nothing: total_leaked is at any
\* time the growth since the baseline (main.cpp:134-142).
SamplesAddUp == round >= 1 => total_leaked = prev - baseline

\* Each do_work that throws is counted once, by whichever worker ran it, before
\* run_plugin returns; the code it returns says whether there was one.
FailuresAreCounted ==
  at = "closing" /\ status = "running" /\ result # 2 =>
    /\ failures = argv.task_count \div 2
    /\ result = (IF failures > 0 THEN 1 ELSE 0)

\* The estimate is defined (no division by zero rounds) and not late: at the
\* average rate measured, net_leaked keys in rounds rounds, the table still
\* has room for the keys of crash_est rounds (main.cpp:154-158).
EstimateIsNotLate ==
  status = "LEAK CONFIRMED" =>
    /\ crash_est >= argv.rounds /\ argv.rounds > 0
    /\ (used - baseline) * crash_est <= (Total - baseline) * argv.rounds

\* A build without the interception leaks in every round: one key when the
\* pool cannot be built or nothing throws, both otherwise (main.cpp:4-8).
EveryRoundLeaks ==
  LinkMode = "win32" /\ argv.plugin = "leak_plugin" /\ at = "looping" =>
    Cardinality(Orphans) \in round - 1 .. Cardinality(RuntimeKeys) * (round - 1)

\* The detector comes to an end: no thread waits for ever for the once guards,
\* for g_keys_mutex, for the pool or for the other threads.
AlwaysEnds == <>(at = "ended")

\* What the build file and the readme say of PLUGIN_LINK_MODE=static: it
\* reproduces the leak, so a run of at least one round confirms it or crashes.
StaticReproducesLeak ==
  LinkMode = "static" /\ at = "ended" /\ argv.rounds > 0 =>
    status \in {"LEAK CONFIRMED", "aborted"}
=============================================================================
