----------------------------- MODULE RunPlugin -----------------------------
(***************************************************************************)
(* run_plugin of plugin/plugin.cpp (lines 90-143): one call builds a pool  *)
(* of worker threads, runs do_work on every index below task_count on it,  *)
(* waits, destroys the pool and returns a code.                            *)
(*                                                                         *)
(* It creates no key itself.  The C++ runtime linked into the image does,  *)
(* lazily and once per image: "thread_data" when the first worker starts   *)
(* (std::thread's per-thread data), "eh_globals" when the first exception  *)
(* is thrown.  The pool is taken at its promise, every index is run        *)
(* exactly once, by some worker.                                           *)
(***************************************************************************)
EXTENDS KeyTracker, Naturals, FiniteSets

CONSTANTS Workers,        \* max(2, hardware_concurrency()) pool threads
          SpawnMayFail    \* TRUE iff std::thread's constructor may throw

ASSUME WorkersAssumption == Workers # {} /\ IsFiniteSet(Workers) /\ Threads = Workers \cup {Main} /\ Main \notin Workers
ASSUME SpawnAssumption   == SpawnMayFail \in BOOLEAN

VARIABLES call,       \* where the main thread is in run_plugin
          worker,     \* where each pool thread is
          once,       \* the runtime's once-guarded keys of the mapped image
          tasks,      \* indices of the bulk that no worker has taken yet
          failures,   \* failure_count
          result      \* what the last call of run_plugin returned

runVars == <<call, worker, once, tasks, failures, result>>

RuntimeKeys == {"thread_data", "eh_globals"}

RunTypeOK ==
  /\ call \in {"out", "building", "throwing", "unwinding", "working", "joining"}
  /\ worker \in [Workers -> {"unborn", "starting", "ready", "throwing", "gone"}]
  /\ once \in [RuntimeKeys -> {"unset", "busy", "set"}]
  /\ tasks \subseteq Nat
  /\ failures \in Nat
  /\ result \in 0..2

RunInit ==
  /\ call = "out"
  /\ worker = [w \in Workers |-> "unborn"]
  /\ once = [k \in RuntimeKeys |-> "unset"]
  /\ tasks = {}
  /\ failures = 0
  /\ result = 0

-----------------------------------------------------------------------------
(***************************************************************************)
(* The runtime's lazy keys.  A thread that needs an unset key takes the    *)
(* once guard and calls pthread_key_create; later ones wait for the guard. *)
(***************************************************************************)
Needs(t, k) ==
  \/ k = "thread_data" /\ t \in Workers /\ worker[t] = "starting"
  \/ k = "eh_globals"  /\ t \in Workers /\ worker[t] = "throwing"
  \/ k = "eh_globals"  /\ t = Main      /\ call = "throwing"

BeginKey(t, k) ==
  /\ Needs(t, k)
  /\ once[k] = "unset"
  /\ once' = [once EXCEPT ![k] = IF Wrapped THEN "busy" ELSE "set"]
  /\ \E s \in Slots : RealCreate(t, s)
  /\ UNCHANGED <<call, worker, tasks, failures, result>>

LockKey(t) == LockForPush(t) /\ UNCHANGED runVars

EndKey(t, k) ==
  /\ Needs(t, k)
  /\ PushKey(t)
  /\ once' = [once EXCEPT ![k] = "set"]
  /\ UNCHANGED <<call, worker, tasks, failures, result>>

\* pthread_key_create returns EAGAIN: the runtime prints a message and aborts.
KeyDenied(t) == \E k \in RuntimeKeys : Needs(t, k) /\ once[k] = "unset" /\ Full

-----------------------------------------------------------------------------
(***************************************************************************)
(* The main thread: line 107 builds the pool, one std::thread at a time.   *)
(***************************************************************************)
Enter ==
  /\ call = "out"
  /\ image = "mapped"
  /\ call' = "building"
  /\ failures' = 0
  /\ UNCHANGED <<worker, once, tasks, result, trackerVars>>

Spawn(w) ==
  /\ call = "building"
  /\ worker[w] = "unborn"
  /\ worker' = [worker EXCEPT ![w] = "starting"]
  /\ UNCHANGED <<call, once, tasks, failures, result, trackerVars>>

\* std::thread's constructor throws system_error on the main thread ...
SpawnFails ==
  /\ SpawnMayFail
  /\ call = "building"
  /\ \E w \in Workers : worker[w] = "unborn"
  /\ call' = "throwing"
  /\ UNCHANGED <<worker, once, tasks, failures, result, trackerVars>>

\* ... and the pool's constructor catches it and stops the threads it has.
CatchSpawnError ==
  /\ call = "throwing"
  /\ once["eh_globals"] = "set"
  /\ call' = "unwinding"
  /\ UNCHANGED <<worker, once, tasks, failures, result, trackerVars>>

\* Lines 114-135: the bulk is handed to the pool and sync_wait begins.
Submit(task_count) ==
  /\ call = "building"
  /\ \A w \in Workers : worker[w] # "unborn"
  /\ call' = "working"
  /\ tasks' = 0 .. task_count - 1
  /\ UNCHANGED <<worker, once, failures, result, trackerVars>>

\* sync_wait returns; the end of the try block stops the pool.
BulkDone ==
  /\ call = "working"
  /\ tasks = {}
  /\ \A w \in Workers : worker[w] # "throwing"
  /\ call' = "joining"
  /\ UNCHANGED <<worker, once, tasks, failures, result, trackerVars>>

\* A mutant of Return: the threads are detached, not joined.
MutReturn ==
  /\ call \in {"joining", "unwinding"}
  /\ result' = IF call = "unwinding" THEN 2 ELSE IF failures > 0 THEN 1 ELSE 0
  /\ call' = "out"
  /\ UNCHANGED <<worker, once, tasks, failures, trackerVars>>

\* All workers are joined; lines 137-142.
Return ==
  /\ call \in {"joining", "unwinding"}
  /\ \A w \in Workers : worker[w] \in {"unborn", "gone"}
  /\ result' = CASE call = "unwinding" -> 2
                 [] call = "joining" /\ failures > 0 -> 1
                 [] call = "joining" /\ failures = 0 -> 0
  /\ call' = "out"
  /\ worker' = [w \in Workers |-> "unborn"]
  /\ UNCHANGED <<once, tasks, failures, trackerVars>>

-----------------------------------------------------------------------------
(***************************************************************************)
(* A worker: start, run indices with do_work, exit when the pool stops.    *)
(***************************************************************************)
Started(w) ==
  /\ worker[w] = "starting"
  /\ once["thread_data"] = "set"
  /\ worker' = [worker EXCEPT ![w] = "ready"]
  /\ UNCHANGED <<call, once, tasks, failures, result, trackerVars>>

\* do_work throws for an odd id (line 92) and returns for an even one.
DoWork(w, id) ==
  /\ worker[w] = "ready"
  /\ id \in tasks
  /\ tasks' = tasks \ {id}
  /\ worker' = [worker EXCEPT ![w] = IF id % 2 # 0 THEN "throwing" ELSE "ready"]
  /\ UNCHANGED <<call, once, failures, result, trackerVars>>

\* A mutant of CatchFailure: failure_count is no atomic and loses an update.
MutCatchFailure(w) ==
  /\ worker[w] = "throwing"
  /\ once["eh_globals"] = "set"
  /\ failures' \in {failures, failures + 1}
  /\ worker' = [worker EXCEPT ![w] = "ready"]
  /\ UNCHANGED <<call, once, tasks, result, trackerVars>>

\* The handler of lines 122-129.
CatchFailure(w) ==
  /\ worker[w] = "throwing"
  /\ once["eh_globals"] = "set"
  /\ failures' = failures + 1
  /\ worker' = [worker EXCEPT ![w] = "ready"]
  /\ UNCHANGED <<call, once, tasks, result, trackerVars>>

\* The thread-specific destructors of the runtime's keys run here.
Exit(w) ==
  /\ worker[w] = "ready"
  /\ call \in {"joining", "unwinding"}
  /\ worker' = [worker EXCEPT ![w] = "gone"]
  /\ UNCHANGED <<call, once, tasks, failures, result, trackerVars>>

MainStep(task_count) ==
  \/ \E w \in Workers : Spawn(w)
  \/ SpawnFails \/ CatchSpawnError
  \/ Submit(task_count) \/ BulkDone \/ Return

WorkerStep(w) ==
  \/ Started(w) \/ CatchFailure(w) \/ Exit(w)
  \/ \E id \in tasks : DoWork(w, id)

KeyStep(t) == LockKey(t) \/ \E k \in RuntimeKeys : BeginKey(t, k) \/ EndKey(t, k)
=============================================================================
