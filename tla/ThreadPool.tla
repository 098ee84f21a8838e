----------------------------- MODULE ThreadPool -----------------------------
(***************************************************************************)
(* The pool that run_plugin creates, uses for one bulk and destroys:       *)
(* stdexec's exec/static_thread_pool.hpp.  Each worker owns a local deque  *)
(* others may steal from, a remote queue per submitting thread, a mutex, a *)
(* condition variable and the atomic state_.  The main thread submits one  *)
(* operation (the schedule of stdexec::transfer); the worker that runs it  *)
(* enqueues one agent per worker; each agent runs its even_share; the last *)
(* one to finish completes the operation, main wakes up from sync_wait,    *)
(* frees the operation and stops and joins the workers.                    *)
(*                                                                         *)
(* A step is one access to shared memory, with the thread-local work       *)
(* around it; relaxed atomics are taken as sequentially consistent.  A     *)
(* local deque gives any element to any thief, at any time: the real one   *)
(* is more restrictive, it gives away full blocks only.                    *)
(***************************************************************************)
EXTENDS EvenShare, Integers, Sequences, FiniteSets

CONSTANTS Parallelism,    \* hw, the number of workers
          Shapes,         \* the numbers of indices a bulk may have
          SpawnMayFail,   \* TRUE iff std::thread's constructor may throw
          Lo              \* one unit of the upper half of numActive_, 2^16

ASSUME PoolAssumption == /\ Parallelism \in Nat \ {0, 1}
                         /\ Shapes \subseteq 0 .. M - 1
                         /\ SpawnMayFail \in BOOLEAN
                         /\ Lo \in Nat /\ Parallelism < Lo

Workers == 0 .. Parallelism - 1
Main    == Parallelism
Threads == 0 .. Parallelism
None    == -1
Sched   == -1             \* the schedule operation; the agents are 0, 1, ...

VARIABLES
  shape,        \* shape_, the number of indices
  pc,           \* where each thread is
  task,         \* the task a worker runs and the queue it came from
  submitters,   \* remotes_: the threads that have a remote_queue, newest first
  remote,       \* the tasks in each submitter's queue for each worker
  local,        \* local_queue_ of each worker
  scan,         \* submitters whose queue try_remote has still to visit
  fetched,      \* tasks try_remote has taken from the queues it visited
  state,        \* state_ of each worker
  waiting,      \* a worker in cv_.wait: no, waiting, or woken
  stopRequested,
  numActive,    \* victims in the upper 16 bits, thieves in the lower 16
  ring,         \* the workers a thread has still to try to notify
  signal,       \* the worker a thread found sleeping and has to signal
  next,         \* the agent or worker a loop is at
  runs,         \* how often each index was run
  finished,     \* finished_threads_
  loopStop,     \* __stop_ of the run_loop sync_wait waits in
  freed         \* the operation state is gone

queueVars == <<submitters, remote, local, scan, fetched>>
sleepVars == <<state, waiting, stopRequested, numActive>>
notifyVars == <<ring, signal>>
bulkVars   == <<runs, finished, loopStop, freed>>
vars == <<shape, pc, task, queueVars, sleepVars, notifyVars, next, bulkVars>>

num_agents_required == IF shape < Parallelism THEN shape ELSE Parallelism
Tasks == {Sched} \cup 0 .. num_agents_required - 1

U32(x)  == x % (Lo * Lo)
Victims == numActive \div Lo
Thieves == numActive % Lo

\* A thread is not in the middle of a notify.
Calm(t) == ring[t] = <<>> /\ signal[t] = None

\* mut_ of worker i is held for longer than one step only by i itself.
Locked(i) == pc[i] \in {"locked", "scan locked"}

WorkerPlaces == {"unborn", "pop", "scan", "steal", "stolen", "unstolen", "lock", "locked",
                 "scan locked", "wait", "awake", "execute", "enqueue", "count", "complete", "gone"}
MainPlaces   == {"spawn", "submit", "sync_wait", "stop", "stop signal", "join", "done"}

TypeOK ==
  /\ shape \in Shapes
  /\ pc \in [Threads -> WorkerPlaces \cup MainPlaces]
  /\ pc[Main] \in MainPlaces /\ \A w \in Workers : pc[w] \in WorkerPlaces
  /\ task \in [Workers -> [id : Tasks, queue : Workers]]
  /\ submitters \in Seq(Threads) /\ scan \in [Workers -> Seq(Threads)]
  /\ remote \in [Threads -> [Workers -> SUBSET Tasks]]
  /\ local \in [Workers -> SUBSET Tasks] /\ fetched \in [Workers -> SUBSET Tasks]
  /\ state \in [Workers -> {"running", "sleeping", "notified"}]
  /\ waiting \in [Workers -> {"no", "waiting", "woken"}]
  /\ stopRequested \in [Workers -> BOOLEAN]
  /\ numActive \in 0 .. Lo * Lo - 1
  /\ ring \in [Threads -> Seq(Workers)] /\ signal \in [Threads -> Workers \cup {None}]
  /\ next \in [Threads -> 0 .. Parallelism]
  /\ \A w \in Workers : next[w] <= num_agents_required
  /\ runs \in [0 .. shape - 1 -> Nat] /\ finished \in 0 .. num_agents_required
  /\ loopStop \in BOOLEAN /\ freed \in BOOLEAN

Init ==
  /\ shape \in Shapes
  /\ pc = [t \in Threads |-> IF t = Main THEN "spawn" ELSE "unborn"]
  /\ task = [w \in Workers |-> [id |-> Sched, queue |-> w]]
  /\ submitters = <<>>
  /\ remote = [t \in Threads |-> [w \in Workers |-> {}]]
  /\ local = [w \in Workers |-> {}]
  /\ scan = [w \in Workers |-> <<>>]
  /\ fetched = [w \in Workers |-> {}]
  /\ state = [w \in Workers |-> "running"]
  /\ waiting = [w \in Workers |-> "no"]
  /\ stopRequested = [w \in Workers |-> FALSE]
  /\ numActive = Parallelism * Lo
  /\ ring = [t \in Threads |-> <<>>]
  /\ signal = [t \in Threads |-> None]
  /\ next = [t \in Threads |-> 0]
  /\ runs = [i \in 0 .. shape - 1 |-> 0]
  /\ finished = 0
  /\ loopStop = FALSE
  /\ freed = FALSE

Goto(t, label) == pc' = [pc EXCEPT ![t] = label]

-----------------------------------------------------------------------------
(***************************************************************************)
(* Plausible bugs, each the mutant of the action it is named after.        *)
(***************************************************************************)
\* The queue is copied, not emptied.
MutScanQueue(w) ==
  /\ pc[w] \in {"scan", "scan locked"} /\ scan[w] # <<>>
  /\ fetched' = [fetched EXCEPT ![w] = @ \cup remote[Head(scan[w])][w]]
  /\ scan' = [scan EXCEPT ![w] = Tail(@)]
  /\ UNCHANGED <<shape, pc, task, submitters, remote, local, sleepVars, notifyVars, next, bulkVars>>

\* A stolen task gets the number of the thief.
MutSteal(w) ==
  /\ pc[w] = "steal"
  /\ \E v \in Workers \ {w} : \E id \in local[v] :
       /\ local' = [local EXCEPT ![v] = @ \ {id}]
       /\ task' = [task EXCEPT ![w] = [id |-> id, queue |-> w]]
  /\ Goto(w, "stolen")
  /\ UNCHANGED <<shape, submitters, remote, scan, fetched, sleepVars, notifyVars, next, bulkVars>>

\* clear_sleeping is forgotten.
MutWakeUp(w) ==
  /\ pc[w] = "wait" /\ waiting[w] = "woken"
  /\ waiting' = [waiting EXCEPT ![w] = "no"]
  /\ Goto(w, "awake")
  /\ UNCHANGED <<shape, task, queueVars, state, stopRequested, numActive, notifyVars, next, bulkVars>>

\* fetch_add is taken to return the new value.
MutFinishAgent(w) ==
  /\ pc[w] = "count"
  /\ finished' = finished + 1
  /\ Goto(w, IF finished + 1 = num_agents_required - 1 THEN "complete" ELSE "pop")
  /\ UNCHANGED <<shape, task, queueVars, sleepVars, notifyVars, next, runs, loopStop, freed>>

\* request_stop sets the flags and signals nobody.
MutStopSignal ==
  /\ pc[Main] = "stop signal"
  /\ next' = [next EXCEPT ![Main] = @ + 1]
  /\ Goto(Main, "stop")
  /\ UNCHANGED <<shape, task, queueVars, sleepVars, notifyVars, bulkVars>>

-----------------------------------------------------------------------------
(***************************************************************************)
(* notify: exchange state_, and signal the condition variable only if the  *)
(* worker was sleeping, after passing through its mutex.                   *)
(***************************************************************************)
NotifyExchange(t) ==
  /\ ring[t] # <<>>
  /\ LET i == Head(ring[t])
     IN  /\ state' = [state EXCEPT ![i] = "notified"]
         /\ \/ /\ state[i] = "sleeping"
               /\ signal' = [signal EXCEPT ![t] = i]
               /\ ring' = [ring EXCEPT ![t] = <<>>]
            \/ /\ state[i] # "sleeping"
               /\ ring' = [ring EXCEPT ![t] = Tail(@)]
               /\ UNCHANGED signal
  /\ UNCHANGED <<shape, pc, task, queueVars, waiting, stopRequested, numActive, next, bulkVars>>

Woken(i) == [waiting EXCEPT ![i] = IF @ = "waiting" THEN "woken" ELSE @]

\* A mutant of NotifySignal: it does not pass through the mutex first.
MutNotifySignal(t) ==
  /\ signal[t] # None
  /\ waiting' = Woken(signal[t])
  /\ signal' = [signal EXCEPT ![t] = None]
  /\ UNCHANGED <<shape, pc, task, queueVars, state, stopRequested, numActive, ring, next, bulkVars>>

NotifySignal(t) ==
  /\ signal[t] # None
  /\ ~Locked(signal[t])
  /\ waiting' = Woken(signal[t])
  /\ signal' = [signal EXCEPT ![t] = None]
  /\ UNCHANGED <<shape, pc, task, queueVars, state, stopRequested, numActive, ring, next, bulkVars>>

\* The order in which notify_one_sleeping tries the others, from a random start.
Rotation(w, start) ==
  LET before == (w - start) % Parallelism      \* how many come before w itself
  IN  [i \in 1 .. Parallelism - 1 |-> (start + (IF i <= before THEN i - 1 ELSE i)) % Parallelism]

NotifyOneSleeping(w) == \E start \in Workers : ring' = [ring EXCEPT ![w] = Rotation(w, start)]

-----------------------------------------------------------------------------
(***************************************************************************)
(* pop: the local queue, the remote queues, then the other workers.        *)
(***************************************************************************)
\* run_plugin never has two tasks for one worker, so try_pop finds the local
\* deque empty here (PoolEnds would fail if it did not) and goes on.
PopEmpty(w) ==
  /\ pc[w] = "pop"
  /\ local[w] = {}
  /\ scan' = [scan EXCEPT ![w] = submitters]
  /\ Goto(w, "scan")
  /\ UNCHANGED <<shape, task, submitters, remote, local, fetched, sleepVars, notifyVars, next, bulkVars>>

\* pop_all_reversed empties the worker's queue of one submitter at a time.
ScanQueue(w) ==
  /\ pc[w] \in {"scan", "scan locked"}
  /\ scan[w] # <<>>
  /\ LET t == Head(scan[w])
     IN  /\ fetched' = [fetched EXCEPT ![w] = @ \cup remote[t][w]]
         /\ remote' = [remote EXCEPT ![t][w] = {}]
  /\ scan' = [scan EXCEPT ![w] = Tail(@)]
  /\ UNCHANGED <<shape, pc, task, submitters, local, sleepVars, notifyVars, next, bulkVars>>

\* move_pending_to_local: from here on the tasks can be stolen.
ScanMove(w) ==
  /\ pc[w] \in {"scan", "scan locked"}
  /\ scan[w] = <<>>
  /\ fetched[w] # {}
  /\ local' = [local EXCEPT ![w] = @ \cup fetched[w]]
  /\ fetched' = [fetched EXCEPT ![w] = {}]
  /\ UNCHANGED <<shape, pc, task, submitters, remote, scan, sleepVars, notifyVars, next, bulkVars>>

\* pop_back.  A worker that finds a task with its mutex locked leaves state_ as
\* it is, sleeping.
ScanFound(w) ==
  /\ pc[w] \in {"scan", "scan locked"}
  /\ scan[w] = <<>> /\ fetched[w] = {}
  /\ \E id \in local[w] : /\ local' = [local EXCEPT ![w] = @ \ {id}]
                          /\ task' = [task EXCEPT ![w] = [id |-> id, queue |-> w]]
  /\ Goto(w, "execute")
  /\ UNCHANGED <<shape, submitters, remote, scan, fetched, sleepVars, notifyVars, next, bulkVars>>

\* set_stealing
ScanNothing(w) ==
  /\ pc[w] = "scan"
  /\ scan[w] = <<>> /\ fetched[w] = {} /\ local[w] = {}
  /\ numActive' = U32(numActive + 1 - Lo)
  /\ Goto(w, "steal")
  /\ UNCHANGED <<shape, task, queueVars, state, waiting, stopRequested, notifyVars, next, bulkVars>>

\* One of the attempts on random victims succeeds: the task keeps the number
\* of the queue it was stolen from ...
Steal(w) ==
  /\ pc[w] = "steal"
  /\ \E v \in Workers \ {w} : \E id \in local[v] :
       /\ local' = [local EXCEPT ![v] = @ \ {id}]
       /\ task' = [task EXCEPT ![w] = [id |-> id, queue |-> v]]
  /\ Goto(w, "stolen")
  /\ UNCHANGED <<shape, submitters, remote, scan, fetched, sleepVars, notifyVars, next, bulkVars>>

\* ... or none does, whether the victims had a task or not.
StealNothing(w) ==
  /\ pc[w] = "steal"
  /\ Goto(w, "unstolen")
  /\ UNCHANGED <<shape, task, queueVars, sleepVars, notifyVars, next, bulkVars>>

clear_stealing(w) ==
  /\ pc[w] \in {"stolen", "unstolen"}
  /\ numActive' = U32(numActive + Lo - 1)
  /\ \/ Thieves = 1 /\ Victims # 0 /\ NotifyOneSleeping(w)
     \/ ~(Thieves = 1 /\ Victims # 0) /\ UNCHANGED ring
  /\ Goto(w, IF pc[w] = "stolen" THEN "execute" ELSE "lock")
  /\ UNCHANGED <<shape, task, queueVars, state, waiting, stopRequested, signal, next, bulkVars>>

-----------------------------------------------------------------------------
(***************************************************************************)
(* The rest of pop: stop, or sleep until notified.                         *)
(***************************************************************************)
LockAndCheck(w) ==
  /\ pc[w] = "lock"
  /\ Calm(w)
  /\ Goto(w, IF stopRequested[w] THEN "gone" ELSE "locked")
  /\ UNCHANGED <<shape, task, queueVars, sleepVars, notifyVars, next, bulkVars>>

TryToSleep(w) ==
  /\ pc[w] = "locked"
  /\ state[w] = "running"
  /\ state' = [state EXCEPT ![w] = "sleeping"]
  /\ scan' = [scan EXCEPT ![w] = submitters]
  /\ Goto(w, "scan locked")
  /\ UNCHANGED <<shape, task, submitters, remote, local, fetched, waiting, stopRequested,
                 numActive, notifyVars, next, bulkVars>>

\* compare_exchange_weak fails, because of a notify or spuriously.
NoSleep(w) ==
  /\ pc[w] = "locked"
  /\ state' = [state EXCEPT ![w] = "running"]
  /\ Goto(w, "pop")
  /\ UNCHANGED <<shape, task, queueVars, waiting, stopRequested, numActive, notifyVars, next, bulkVars>>

\* set_sleeping and cv_.wait, which releases the mutex.
Sleep(w) ==
  /\ pc[w] = "scan locked"
  /\ scan[w] = <<>> /\ fetched[w] = {} /\ local[w] = {}
  /\ numActive' = U32(numActive - Lo)
  /\ waiting' = [waiting EXCEPT ![w] = "waiting"]
  /\ Goto(w, "wait")
  /\ UNCHANGED <<shape, task, queueVars, state, stopRequested, notifyVars, next, bulkVars>>

SpuriousWakeup(w) ==
  /\ waiting[w] = "waiting"
  /\ waiting' = Woken(w)
  /\ UNCHANGED <<shape, pc, task, queueVars, state, stopRequested, numActive, notifyVars, next, bulkVars>>

\* cv_.wait returns; clear_sleeping
WakeUp(w) ==
  /\ pc[w] = "wait"
  /\ waiting[w] = "woken"
  /\ waiting' = [waiting EXCEPT ![w] = "no"]
  /\ numActive' = U32(numActive + Lo)
  /\ \/ numActive = 0 /\ NotifyOneSleeping(w)
     \/ numActive # 0 /\ UNCHANGED ring
  /\ Goto(w, "awake")
  /\ UNCHANGED <<shape, task, queueVars, state, stopRequested, signal, next, bulkVars>>

Awake(w) ==
  /\ pc[w] = "awake"
  /\ Calm(w)
  /\ state' = [state EXCEPT ![w] = "running"]
  /\ Goto(w, "pop")
  /\ UNCHANGED <<shape, task, queueVars, waiting, stopRequested, numActive, notifyVars, next, bulkVars>>

-----------------------------------------------------------------------------
(***************************************************************************)
(* Executing a task.                                                       *)
(***************************************************************************)
\* The schedule operation: bulk_receiver::set_value.  get() registers a remote
\* queue for this worker.
StartBulk(w) ==
  /\ pc[w] = "execute" /\ Calm(w)
  /\ task[w].id = Sched
  /\ \/ /\ shape > 0
        /\ submitters' = <<w>> \o submitters
        /\ next' = [next EXCEPT ![w] = 0]
        /\ Goto(w, "enqueue")
     \/ /\ shape = 0
        /\ Goto(w, "complete")
        /\ UNCHANGED <<submitters, next>>
  /\ UNCHANGED <<shape, task, remote, local, scan, fetched, sleepVars, notifyVars, bulkVars>>

\* bulk_enqueue: push an agent to the next worker and notify it.
EnqueueAgent(w) ==
  /\ pc[w] = "enqueue" /\ Calm(w)
  /\ next[w] < num_agents_required
  /\ LET index == next[w] % Parallelism
     IN  /\ remote' = [remote EXCEPT ![w][index] = @ \cup {next[w]}]
         /\ ring' = [ring EXCEPT ![w] = <<index>>]
  /\ next' = [next EXCEPT ![w] = @ + 1]
  /\ UNCHANGED <<shape, pc, task, submitters, local, scan, fetched, sleepVars, signal, bulkVars>>

Enqueued(w) ==
  /\ pc[w] = "enqueue" /\ Calm(w)
  /\ next[w] = num_agents_required
  /\ Goto(w, "pop")
  /\ UNCHANGED <<shape, task, queueVars, sleepVars, notifyVars, next, bulkVars>>

\* An agent: its rank (tid) is the number of the queue it was taken from.
RunAgent(w) ==
  /\ pc[w] = "execute" /\ Calm(w)
  /\ task[w].id # Sched
  /\ LET mine == even_share(shape, task[w].queue, num_agents_required)
     IN  runs' = [i \in 0 .. shape - 1 |-> IF i \in mine THEN runs[i] + 1 ELSE runs[i]]
  /\ Goto(w, "count")
  /\ UNCHANGED <<shape, task, queueVars, sleepVars, notifyVars, next, finished, loopStop, freed>>

\* The agent that finishes last completes the operation.
FinishAgent(w) ==
  /\ pc[w] = "count"
  /\ finished' = finished + 1
  /\ Goto(w, IF finished = num_agents_required - 1 THEN "complete" ELSE "pop")
  /\ UNCHANGED <<shape, task, queueVars, sleepVars, notifyVars, next, runs, loopStop, freed>>

\* The receiver of sync_wait: run_loop::finish.
CompleteBulk(w) ==
  /\ pc[w] = "complete"
  /\ loopStop' = TRUE
  /\ Goto(w, "pop")
  /\ UNCHANGED <<shape, task, queueVars, sleepVars, notifyVars, next, runs, finished, freed>>

-----------------------------------------------------------------------------
(***************************************************************************)
(* The main thread: constructor, sync_wait, destructor.                    *)
(***************************************************************************)
Spawn ==
  /\ pc[Main] = "spawn"
  /\ \/ /\ next[Main] < Parallelism
        /\ next' = [next EXCEPT ![Main] = @ + 1]
        /\ Goto(next[Main], "pop")
     \/ /\ next[Main] = Parallelism
        /\ Goto(Main, "submit")
        /\ UNCHANGED next
  /\ UNCHANGED <<shape, task, queueVars, sleepVars, notifyVars, bulkVars>>

\* The constructor catches the exception, stops and joins what it started.
SpawnFails ==
  /\ SpawnMayFail
  /\ pc[Main] = "spawn"
  /\ next[Main] < Parallelism
  /\ next' = [next EXCEPT ![Main] = 0]
  /\ Goto(Main, "stop")
  /\ UNCHANGED <<shape, task, queueVars, sleepVars, notifyVars, bulkVars>>

\* operation::start: to the queue of a random worker.
Submit ==
  /\ pc[Main] = "submit"
  /\ submitters' = <<Main>> \o submitters
  /\ \E r \in Workers : /\ remote' = [remote EXCEPT ![Main][r] = @ \cup {Sched}]
                        /\ ring' = [ring EXCEPT ![Main] = <<r>>]
  /\ Goto(Main, "sync_wait")
  /\ UNCHANGED <<shape, task, local, scan, fetched, sleepVars, signal, next, bulkVars>>

\* The run_loop stops, sync_wait returns and destroys the operation state.
SyncWaitReturns ==
  /\ pc[Main] = "sync_wait" /\ Calm(Main)
  /\ loopStop
  /\ freed' = TRUE
  /\ next' = [next EXCEPT ![Main] = 0]
  /\ Goto(Main, "stop")
  /\ UNCHANGED <<shape, task, queueVars, sleepVars, notifyVars, runs, finished, loopStop>>

\* request_stop, worker by worker: the flag under the mutex, then the signal.
StopWorker ==
  /\ pc[Main] = "stop"
  /\ \/ /\ next[Main] < Parallelism
        /\ ~Locked(next[Main])
        /\ stopRequested' = [stopRequested EXCEPT ![next[Main]] = TRUE]
        /\ Goto(Main, "stop signal")
     \/ /\ next[Main] = Parallelism
        /\ Goto(Main, "join")
        /\ UNCHANGED stopRequested
  /\ UNCHANGED <<shape, task, queueVars, state, waiting, numActive, notifyVars, next, bulkVars>>

StopSignal ==
  /\ pc[Main] = "stop signal"
  /\ waiting' = Woken(next[Main])
  /\ next' = [next EXCEPT ![Main] = @ + 1]
  /\ Goto(Main, "stop")
  /\ UNCHANGED <<shape, task, queueVars, state, stopRequested, numActive, notifyVars, bulkVars>>

Join ==
  /\ pc[Main] = "join"
  /\ \A w \in Workers : pc[w] \in {"unborn", "gone"}
  /\ Goto(Main, "done")
  /\ UNCHANGED <<shape, task, queueVars, sleepVars, notifyVars, next, bulkVars>>

WorkerStep(w) ==
  \/ PopEmpty(w) \/ ScanQueue(w) \/ ScanMove(w) \/ ScanFound(w) \/ ScanNothing(w)
  \/ Steal(w) \/ StealNothing(w) \/ clear_stealing(w)
  \/ LockAndCheck(w) \/ TryToSleep(w) \/ NoSleep(w) \/ Sleep(w) \/ WakeUp(w) \/ Awake(w)
  \/ StartBulk(w) \/ EnqueueAgent(w) \/ Enqueued(w) \/ RunAgent(w) \/ FinishAgent(w)
  \/ CompleteBulk(w)

MainStep ==
  \/ Spawn \/ SpawnFails \/ Submit \/ SyncWaitReturns \/ StopWorker \/ StopSignal \/ Join

ThreadStep(t) ==
  \/ NotifyExchange(t) \/ NotifySignal(t)
  \/ t \in Workers /\ WorkerStep(t)
  \/ t = Main /\ MainStep

Terminated == pc[Main] = "done" /\ UNCHANGED vars

Next == \/ \E t \in Threads : ThreadStep(t)
        \/ \E w \in Workers : SpuriousWakeup(w)
        \/ Terminated

\* The system schedules every thread and no mutex starves a thread for ever: a
\* worker that cannot sleep lets go of its mutex each time round, hence the
\* strong fairness.  Nobody promises a spurious wakeup.
Fairness == \A t \in Threads : SF_vars(ThreadStep(t))

Spec == Init /\ [][Next]_vars /\ Fairness

-----------------------------------------------------------------------------
\* No index is run twice, whoever runs which agent and whether it was popped
\* or stolen (static_thread_pool.hpp:939-948 and 1218-1225).
NoIndexTwice == \A i \in 0 .. shape - 1 : runs[i] <= 1

\* No worker touches the operation state, nor a queue a task that lives in it,
\* once main may have freed it (static_thread_pool.hpp:862-873, 1254-1263).
NothingUsedAfterFree ==
  freed => /\ \A w \in Workers :
                /\ pc[w] \notin {"execute", "stolen", "count", "complete"}
                /\ pc[w] = "enqueue" => next[w] = num_agents_required
                /\ local[w] = {} /\ fetched[w] = {}
           /\ \A t \in Threads, w \in Workers : remote[t][w] = {}

\* No lost wakeup: if the queues of a worker hold a task and the worker waits,
\* some thread is about to wake it (static_thread_pool.hpp:1042-1049, 1062-1071).
NoTaskSleeps ==
  \A w \in Workers : waiting[w] = "waiting" /\ (\E t \in Threads : remote[t][w] # {}) =>
    \E t \in Threads : signal[t] = w \/ \E i \in DOMAIN ring[t] : ring[t][i] = w

\* numActive_ counts: the workers that are neither stealing nor asleep, those
\* not yet started and those that have exited included, in the upper half, the
\* thieves in the lower half; no path adds without subtracting.
ActiveIsExact ==
  LET thieves == {w \in Workers : pc[w] \in {"steal", "stolen", "unstolen"}}
      asleep  == {w \in Workers : pc[w] = "wait"}
  IN  /\ Thieves = Cardinality(thieves)
      /\ Victims = Parallelism - Cardinality(thieves) - Cardinality(asleep)

\* run_plugin ends: sync_wait returns and every worker is joined, also when the
\* constructor failed midway.
PoolEnds == <>(pc[Main] = "done")

\* The pool does for a bulk what run_plugin relies on.
Promise == INSTANCE Bulk WITH todo <- {i \in 0 .. shape - 1 : runs[i] = 0}, complete <- loopStop

BulkIsRun == Promise!BulkSpec
=============================================================================
