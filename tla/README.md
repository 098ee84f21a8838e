# Verification of pthread_key_leak

The repository demonstrates a resource leak and its repair.  A plugin with a
statically linked C++ runtime is loaded, run and unloaded in a loop; the runtime
creates `pthread_key_t`s that nobody deletes at `dlclose`, until the process has
none left and aborts.  The repair links the plugin with
`-Wl,--wrap=pthread_key_create`, records every key and deletes them in a
destructor of the image.  The plugin is not a toy: each call builds stdexec's
work-stealing thread pool, runs a bulk whose tasks throw, waits and tears the
pool down, so the repair depends on threads having left the image in time.

This directory holds TLA+ models of that program, configurations that
model-check them with TLC and proofs checked by TLAPS.  Paths below are relative
to the repository.

## Inventory

| Component | Code | State | Operations | Interacts with |
|---|---|---|---|---|
| Key table | C library (external) | one slot per key | create, delete | shared by host, plugin and other libraries |
| Key interception | `plugin/plugin.cpp:41-86` | `g_tracked_keys`, `g_keys_mutex` | `__wrap_pthread_key_create` (any thread), `plugin_init` (in `dlopen`), `plugin_fini` (in `dlclose`) | calls the key table; called by the runtime inside the image |
| `run_plugin` | `plugin/plugin.cpp:90-143` | `failure_count`, the pool | build pool, bulk of `do_work`, wait, destroy, return 0/1/2 | called by the detector; makes the runtime create its keys |
| Thread pool | `stdexec-nvhpc-25.09/include/exec/static_thread_pool.hpp` | per worker: deque, remote queues, mutex, condition variable, `state_`; `numActive_` | construct, enqueue, bulk, pop/steal/sleep/notify, stop, join | used by `run_plugin`; completes `sync_wait` |
| `even_share` | same file, 55-78 | none | range of an agent | used by every agent of a bulk |
| Detector | `main/main.cpp` | `baseline`, `prev`, `total_leaked`, round | `tls_used`, the loop, verdict and estimate | loads, calls and unloads the plugin; probes the key table |
| Link modes | `plugin/CMakeLists.txt`, `plugin/plugin.map` | none | `PLUGIN_LINK_MODE` = fix, static, shared | decides whether the interception is linked in |
| BWoS deque | `exec/__detail/__bwos_lifo_queue.hpp` | ring of blocks of entries, owner's and thieves' block counters | `push_back`, `pop_back` (owner), `steal_front` (thieves) | a worker's local queue |
| `run_loop`, `sync_wait` | `stdexec/__detail/__run_loop.hpp`, `__sync_wait.hpp` | a circular task list, mutex, stop flag, the result | run, push, pop, finish, completion of the receiver | main waits in it until the sender completes on a pool thread |
| dlfcn-win32 | `dlfcn-win32-1.4.2/src/dlfcn.c` | list of locally opened modules, error flag | `dlopen`, `dlclose`, `dlsym`, `dlerror` | the Windows demo; the system's reference counts |
| Demo | `main.cpp`, `leak.cpp`, `clean.cpp`, `throw.cpp` | the key table | a load loop over one of three libraries | key table |

The rest of the tree (most of stdexec, rapids-cmake, CPM, icm, three build
trees) is vendored or generated and not executed by the plugin.

What is hard here: a key exists before it is recorded; the recording list is
shared by the pool's threads and by the destructor; workers must be gone, their
thread-specific destructors included, before the image is unmapped, on the error
path as well; the pool loses no wakeup although it changes `state_` outside its
mutexes; the operation state is freed by the main thread while workers are still
inside pool code; the detector measures by exhausting the very table it measures;
the deque's owner takes whole blocks back from thieves that are at work in them,
and reuses them, without a lock; the thread that completes `sync_wait` is still
inside the loop that main is about to destroy.
`PROJECT.json` lists each hazard at its line with the properties about it.

## Modules

    PthreadKeys          the key table (external)
      KeyTracker         the interception              implements  KeyLease
        RunPlugin        run_plugin and the runtime's lazy keys
          LeakChecker    the detector; with the above, the whole process
    EvenShare            the arithmetic of even_share
      ThreadPool         the pool                      implements  Bulk
    BwosDeque            a worker's local queue        implements  WorkBag
    RunLoop              sync_wait and its run_loop
    PthreadKeys
      DemoLibs           the first experiment
    DlfcnWin32           the dlopen emulation
    KeyTrackerProofs                                         proofs
      LeakCheckerProofs                                      (with RunPlugin)
    ThreadPoolProofs                                         (with EvenShare)
      PoolSleepProofs
    BwosDequeProofs, RunLoopProofs, DlfcnWin32Proofs,
    DemoLibsProofs
    MCKeyTracker, MCLeakChecker, MCThreadPool, MCBwosDeque,
    MCRunLoop, MCDlfcnWin32, MCDemoLibs                      instances for TLC

**KeyTracker.**  `wrap[t]` is where thread `t` is in the wrapper: after
`__real_pthread_key_create` returned (`created`), holding the mutex (`locked`).
The key it carries is `got[t]`.  `image` runs through `dlopen` (`constructing`),
the mapped phase, `plugin_fini` with its lock held (`destructing`, one key per
step, `doomed` is what the loop has left) and the unmapping.  The table records
who created a slot; unmapping turns what is left of the image's keys to
`orphan`.  The specification lets any thread call the wrapper at any time and
other code create and delete its own keys; its one demand on the user is
`Quiet`: nobody is inside the wrapper when `dlclose` starts.  That demand is not
assumed of the program: the run `fix` checks, and `ProcessUsesTracker` proves,
that the process is such a user.  `KeyLease` states the promise of the header of
`plugin.cpp` without the list, the mutex and the threads.

**RunPlugin.**  One action per step of the main thread in `run_plugin` and of a
worker.  Each image creates at most two keys, under once guards: one when the
first worker starts, one when the first exception is thrown.  That is how the
runtime behaves as the repository observes it (two keys per round); the runtime
is not in the repository.  `SpawnFails` is the constructor of `std::thread`
throwing, which creates the second key on the main thread.  The bulk is taken at
the pool's promise.

**LeakChecker.**  `main.cpp` with one step per key that `tls_used` creates or
deletes.  `Loadable` is what `RTLD_NOW` makes of the link mode.  A state is a
state of the whole process.  `LinkMode = "win32"` is a build without the
interception that can be loaded: the `_WIN32` build, and the plugins the
repository carries as binaries from before the wrapper existed.

**ThreadPool.**  A step is one access to shared memory.  `pc` names the places
between them; a worker holds its own mutex in `locked` and `scan locked`.
`NotifyExchange` and `NotifySignal` are the two halves of `notify`, in whatever
thread calls it; `ring` is the list of workers `notify_one_sleeping` still has
to try.  `scan` walks the list of remote queues that `pop_all_reversed` walks, as
it was when the walk began.  `Init` is the state after the thread states are
built and before the first thread is created.  Names follow the source where
they can.  The constants stand for: `Parallelism` the number of workers, `Lo` one
unit of the upper half of `numActive_` (2^16), `M` the width of `std::size_t`.

Abstractions: relaxed atomics are sequentially consistent; a local deque is a
set with atomic pop and steal (`pop_back` and `steal_front` take any element,
while the real deque gives away full blocks only, so the pool is checked under
more steals than can happen; that each task is taken once is what `BwosDeque`
implements of `WorkBag`, and that a pop finds nothing only when there is nothing
is its `EmptyMeansEmpty`);
the queues of a submitter are sets; the number of steal attempts is abstracted
to "a steal succeeds or none does"; queues registered by the main thread when it
asks for a scheduler are registered when it submits, which differs only by an
empty queue; output, formatting and allocation failure are left out.

**BwosDeque.**  A step is one access to memory the other side writes.  `op` is
where the owner is in `push_back` or `pop_back`: about to write into its block
(`put`), to grant it and go to the next (`advance put`), waiting for that one's
readers (`reclaim`), reading its own block again (`get`), taking the one before it
back (`takeover`), comparing and then storing `thief_block_`.  `at[t]` is where
thief `t` is in `steal_front`, with the block counter and the entry it has read,
which may be out of date by then.  `full` is not in the code: the entries whose
value nobody has read out; with it "lost" and "taken twice" can be stated.  `stale`
is a history variable, see Findings.  A push of one value is a push of a range of
one.  `WorkBag` is what the pool needs: tasks are put, claimed, read; a place is
free for another task only when its task has been read.

**RunLoop.**  The sender is a set of shares that run at the same time, each on a
thread of its own or, after it has scheduled itself on the loop, on main; the last
to end completes the receiver.  That is more than `run_plugin` asks of the loop
(its sender never uses the scheduler of `sync_wait`) and what `sync_wait` offers.
`next` and `tail` are the pointers of the list, with `head_` the loop's own node;
`queue` is a history variable with the tasks pushed and not popped.  What a thread
does with the mutex held is one step up to a notification; the mutex is released
after it.

**DlfcnWin32.**  The system keeps reference counts and loads dependencies along
with a module; the emulation keeps its list of local objects and guesses from the
number of modules before and after a load whether the module is new.  `before` is
the order of loading as a relation; among the modules one call loads the system may
choose any (`Orders`).  By its own
account the emulation is not thread-safe, so a call is one step.  `handles` and
`modes` are history: what the program has opened, and how.  Dependencies are one
level deep.

**DemoLibs.**  `main.cpp` as it was meant to be called, with any of the three
libraries (the choice is commented out there and the name fixed to `libthrow`).
A library is the keys its image creates and whether its destructor deletes one.

Operators whose names begin with `Mut` are deliberate bugs used to check that
each property can fail; no specification refers to them.

## Runs

| Run | Instance | Shows |
|---|---|---|
| `tracker` | `MCKeyTracker.cfg`: 4 slots, 3 threads, any initial use by others | the interception is exact under interleaved wrappers and implements `KeyLease` |
| `fix` | `MCFix.cfg`: 4 slots, 3 workers, up to 3 rounds of up to 4 tasks, spawn failures, plugins without symbol or file | the process respects the interception's contract (`TrackerSpec`), threads stay inside the image, no starvation, probes leave no trace, failures are counted |
| `win32` | `MCWin32.cfg`: 6 slots, 2 workers, up to 4 rounds | every round leaks one or two keys; verdict, running total and estimate are right; the table really runs full |
| `ends` | `MCEnds.cfg`: 3 slots, 2 workers, up to 2 rounds | the detector ends |
| `pool` | `MCThreadPool.cfg`: 2 workers, bulks of 0, 1 and 3 indices, spawn failures | the pool implements `Bulk`, loses no wakeup, uses nothing after it is freed, terminates |
| `static` | `MCStatic.cfg`: link mode static | *violated*: see Findings |
| `deque` | `MCBwosDeque.cfg`: 4 blocks of 2 entries, 2 thieves, ranges of 1 and 2 | values are taken exactly once, blocks are reused only when read, "full" and "empty" are true, `WorkBag` is implemented |
| `deque_assert` | `MCBwosAssert.cfg`: 4 blocks of 1 entry, 2 thieves | *violated*: see Findings |
| `loop` | `MCRunLoop.cfg`: 3 shares, 5 pushes | the list is a queue, nobody is inside the loop after `sync_wait`, the outcome is the sender's, `sync_wait` returns |
| `dlfcn` | `MCDlfcn.cfg`: 3 modules, one loaded along with another, 2 handles of each | a globally opened module stays visible, a closed one leaves nothing behind |
| `dlfcn_local` | `MCDlfcnLocal.cfg`: the same | *violated*: see Findings |
| `demo` | `MCDemoLibs.cfg`: 6 slots, 8 rounds, one or two keys of the runtime | the account of keys lost per library, and how each loop ends |

The bounds and why they suffice.  Slots: fewer than the keys the rounds of the
un-intercepted program would create, so that exhaustion happens, and more than
the interception ever holds at once, so that keys of other code lie between.
Threads: two pool threads race for the same once guard and mutex, and three in
`fix` let one be unborn while others start and throw.  `SamplePeriod` is 2
instead of 10, so that sampled and unsampled rounds both occur.  Tasks: odd and
even ids, none, and more tasks than workers.  `Shapes` is {0, 1, 3} for two workers:
no agent, fewer agents than workers, and as many, with unequal shares.  `Lo = 8`
exceeds the number of workers, which is all the packing needs; `M = 16` exceeds
every product in `even_share`.  Symmetry among slots and among workers is used
where no liveness is checked.  Deque: four blocks are the fewest with an own
block, a block being stolen from, one granted and one free; two entries tell a
block that is begun from one that is done; a range of two fills a block or runs
over into the next.  `MaxCounter` lets the owner go round the ring, so that every
block is reused.  Loop: with three shares a task is linked behind a task that is
being popped; five pushes let a share schedule itself again.  dlfcn: two handles
of a module are the fewest that can be opened in both ways and closed one by one.
Demo: six slots are exhausted within eight rounds from any number of keys taken.

The deadlock check is on in every run; a stuttering step marks the end of `main`.

## Fairness

`LeakChecker`: weak fairness of each thread, i.e. the system runs every thread
that can take a step.  A thread waiting for a once guard or a mutex waits for a
finite sequence of steps of its holder.  `ThreadPool`: strong fairness of each
thread.  A worker that has just been notified goes round its loop and takes its
own mutex again, so the main thread's lock in `request_stop` is enabled again and
again rather than for good; strong fairness says that no mutex starves a thread
for ever.  `RunLoop`: weak fairness of main and of each share.  A share that wants
the mutex is delayed by finitely many pushes and by main, which waits for a
notification once the list is empty.  Nothing is assumed of spurious wakeups or of spurious failures of
`compare_exchange_weak`; stealing need never succeed.

## Proofs

All proofs are for arbitrary values of the constants, under the assumptions named
in the modules.

`KeyTrackerProofs`: `TrackerInv` is inductive.  `NoKeyForgotten` and the other
safety properties are not on their own, since they say nothing of who holds the
mutex or of what a thread in the wrapper carries.  The invariant adds three
facts: a thread is inside the wrapper only while the image is mapped, and the key
it carries is one of the image's and not tracked yet (`Carrying`); a thread that
is pushing owns the mutex (`Owning`); only a destructor that is running has keys
left to delete (`Doomed`).  From it: `TypeCorrect`, `AccountIsRight`,
`ListIsProtected`, `NothingLeaks`, `OthersKeepTheirKeys`, `NoKeyTwice`; and, action by action, `LeaseIsKept`, the
refinement of `KeyLease` when the interception is linked in.

`LeakCheckerProofs`, the interception's user.  Every step of the process is a step
of `TrackerNext` or leaves the tracker's variables alone.  Two kinds of step need an
invariant for that.  `plugin_fini`'s lock needs `Quiet`: a thread inside the wrapper
holds the once guard of a key it needs (`Guarded`), and outside `run_plugin` there is
no worker and main needs none (`InsideRun`).  A deletion of `tls_used` needs that
the key is not the plugin's (`Probing`).  `ProcessUsesTracker` then gives
`ProcessLeaksNothing` for any number of rounds, tasks, workers and slots, and
`ThreadsStayInside` follows from the same invariant.

`LeakCheckerProofs`, what the host counts.  `ControlInv` says where main can be in
which round, and that nothing is mapped while it probes.  `AccountInv`, on top of it,
says what the host's variables are worth: apart from a probe's keys the keys of other
code number `baseline`, `prev` lies between that and that plus the orphans, and the
verdict was pronounced from those numbers.  The verdict alone is not inductive: it
compares two counts, and one has to know that only `dlclose` makes orphans.  From it:
`ProbesLeaveNoTrace`, `ProbesAreExact`, `SamplesSumUp`, `VerdictsAreRight`,
`EstimatesAreNotLate`.  `FailInv` counts a failure where it is: counted, in a handler,
or in a task nobody has taken; `FailuresAreAllCounted` and `ProcessIsTyped` follow.
`ImageInv` ties the keys of an image to the once guards that are set, at most one each,
exactly one without the interception.  With it the fixed build, which has no orphans,
runs out of keys only if one image was too much from the start (`FixedBuildNeverStarves`),
and the other one leaves one or two per image closed (`LeakInv`, `EachRoundLeaks`).

`ThreadPoolProofs`, the shares.  None of the products of `even_share` wraps around,
the shares follow each other without gap, the first begins at 0 and the last ends at
n; hence `EvenShareIsPartition`, for every width.

`ThreadPoolProofs`, the tasks.  That an index is run once depends on where its agent
is.  `PoolInv` says that a task is in one place at most, a remote queue, the hands of
the worker that fetched it, a deque, or a worker that runs or counts it (`OnePlace`);
that it has kept the number of its queue, also when stolen (`OwnQueue`); that the
schedule operation comes before every agent and one worker enqueues them (`Ordering`,
`OneEnqueuer`); that `finished` counts the agents that are nowhere any more
(`Completing`); and that the indices run are the shares of the agents that have left
the queues (`RunOnce`).  A step is then described by the tasks it moves, and
preservation is proved of moves.  From it: `PoolTypes`, `NoIndexRunTwice`,
`FreedIsUnused` and the refinement `PoolImplementsBulk`.

`PoolSleepProofs`, on top of the types.  `NoTaskSleeps` speaks of workers that wait,
but a wakeup is lost earlier, between a worker's last look at its queues and its wait.
`WakeInv` therefore covers a worker from that look on: if `state_` has been taken away
from `sleeping`, a signal is due (`Signalled`), and if a queue it has passed
holds a task, somebody has a notify for it to do (`NotMissed`).  `ActiveInv` says that
the word `numActive_` is the packed pair of two cardinalities; as both are at most the
number of workers and that is below `Lo`, no half carries into the other.  From them:
`NoWakeupLost`, `ActiveIsAlwaysExact`.

`BwosDequeProofs`, no value lost.  `AccountedFor` says where values are and nothing of
the four counters of a block, so it is not inductive.  `DequeInv` adds: the owner's
block is not granted, and any other block that is not granted is empty unless the owner
has taken it over a moment ago (`Owned`); what a thief that has claimed an entry knows
of the block (`Stealing`); and of each block, that its counters are ordered (`Ordered`),
that the entries claimed since its last reuse are those read plus those being read,
which is what `reclaim` waits for (`Counted`), and that the entries with a value are
those unclaimed and those claimed (`Filled`).  One lemma per action shows that it is
preserved and what the action does to the bag; `Ring` says which block counters meet
in one block, for every number of blocks.  From it: `NothingIsLost`,
`OwnerDoesNotSpin` and the refinement `DequeImplementsBag`, for every number of blocks,
entries and thieves.

`BwosDequeProofs`, full and empty.  `WindowInv` adds where the granted blocks are, as
long as no thief has used an outdated counter: those from `thief_block_`, or the one
after it, to the one before the owner's (`Window`).  What keeps it so is that
`thief_block_` never decreases and that a thief about to move it on from a block
has found that block done, and it is not granted again while the counter stands there
(`Passed`).  From it: `FullIsFull`, `EmptyIsEmpty`.

`RunLoopProofs`: `ListIsFifo` alone does not say that the node pushed is in no
list yet.  `LoopInv` adds that the queue holds exactly the shares whose place
says so, each once (`Listed`), that a thread between its lock and its unlock holds the
mutex (`Holding`), and what has happened by the time a share is finishing, the
receiver is completed and main has left (`Ending`, `Left`, `After`).  From it:
`LoopIsFifo`, `NobodyIsLeft`, `OutcomeIsRight`.

`DlfcnWin32Proofs`: that a closed module is not on the list needs the account of
references (`Referenced`: handles plus loaded dependants), `GlobalStaysVisible` needs
that a module is known by the modes since it was loaded (`Remembered`) and that the
modules are totally ordered by loading (`Ranked`), so that the first match is unique.
From `DlfcnInv`: `ClosedIsGone`, `GlobalIsVisible`, `LoadOrderIsTotal`.

`DemoLibsProofs`: the account counts keys of images that are closed, so the invariant
follows the mapped image (`ImageKeys`) and the debt of those before (`Debt`); that
`clean` is never stopped after its first round needs that a round closed has left a slot
(`SlotLeft`).  `AccountIsRight` follows, for any number of slots and rounds.

Assumptions.  All are named in the modules and evaluated by TLC: the sets of slots,
workers and modules are finite; `PoolAssumption`, `WidthAssumption` and
`DequeAssumption` bound the sizes (a shape fits the width, `Lo` exceeds the number of
workers, of which there are at least two, as in the source, and a deque has at least
two blocks); `DlfcnAssumption` says that dependencies are one level
deep.  No theorem assumes anything of the schedule.

Only model-checked: the liveness properties `AlwaysEnds`, `PoolEnds` and
`SyncWaitEnds`, which need fairness and so ENABLED.  Every invariant, action property
and refinement that a passing run checks is a theorem.

## Findings

*`PLUGIN_LINK_MODE=static` does not reproduce the leak.*
`plugin/CMakeLists.txt:7` and `compile_readme.md:26-35, 168-177` use this mode as
the control group that leaks.  Since `plugin.cpp` calls
`__real_pthread_key_create` in every build that is not `_WIN32`, and only
`--wrap` defines it, a plugin linked in mode static or shared has an undefined
symbol and `dlopen` with `RTLD_NOW` refuses it: the detector ends with "dlopen
failed" in the first round.  The run `static` shows it.

*The deque's counters can cross.*  `__bwos_lifo_queue.hpp:269` asserts
`thief_counter < next_counter`.  A thief reads that its block is done, because
the owner has just taken it back; the owner pushes on and grants this block and
the next; the thief reads that the next one is stealable; the owner pops both
back, its counter with them; then the thief's compare-exchange (294), which finds
the counter it expects, moves `thief_block_` on, ahead of `owner_block_`.  The run
`deque_assert` ends with the owner at the assertion; one thief is enough.  No
value is lost by it (`AccountedFor` and `DequeIsBag` hold in every state), but in
a build without assertions `push_back` may refuse a value although blocks are
free, and `pop_back` may report an empty queue while a granted block it has
skipped still holds values.  `FullMeansFull` and `EmptyMeansEmpty` are
therefore stated for histories in which no thief has used an outdated counter
(`~stale`).  `ThreadPool` takes `pop_back` at its word and so does not cover the
others.

*A module opened locally becomes visible.*  `dlfcn.c:429-431` says that the list
of local objects keeps the symbols of an object opened with `RTLD_LOCAL` from
being found through the program's handle.  `dlclose` takes the object off the
list whenever `FreeLibrary` succeeds, also when another handle keeps it loaded:
opened twice and closed once, it is visible.  The run `dlfcn_local` shows it.

In passing.  The comment at `plugin.cpp:81` says the list is already clear and 0
is printed; the code prints before it clears.  `get_available_capacity` of the
deque says `num_blocks * block_size`; one block is always kept free, so the last
`block_size` of these cannot be used, and a deque of two blocks never has one
to steal from.  The libraries of the demo ignore the result of
`pthread_key_create`: with a full table `leak` passes on a key it never got, and
`clean` would delete key 0, whosever it is.  `pthread_key_delete` runs no
destructor, so `clean` loses no key but one `int` per round.

## Not modelled

Most of the repository by lines is vendored code the program does not execute
(the rest of stdexec with its GPU, io_uring and Windows parts, rapids-cmake, CPM,
icm, Catch2 in the build trees); a model of it would say nothing about this
program.  Weak memory: all models are sequentially consistent; the deque's
relaxed loads (`steal_tail_` before an acquiring load of `tail_`) admit more.
`dladdr` walks the tables of a PE image; an `EnumProcessModules` that works in
one call and fails in the next, and dependencies of dependencies, are left out of
DlfcnWin32.  A mutex whose `lock` throws is left out of RunLoop.  NUMA placement, constrained schedulers and `schedule_all` are
not reached by `run_plugin`.  The C++ runtime and the C library are external.
Keys that constructors of the runtime might create before `plugin_init` clears
the list, and keys a runtime deletes in its own static destructors, depend on the
runtime archive and the linker's order of constructors, not on this code.

## Plan

Done, in this order: PthreadKeys, KeyLease, KeyTracker, RunPlugin, LeakChecker;
EvenShare; Bulk and ThreadPool; WorkBag and BwosDeque; RunLoop; DlfcnWin32; DemoLibs;
the proofs of the interception, the shares, the deque and the loop; the proofs of the
pool, the detector, the emulation and the demo, and the deque's full and empty.

Left:
1. A theorem that RunPlugin's bulk, as the process runs it, is `Bulk` too, so that
   both sides of the promise are tied to one specification.
2. ThreadPool over BwosDeque itself instead of its promise, with a pop that may
   miss a value after the counters have crossed.
