----------------------------- MODULE KeyTracker -----------------------------
(***************************************************************************)
(* The key interception of plugin/plugin.cpp (lines 41-86).  The linker    *)
(* option --wrap sends every pthread_key_create of the image to            *)
(* __wrap_pthread_key_create, which creates the key and then, under        *)
(* g_keys_mutex, appends it to g_tracked_keys.  plugin_init runs in        *)
(* dlopen, plugin_fini in dlclose and deletes every tracked key.           *)
(*                                                                         *)
(* The actions take any thread as the caller of the wrapper and let other  *)
(* code of the process create and delete keys of its own at any time.      *)
(* What the component asks of its user is written once, as Quiet: no       *)
(* thread is inside the wrapper when dlclose runs plugin_fini.             *)
(***************************************************************************)
EXTENDS PthreadKeys

CONSTANTS Threads,    \* the threads of the process
          Main,       \* the thread that calls dlopen and dlclose
          NoThread,   \* the owner of a free mutex
          NoKey,      \* what a thread outside the wrapper carries
          Wrapped     \* TRUE iff the interception is compiled and linked in

ASSUME ThreadsAssumption == Main \in Threads /\ NoThread \notin Threads
ASSUME NoKeyAssumption == NoKey \notin Slots
ASSUME WrappedAssumption == Wrapped \in BOOLEAN

VARIABLES image,      \* where the image is between dlopen and dlclose
          wrap,       \* where each thread is in __wrap_pthread_key_create
          got,        \* the key it created there and has not pushed yet (*key)
          mutex,      \* the owner of g_keys_mutex
          tracked,    \* g_tracked_keys
          doomed      \* keys the loop of plugin_fini has not deleted yet

trackerVars == <<table, image, wrap, got, mutex, tracked, doomed>>

\* created: after __real_pthread_key_create, before the lock; locked: inside it.
InWrapper(t) == wrap[t] \in {"created", "locked"}
Quiet        == \A t \in Threads : wrap[t] = "idle"

TrackerTypeOK ==
  /\ table \in [Slots -> Owners]
  /\ image \in {"unmapped", "constructing", "mapped", "destructing", "destructed"}
  /\ wrap \in [Threads -> {"idle", "created", "locked"}]
  /\ got \in [Threads -> Slots \cup {NoKey}]
  /\ mutex \in Threads \cup {NoThread}
  /\ tracked \subseteq Slots
  /\ doomed \subseteq Slots

TrackerInit ==
  /\ table \in [Slots -> {"free", "foreign"}]
  /\ image = "unmapped"
  /\ wrap = [t \in Threads |-> "idle"]
  /\ got = [t \in Threads |-> NoKey]
  /\ mutex = NoThread
  /\ tracked = {}
  /\ doomed = {}

-----------------------------------------------------------------------------
(***************************************************************************)
(* Plausible bugs, each the mutant of the action it is named after.        *)
(***************************************************************************)
\* *key is read before the real function has written it.
MutRealCreate(t, s) ==
  /\ image = "mapped" /\ wrap[t] = "idle"
  /\ Create(s, "image")
  /\ wrap' = [wrap EXCEPT ![t] = "created"]
  /\ UNCHANGED <<image, got, mutex, tracked, doomed>>

\* The wrapper does not lock, so two threads are in push_back at once.
MutLockForPush(t) ==
  /\ wrap[t] = "created"
  /\ mutex' = t
  /\ wrap' = [wrap EXCEPT ![t] = "locked"]
  /\ UNCHANGED <<table, image, got, tracked, doomed>>

\* The key is pushed before the lock as well as under it.
MutPushTwice(t) ==
  /\ wrap[t] = "created" /\ mutex = NoThread
  /\ mutex' = t
  /\ tracked' = tracked \cup {got[t]}
  /\ wrap' = [wrap EXCEPT ![t] = "locked"]
  /\ UNCHANGED <<table, image, got, doomed>>

\* The lock is not released.
MutPushKey(t) ==
  /\ wrap[t] = "locked"
  /\ tracked' = tracked \cup {got[t]}
  /\ wrap' = [wrap EXCEPT ![t] = "idle"]
  /\ got' = [got EXCEPT ![t] = NoKey]
  /\ UNCHANGED <<table, image, mutex, doomed>>

\* The list is cleared before the loop, as the comment at line 81 has it.
MutFiniLock ==
  /\ Wrapped /\ image = "mapped" /\ mutex = NoThread
  /\ image' = "destructing"
  /\ mutex' = Main
  /\ doomed' = {} /\ tracked' = {}
  /\ UNCHANGED <<table, wrap, got>>

\* The loop deletes a key again.
MutFiniDelete(k) ==
  /\ image = "destructing" /\ k \in doomed
  /\ Delete(k)
  /\ UNCHANGED <<image, wrap, got, mutex, tracked, doomed>>

\* The loop forgets the key without deleting it.
MutFiniForget(k) ==
  /\ image = "destructing" /\ k \in doomed
  /\ doomed' = doomed \ {k}
  /\ UNCHANGED <<table, image, wrap, got, mutex, tracked>>

\* The image is unmapped without its destructors.
MutUnmapImage ==
  /\ image \in {"mapped", "destructed"}
  /\ image' = "unmapped"
  /\ table' = Orphaned
  /\ UNCHANGED <<wrap, got, mutex, tracked, doomed>>

-----------------------------------------------------------------------------
(***************************************************************************)
(* dlopen: a fresh data segment, then the constructors of the image.       *)
(***************************************************************************)
MapImage ==
  /\ image = "unmapped"
  /\ image' = IF Wrapped THEN "constructing" ELSE "mapped"
  /\ tracked' = {}
  /\ mutex' = NoThread
  /\ UNCHANGED <<table, wrap, got, doomed>>

plugin_init ==
  /\ image = "constructing"
  /\ mutex = NoThread
  /\ tracked' = {}
  /\ image' = "mapped"
  /\ UNCHANGED <<table, wrap, got, mutex, doomed>>

(***************************************************************************)
(* pthread_key_create as code of the image calls it.  The real function    *)
(* has succeeded before the mutex is asked for: in between the key exists  *)
(* and is not tracked.  Without the interception the call is the real one. *)
(***************************************************************************)
RealCreate(t, s) ==
  /\ image = "mapped"
  /\ wrap[t] = "idle"
  /\ Create(s, "image")
  /\ \/ /\ Wrapped
        /\ wrap' = [wrap EXCEPT ![t] = "created"]
        /\ got' = [got EXCEPT ![t] = s]
     \/ /\ ~Wrapped
        /\ UNCHANGED <<wrap, got>>
  /\ UNCHANGED <<image, mutex, tracked, doomed>>

LockForPush(t) ==
  /\ wrap[t] = "created"
  /\ mutex = NoThread
  /\ mutex' = t
  /\ wrap' = [wrap EXCEPT ![t] = "locked"]
  /\ UNCHANGED <<table, image, got, tracked, doomed>>

PushKey(t) ==
  /\ wrap[t] = "locked"
  /\ tracked' = tracked \cup {got[t]}
  /\ mutex' = NoThread
  /\ wrap' = [wrap EXCEPT ![t] = "idle"]
  /\ got' = [got EXCEPT ![t] = NoKey]
  /\ UNCHANGED <<table, image, doomed>>

(***************************************************************************)
(* dlclose: plugin_fini locks, deletes one key per iteration, clears and   *)
(* unlocks; then the image is unmapped.                                    *)
(***************************************************************************)
FiniLock ==
  /\ Wrapped
  /\ image = "mapped"
  /\ mutex = NoThread
  /\ image' = "destructing"
  /\ mutex' = Main
  /\ doomed' = tracked
  /\ UNCHANGED <<table, wrap, got, tracked>>

FiniDelete(k) ==
  /\ image = "destructing"
  /\ k \in doomed
  /\ Delete(k)
  /\ doomed' = doomed \ {k}
  /\ UNCHANGED <<image, wrap, got, mutex, tracked>>

FiniClear ==
  /\ image = "destructing"
  /\ doomed = {}
  /\ tracked' = {}
  /\ mutex' = NoThread
  /\ image' = "destructed"
  /\ UNCHANGED <<table, wrap, got, doomed>>

UnmapImage ==
  /\ image = IF Wrapped THEN "destructed" ELSE "mapped"
  /\ image' = "unmapped"
  /\ table' = Orphaned
  /\ UNCHANGED <<wrap, got, mutex, tracked, doomed>>

\* The rest of the process creates and deletes keys of its own.
ForeignKey(s) ==
  /\ \/ Create(s, "foreign")
     \/ table[s] = "foreign" /\ Delete(s)
  /\ UNCHANGED <<image, wrap, got, mutex, tracked, doomed>>

TrackerNext ==
  \/ MapImage \/ plugin_init
  \/ \E t \in Threads : \/ \E s \in Slots : RealCreate(t, s)
                        \/ LockForPush(t)
                        \/ PushKey(t)
  \/ Quiet /\ FiniLock
  \/ \E k \in Slots : FiniDelete(k)
  \/ FiniClear
  \/ UnmapImage
  \/ \E s \in Slots : ForeignKey(s)

TrackerSpec == TrackerInit /\ [][TrackerNext]_trackerVars

-----------------------------------------------------------------------------
\* Every key the image created is tracked, except the one a thread inside the
\* wrapper has created and not pushed yet: nothing can be forgotten at
\* plugin.cpp:57-61 and nothing is left behind when the image is unmapped.
NoKeyForgotten ==
  \A s \in KeysOf("image") :
    Wrapped => \/ image = "mapped" /\ s \in tracked
               \/ image = "destructing" /\ s \in doomed
               \/ \E t \in Threads : InWrapper(t) /\ got[t] = s

\* plugin_fini deletes only keys its own image created and has not deleted yet:
\* the numbers in g_tracked_keys are never stale (plugin.cpp:77-79).
DeletesOnlyOwnKeys ==
  \A k \in (IF image = "mapped" THEN tracked ELSE doomed) : table[k] = "image"

\* No key is pushed twice, by one thread or by two: the key a thread carries
\* through the wrapper is not tracked yet and no other thread carries it.
EachKeyPushedOnce ==
  \A t \in Threads : InWrapper(t) =>
    /\ got[t] \notin tracked
    /\ \A u \in Threads \ {t} : InWrapper(u) => got[u] # got[t]

\* g_tracked_keys is never touched by two threads at once, by two wrappers or
\* by a wrapper and plugin_fini: a push_back reallocates the vector the loop of
\* plugin_fini iterates over (plugin.cpp:59-60, 76-82).
ListNotShared ==
  \A t, u \in Threads : wrap[t] = "locked" =>
    image # "destructing" /\ (wrap[u] = "locked" => t = u)

\* With the interception, dlclose leaves no key of the image behind
\* (plugin.cpp:11-13: the number of keys does not grow from load to load).
NoOrphans == Wrapped => KeysOf("orphan") = {}

\* The interception implements the lease of KeyLease.
Lease == INSTANCE KeyLease WITH
           loaded  <- image # "unmapped",
           leased  <- KeysOf("image") \cup KeysOf("orphan"),
           foreign <- KeysOf("foreign")

LeaseKept == Lease!LeaseSpec
=============================================================================
