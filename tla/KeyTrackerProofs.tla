-------------------------- MODULE KeyTrackerProofs --------------------------
(***************************************************************************)
(* The key interception is correct for every set of slots, any number of   *)
(* threads and any interleaving: proofs about KeyTracker.                  *)
(***************************************************************************)
EXTENDS KeyTracker, TLAPS

(***************************************************************************)
(* The invariants of KeyTracker are not inductive alone.  What they miss:  *)
(* a thread is inside the wrapper only while the image is mapped, and the  *)
(* key it carries exists, is the image's and is not tracked; a thread that *)
(* is pushing owns the mutex; there is a doomed key only while plugin_fini *)
(* deletes.                                                                *)
(***************************************************************************)
Carrying ==
  \A t \in Threads : InWrapper(t) =>
    /\ Wrapped
    /\ image = "mapped"
    /\ got[t] \in KeysOf("image")
    /\ got[t] \notin tracked

Owning == \A t \in Threads : wrap[t] = "locked" => mutex = t

Doomed == image # "destructing" => doomed = {}

TrackerInv ==
  /\ TrackerTypeOK
  /\ Carrying
  /\ Owning
  /\ Doomed
  /\ NoKeyForgotten
  /\ DeletesOnlyOwnKeys
  /\ EachKeyPushedOnce
  /\ NoOrphans

-----------------------------------------------------------------------------
\* The initial states satisfy the inductive invariant.
LEMMA InitEstablishesInv == TrackerInit => TrackerInv
  BY ThreadsAssumption, NoKeyAssumption
  DEF TrackerInit, TrackerInv, TrackerTypeOK, Carrying, Owning, Doomed, NoKeyForgotten,
      DeletesOnlyOwnKeys, EachKeyPushedOnce, NoOrphans, KeysOf, InWrapper, Owners

\* Each step of the interception preserves the types; a push needs to know that
\* its thread carries a key.
LEMMA TypeStep == TrackerTypeOK /\ Carrying /\ [TrackerNext]_trackerVars => TrackerTypeOK'
<1> SUFFICES ASSUME TrackerTypeOK, Carrying, [TrackerNext]_trackerVars PROVE TrackerTypeOK'
  OBVIOUS
<1> USE ThreadsAssumption, NoKeyAssumption DEF TrackerTypeOK, Owners
<1>1. CASE MapImage BY <1>1 DEF MapImage
<1>2. CASE plugin_init BY <1>2 DEF plugin_init
<1>3. ASSUME NEW t \in Threads, NEW s \in Slots, RealCreate(t, s) PROVE TrackerTypeOK'
  BY <1>3 DEF RealCreate, Create
<1>4. ASSUME NEW t \in Threads, LockForPush(t) PROVE TrackerTypeOK'
  BY <1>4 DEF LockForPush
<1>5. ASSUME NEW t \in Threads, PushKey(t) PROVE TrackerTypeOK'
  BY <1>5 DEF PushKey, Carrying, InWrapper, KeysOf
<1>6. CASE FiniLock BY <1>6 DEF FiniLock
<1>7. ASSUME NEW k \in Slots, FiniDelete(k) PROVE TrackerTypeOK'
  BY <1>7 DEF FiniDelete, Delete
<1>8. CASE FiniClear BY <1>8 DEF FiniClear
<1>9. CASE UnmapImage BY <1>9 DEF UnmapImage, Orphaned
<1>10. ASSUME NEW s \in Slots, ForeignKey(s) PROVE TrackerTypeOK'
  BY <1>10 DEF ForeignKey, Create, Delete
<1>11. CASE UNCHANGED trackerVars BY <1>11 DEF trackerVars
<1>12. QED BY <1>1, <1>2, <1>3, <1>4, <1>5, <1>6, <1>7, <1>8, <1>9, <1>10, <1>11
       DEF TrackerNext

\* Each step preserves the rest of the inductive invariant, one action at a time.
LEMMA NextPreservesInv == TrackerInv /\ [TrackerNext]_trackerVars => TrackerInv'
<1> SUFFICES ASSUME TrackerInv, [TrackerNext]_trackerVars PROVE TrackerInv'
  OBVIOUS
<1>0. TrackerTypeOK'
  BY TypeStep DEF TrackerInv
<1> USE ThreadsAssumption, NoKeyAssumption DEF TrackerInv, TrackerTypeOK, InWrapper
\* Loading the image: nothing is carried, tracked or doomed.
<1>1. CASE MapImage
  BY <1>0, <1>1 DEF MapImage, Carrying, Owning, Doomed, NoKeyForgotten,
     DeletesOnlyOwnKeys, EachKeyPushedOnce, NoOrphans, KeysOf
<1>2. CASE plugin_init
  BY <1>0, <1>2 DEF plugin_init, Carrying, Owning, Doomed, NoKeyForgotten,
     DeletesOnlyOwnKeys, EachKeyPushedOnce, NoOrphans, KeysOf
\* The new key was free, so it differs from every key carried or tracked.
<1>3. ASSUME NEW t \in Threads, NEW s \in Slots, RealCreate(t, s) PROVE TrackerInv'
  <2> USE <1>3 DEF RealCreate, Create, KeysOf
  <2>1. s \notin tracked
    BY DEF DeletesOnlyOwnKeys
  <2>2. \A u \in Threads : InWrapper(u) => got[u] # s
    BY DEF Carrying
  <2>3. Carrying'
    BY <2>1, <2>2 DEF Carrying
  <2>4. Owning' /\ Doomed' /\ NoOrphans'
    BY DEF Owning, Doomed, NoOrphans, Owners
  <2>5. NoKeyForgotten' /\ DeletesOnlyOwnKeys'
    BY DEF NoKeyForgotten, DeletesOnlyOwnKeys, Owners
  <2>6. EachKeyPushedOnce'
    BY <2>1, <2>2 DEF EachKeyPushedOnce
  <2>7. QED BY <1>0, <2>3, <2>4, <2>5, <2>6
<1>4. ASSUME NEW t \in Threads, LockForPush(t) PROVE TrackerInv'
  <2> USE <1>4 DEF LockForPush, KeysOf
  <2>1. Owning'
    BY DEF Owning
  <2>2. Carrying' /\ EachKeyPushedOnce' /\ NoKeyForgotten'
    BY DEF Carrying, EachKeyPushedOnce, NoKeyForgotten
  <2>3. Doomed' /\ DeletesOnlyOwnKeys' /\ NoOrphans'
    BY DEF Doomed, DeletesOnlyOwnKeys, NoOrphans
  <2>4. QED BY <1>0, <2>1, <2>2, <2>3
\* The pushed key is the image's and nobody else carries it; no other thread
\* is pushing, because t owns the mutex.
<1>5. ASSUME NEW t \in Threads, PushKey(t) PROVE TrackerInv'
  <2> USE <1>5 DEF PushKey, KeysOf
  <2>1. image = "mapped" /\ got[t] \in KeysOf("image")
    BY DEF Carrying
  <2>2. \A u \in Threads \ {t} : InWrapper(u) => got[u] # got[t]
    BY DEF EachKeyPushedOnce
  <2>3. Owning'
    BY DEF Owning
  <2>4. Carrying' /\ EachKeyPushedOnce'
    BY <2>2 DEF Carrying, EachKeyPushedOnce
  <2>5. NoKeyForgotten' /\ DeletesOnlyOwnKeys'
    BY <2>1 DEF NoKeyForgotten, DeletesOnlyOwnKeys
  <2>6. Doomed' /\ NoOrphans'
    BY DEF Doomed, NoOrphans
  <2>7. QED BY <1>0, <2>3, <2>4, <2>5, <2>6
\* Nothing is in flight, so the tracked keys are all the keys of the image.
<1>6. CASE Quiet /\ FiniLock
  <2> USE <1>6 DEF FiniLock, Quiet, KeysOf
  <2>1. Carrying' /\ Owning' /\ EachKeyPushedOnce'
    BY DEF Carrying, Owning, EachKeyPushedOnce
  <2>2. NoKeyForgotten' /\ DeletesOnlyOwnKeys'
    BY DEF NoKeyForgotten, DeletesOnlyOwnKeys
  <2>3. Doomed' /\ NoOrphans'
    BY DEF Doomed, NoOrphans
  <2>4. QED BY <1>0, <2>1, <2>2, <2>3
<1>7. ASSUME NEW k \in Slots, FiniDelete(k) PROVE TrackerInv'
  <2> USE <1>7 DEF FiniDelete, Delete, KeysOf
  <2>1. Carrying' /\ Owning' /\ EachKeyPushedOnce'
    BY DEF Carrying, Owning, EachKeyPushedOnce
  <2>2. NoKeyForgotten' /\ DeletesOnlyOwnKeys'
    BY DEF NoKeyForgotten, DeletesOnlyOwnKeys, Carrying
  <2>3. Doomed' /\ NoOrphans'
    BY DEF Doomed, NoOrphans, Owners
  <2>4. QED BY <1>0, <2>1, <2>2, <2>3
<1>8. CASE FiniClear
  <2> USE <1>8 DEF FiniClear, KeysOf
  <2>1. Carrying' /\ Owning' /\ EachKeyPushedOnce'
    BY DEF Carrying, Owning, EachKeyPushedOnce
  <2>2. NoKeyForgotten' /\ DeletesOnlyOwnKeys'
    BY DEF NoKeyForgotten, DeletesOnlyOwnKeys
  <2>3. Doomed' /\ NoOrphans'
    BY DEF Doomed, NoOrphans
  <2>4. QED BY <1>0, <2>1, <2>2, <2>3
\* No key of the image is left when plugin_fini has run, so none is orphaned.
<1>9. CASE UnmapImage
  <2> USE <1>9 DEF UnmapImage, Orphaned, KeysOf
  <2>1. Carrying' /\ Owning' /\ EachKeyPushedOnce'
    BY DEF Carrying, Owning, EachKeyPushedOnce
  <2>2. Wrapped => KeysOf("image") = {}
    BY DEF NoKeyForgotten, Carrying
  <2>3. NoOrphans' /\ NoKeyForgotten'
    BY <2>2 DEF NoOrphans, NoKeyForgotten
  <2>4. Doomed' /\ DeletesOnlyOwnKeys'
    BY DEF Doomed, DeletesOnlyOwnKeys
  <2>5. QED BY <1>0, <2>1, <2>3, <2>4
<1>10. ASSUME NEW s \in Slots, ForeignKey(s) PROVE TrackerInv'
  <2> USE <1>10 DEF ForeignKey, Create, Delete, KeysOf
  <2>1. table[s] \in {"free", "foreign"} /\ table'[s] \in {"free", "foreign"}
        /\ \A r \in Slots \ {s} : table'[r] = table[r]
    OBVIOUS
  <2>2. Carrying' /\ Owning' /\ EachKeyPushedOnce'
    BY <2>1 DEF Carrying, Owning, EachKeyPushedOnce
  <2>3. NoKeyForgotten' /\ DeletesOnlyOwnKeys'
    BY <2>1 DEF NoKeyForgotten, DeletesOnlyOwnKeys
  <2>4. Doomed' /\ NoOrphans'
    BY <2>1 DEF Doomed, NoOrphans
  <2>5. QED BY <1>0, <2>2, <2>3, <2>4
<1>11. CASE UNCHANGED trackerVars
  BY <1>0, <1>11 DEF trackerVars, Carrying, Owning, Doomed, NoKeyForgotten,
     DeletesOnlyOwnKeys, EachKeyPushedOnce, NoOrphans, KeysOf
<1>12. QED BY <1>1, <1>2, <1>3, <1>4, <1>5, <1>6, <1>7, <1>8, <1>9, <1>10, <1>11
       DEF TrackerNext

\* The inductive invariant holds in every reachable state.
LEMMA Invariance == TrackerSpec => []TrackerInv
  BY InitEstablishesInv, NextPreservesInv, PTL DEF TrackerSpec

-----------------------------------------------------------------------------
\* Type correctness of the interception.
THEOREM TypeCorrect == TrackerSpec => []TrackerTypeOK
<1>1. TrackerInv => TrackerTypeOK BY DEF TrackerInv
<1>2. QED BY <1>1, Invariance, PTL

\* The account of the keys is right at every moment, also while threads are
\* between the real create and the push (plugin.cpp:57-60): no key is forgotten.
THEOREM AccountIsRight == TrackerSpec => []NoKeyForgotten
<1>1. TrackerInv => NoKeyForgotten BY DEF TrackerInv
<1>2. QED BY <1>1, Invariance, PTL

\* plugin_fini deletes keys of its image only, never one that other code has
\* been given since (plugin.cpp:77-79).
THEOREM OthersKeepTheirKeys == TrackerSpec => []DeletesOnlyOwnKeys
<1>1. TrackerInv => DeletesOnlyOwnKeys BY DEF TrackerInv
<1>2. QED BY <1>1, Invariance, PTL

\* No key gets into the list twice, whatever the interleaving of wrappers
\* (plugin.cpp:57-63), so plugin_fini deletes none twice.
THEOREM NoKeyTwice == TrackerSpec => []EachKeyPushedOnce
<1>1. TrackerInv => EachKeyPushedOnce BY DEF TrackerInv
<1>2. QED BY <1>1, Invariance, PTL

\* g_tracked_keys is never accessed by two threads at once.
THEOREM ListIsProtected == TrackerSpec => []ListNotShared
<1>1. TrackerInv => ListNotShared
  BY DEF TrackerInv, ListNotShared, Owning, Carrying, InWrapper
<1>2. QED BY <1>1, Invariance, PTL

\* plugin.cpp:11-13, for any number of loads: no key outlives its image.
THEOREM NothingLeaks == TrackerSpec => []NoOrphans
<1>1. TrackerInv => NoOrphans BY DEF TrackerInv
<1>2. QED BY <1>1, Invariance, PTL

-----------------------------------------------------------------------------
\* The image of the initial states under the refinement mapping.
LEMMA LeaseInitially == TrackerInit => Lease!LeaseInit
  BY DEF TrackerInit, Lease!LeaseInit, KeysOf

\* Each step of the interception is a step of the lease or leaves it alone.
LEMMA LeaseStep ==
  ASSUME Wrapped, TrackerInv, [TrackerNext]_trackerVars
  PROVE  [Lease!LeaseNext]_(Lease!leaseVars)
<1> USE DEF TrackerInv, TrackerTypeOK, KeysOf, Owners, Lease!leaseVars, Lease!LeaseNext
<1>1. CASE MapImage
  BY <1>1 DEF MapImage, Lease!Open
<1>2. CASE plugin_init
  BY <1>2 DEF plugin_init
<1>3. ASSUME NEW t \in Threads, NEW s \in Slots, RealCreate(t, s)
      PROVE  Lease!Acquire(s)
  BY <1>3 DEF RealCreate, Create, Lease!Acquire
<1>4. ASSUME NEW t \in Threads, LockForPush(t) \/ PushKey(t)
      PROVE  UNCHANGED Lease!leaseVars
  BY <1>4 DEF LockForPush, PushKey
<1>5. CASE FiniLock
  BY <1>5 DEF FiniLock
<1>6. ASSUME NEW k \in Slots, FiniDelete(k) PROVE Lease!Release(k)
  BY <1>6 DEF FiniDelete, Delete, DeletesOnlyOwnKeys, Lease!Release
<1>7. CASE FiniClear
  BY <1>7 DEF FiniClear
<1>8. CASE UnmapImage
  <2>1. KeysOf("image") = {} /\ KeysOf("orphan") = {}
    BY <1>8 DEF UnmapImage, NoKeyForgotten, Carrying, NoOrphans, InWrapper
  <2>2. QED BY <1>8, <2>1 DEF UnmapImage, Orphaned, Lease!Close
<1>9. ASSUME NEW s \in Slots, ForeignKey(s) PROVE Lease!Others(s)
  BY <1>9 DEF ForeignKey, Create, Delete, Lease!Others
<1>10. CASE UNCHANGED trackerVars
  BY <1>10 DEF trackerVars
<1>11. QED BY <1>1, <1>2, <1>3, <1>4, <1>5, <1>6, <1>7, <1>8, <1>9, <1>10 DEF TrackerNext

\* The interception, when it is linked in, keeps the lease of KeyLease.
THEOREM LeaseIsKept == ASSUME Wrapped PROVE TrackerSpec => LeaseKept
<1>1. TrackerInv /\ [TrackerNext]_trackerVars => [Lease!LeaseNext]_(Lease!leaseVars)
  BY LeaseStep, Wrapped
<1>2. QED BY <1>1, LeaseInitially, Invariance, PTL
      DEF TrackerSpec, LeaseKept, Lease!LeaseSpec
=============================================================================
