---------------------------- MODULE PoolSleepProofs ----------------------------
(***************************************************************************)
(* No wakeup of the pool is lost, and numActive_ counts what it should, for *)
(* any number of workers: proofs about ThreadPool, on top of the types that *)
(* ThreadPoolProofs shows to be invariant.                                 *)
(***************************************************************************)
EXTENDS ThreadPoolProofs

(***************************************************************************)
(* Wakeups.                                                                *)
(***************************************************************************)
InSeq(s, t) == \E i \in 1 .. Len(s) : s[i] = t

\* A worker from its last look at its queues on until it is woken.
Asleep(w) == pc[w] = "scan locked" \/ waiting[w] = "waiting"

Notifying ==
  /\ \A w \in Workers : ~Calm(w) => pc[w] \in {"execute", "lock", "awake", "enqueue"}
  /\ ~Calm(Main) => pc[Main] = "sync_wait"
  /\ \A t \in Threads : ring[t] # <<>> => signal[t] = None

Waits == \A w \in Workers : waiting[w] # "no" <=> pc[w] = "wait"

Registered ==
  /\ \A t \in Threads, w \in Workers : remote[t][w] # {} => InSeq(submitters, t)
  /\ \A w \in Workers : pc[w] = "enqueue" => InSeq(submitters, w)

\* Whoever takes state_ away from sleeping signals the worker.
Signalled ==
  \A w \in Workers : Asleep(w) /\ state[w] # "sleeping" => \E t \in Threads : signal[t] = w

\* A queue the worker has looked at and that holds a task has a notify to come.
NotMissed ==
  \A w \in Workers, t \in Threads :
    Asleep(w) /\ remote[t][w] # {} /\ (pc[w] = "scan locked" => ~InSeq(scan[w], t)) =>
      \E u \in Threads : signal[u] = w \/ ring[u] = <<w>>

WakeInv == Notifying /\ Waits /\ Registered /\ Signalled /\ NotMissed

-----------------------------------------------------------------------------
LEMMA InCons ==
  ASSUME NEW S, NEW s \in Seq(S), NEW x \in S, NEW t
  PROVE  InSeq(<<x>> \o s, t) <=> t = x \/ InSeq(s, t)
<1>1. <<x>> \in Seq(S) /\ Len(<<x>>) = 1 /\ <<x>>[1] = x /\ Len(s) \in Nat
  OBVIOUS
<1>2. /\ Len(<<x>> \o s) = Len(s) + 1
      /\ \A i \in 1 .. Len(s) + 1 : (<<x>> \o s)[i] = IF i <= 1 THEN x ELSE s[i - 1]
  BY <1>1, ConcatProperties
<1>3. ASSUME InSeq(<<x>> \o s, t) PROVE t = x \/ InSeq(s, t)
  <2>1. PICK i \in 1 .. Len(s) + 1 : (<<x>> \o s)[i] = t
    BY <1>2, <1>3 DEF InSeq
  <2>2. CASE i = 1
    BY <1>2, <2>1, <2>2
  <2>3. CASE i # 1
    <3>1. i - 1 \in 1 .. Len(s) /\ s[i - 1] = t
      BY <1>1, <1>2, <2>1, <2>3
    <3>2. QED BY <3>1 DEF InSeq
  <2>4. QED BY <2>2, <2>3
<1>4. ASSUME t = x PROVE InSeq(<<x>> \o s, t)
  <2>1. 1 \in 1 .. Len(s) + 1 /\ (<<x>> \o s)[1] = x
    BY <1>1, <1>2
  <2>2. QED BY <1>2, <1>4, <2>1 DEF InSeq
<1>5. ASSUME InSeq(s, t) PROVE InSeq(<<x>> \o s, t)
  <2>1. PICK i \in 1 .. Len(s) : s[i] = t
    BY <1>5 DEF InSeq
  <2>2. i + 1 \in 1 .. Len(s) + 1 /\ i + 1 - 1 = i /\ ~(i + 1 <= 1)
    BY <1>1
  <2>3. (<<x>> \o s)[i + 1] = t
    BY <1>2, <2>1, <2>2
  <2>4. QED BY <1>2, <2>2, <2>3 DEF InSeq
<1>6. QED BY <1>3, <1>4, <1>5

LEMMA InTail ==
  ASSUME NEW S, NEW s \in Seq(S), s # <<>>, NEW t
  PROVE  InSeq(s, t) => t = Head(s) \/ InSeq(Tail(s), t)
<1> SUFFICES ASSUME InSeq(s, t) PROVE t = Head(s) \/ InSeq(Tail(s), t)
  OBVIOUS
<1>1. PICK i \in 1 .. Len(s) : s[i] = t
  BY DEF InSeq
<1>2. /\ Len(Tail(s)) = Len(s) - 1 /\ \A j \in 1 .. Len(Tail(s)) : Tail(s)[j] = s[j + 1]
  BY HeadTailProperties
<1>3. Len(s) \in Nat /\ Head(s) = s[1]
  OBVIOUS
<1>4. CASE i = 1
  BY <1>1, <1>3, <1>4
<1>5. CASE i # 1
  <2>1. i - 1 \in 1 .. Len(Tail(s)) /\ Tail(s)[i - 1] = t
    <3>1. i - 1 \in 1 .. Len(s) - 1 /\ i - 1 + 1 = i
      BY <1>3, <1>5
    <3>2. QED BY <1>1, <1>2, <3>1
  <2>2. QED BY <2>1 DEF InSeq
<1>6. QED BY <1>4, <1>5

LEMMA HeadOfOne == ASSUME NEW S, NEW v \in S PROVE Head(<<v>>) = v
<1>1. <<v>> \in Seq(S) /\ <<v>> # <<>> /\ <<v>>[1] = v
  OBVIOUS
<1>2. QED BY <1>1, HeadTailProperties

LEMMA InEmpty == \A t : ~InSeq(<<>>, t)
BY DEF InSeq

-----------------------------------------------------------------------------
(***************************************************************************)
(* Each step keeps the invariant about wakeups.                            *)
(***************************************************************************)
LEMMA SleepTypes ==
  ASSUME TypeOK
  PROVE  /\ waiting \in [Workers -> {"no", "waiting", "woken"}]
         /\ state \in [Workers -> {"running", "sleeping", "notified"}]
         /\ ring \in [Threads -> Seq(Workers)] /\ signal \in [Threads -> Workers \cup {None}]
         /\ scan \in [Workers -> Seq(Threads)] /\ submitters \in Seq(Threads)
         /\ remote \in [Threads -> [Workers -> SUBSET Tasks]]
BY DEF TypeOK

\* A worker that does not sleep, and has nobody to notify, does one thing.
LEMMA AwakeStep ==
  ASSUME TypeOK, WakeInv, NEW w \in Workers, NEW l, Goto(w, l),
         pc[w] # "wait" \/ waiting'[w] = "no", l \notin {"scan locked", "wait"},
         Calm(w), signal' = signal, remote' = remote,
         submitters' = submitters \/ submitters' = <<w>> \o submitters,
         l = "enqueue" => submitters' = <<w>> \o submitters,
         \A v \in Workers \ {w} : waiting'[v] = waiting[v] /\ state'[v] = state[v] /\ scan'[v] = scan[v],
         waiting'[w] = waiting[w] \/ waiting'[w] = "no",
         \A t \in Threads \ {w} : ring'[t] = ring[t],
         ring'[w] = <<>> \/ l \in {"execute", "lock", "awake"}
  PROVE  WakeInv'
<1>0. /\ submitters \in Seq(Threads) /\ w \in Threads /\ ring \in [Threads -> Seq(Workers)]
      /\ remote \in [Threads -> [Workers -> SUBSET Tasks]]
  BY SleepTypes, Ids
<1>1. pc'[w] = l /\ (\A u \in Workers \ {w} : pc'[u] = pc[u]) /\ pc'[Main] = pc[Main]
  BY GoesTo, Ids
<1>2. waiting'[w] = "no"
  BY DEF WakeInv, Waits
<1>3. /\ ~Asleep(w)'
      /\ \A v \in Workers \ {w} : (Asleep(v)' <=> Asleep(v)) /\ (pc'[v] = "scan locked" <=> pc[v] = "scan locked")
  BY <1>1, <1>2 DEF Asleep
<1>4. \A t \in Threads : InSeq(submitters, t) => InSeq(submitters', t)
  <2>1. CASE submitters' = submitters
    BY <2>1
  <2>2. CASE submitters' = <<w>> \o submitters
    <3>1. \A t \in Threads : InSeq(submitters, t) => InSeq(<<w>> \o submitters, t)
      <4> TAKE t \in Threads
      <4>1. submitters \in Seq(Threads) /\ w \in Threads
        BY <1>0
      <4>2. QED BY <4>1, InCons
    <3>2. QED BY <2>2, <3>1
  <2>3. QED BY <2>1, <2>2
<1>5. submitters' = <<w>> \o submitters => InSeq(submitters', w)
  <2>1. InSeq(<<w>> \o submitters, w)
    BY <1>0, InCons
  <2>2. QED BY <2>1
<1>6. Notifying'
  <2>1. \A v \in Workers \ {w} : Calm(v)' <=> Calm(v)
    BY Ids DEF Calm
  <2>2. Calm(Main)' <=> Calm(Main)
    BY Ids DEF Calm
  <2>3. Calm(w)' \/ pc'[w] \in {"execute", "lock", "awake"}
    BY <1>1 DEF Calm
  <2>4. \A t \in Threads : ring'[t] # <<>> => signal'[t] = None
    BY Ids DEF Calm, WakeInv, Notifying
  <2>5. QED BY <1>1, <2>1, <2>2, <2>3, <2>4 DEF WakeInv, Notifying
<1>7. Waits'
  BY <1>1, <1>2 DEF WakeInv, Waits
<1>8. Registered'
  <2>1. \A t \in Threads, v \in Workers : remote'[t][v] # {} => InSeq(submitters', t)
    BY <1>4 DEF WakeInv, Registered
  <2>2. \A v \in Workers : pc'[v] = "enqueue" => InSeq(submitters', v)
    <3>1. \A v \in Workers \ {w} : pc'[v] = "enqueue" => InSeq(submitters', v)
      BY <1>1, <1>4, Ids DEF WakeInv, Registered
    <3>2. pc'[w] = "enqueue" => InSeq(submitters', w)
      BY <1>1, <1>5
    <3>3. QED BY <3>1, <3>2
  <2>3. QED BY <2>1, <2>2 DEF Registered
<1>9. Signalled'
  BY <1>3 DEF WakeInv, Signalled
<1>10. NotMissed'
  <2>1. \A u \in Threads, v \in Workers : ring[u] = <<v>> => ring'[u] = <<v>>
    <3>1. \A v \in Workers : ring[w] # <<v>>
      <4>1. ring[w] = <<>>
        BY DEF Calm
      <4>2. \A v \in Workers : <<v>> # <<>>
        OBVIOUS
      <4>3. QED BY <4>1, <4>2
    <3>2. QED BY <3>1
  <2>2. QED BY <1>3, <2>1 DEF WakeInv, NotMissed
<1>11. QED BY <1>6, <1>7, <1>8, <1>9, <1>10 DEF WakeInv

\* A step that leaves who sleeps and who is to be notified as they are.
LEMMA SameSleep ==
  ASSUME TypeOK, WakeInv,
         UNCHANGED <<state, submitters, remote, scan, signal, ring>>,
         \A w \in Workers : /\ pc'[w] = pc[w] \/ (pc[w] = "unborn" /\ pc'[w] = "pop")
                            /\ waiting'[w] = waiting[w] \/ (waiting[w] = "waiting" /\ waiting'[w] = "woken"),
         pc'[Main] = pc[Main] \/ Calm(Main)
  PROVE  WakeInv'
<1>1. \A w \in Workers :
        /\ Asleep(w)' => Asleep(w)
        /\ pc'[w] = "scan locked" <=> pc[w] = "scan locked"
        /\ pc'[w] = "wait" <=> pc[w] = "wait"
        /\ waiting'[w] = "no" <=> waiting[w] = "no"
  BY DEF Asleep
<1>2. \A t \in Threads : Calm(t)' <=> Calm(t)
  BY DEF Calm
<1>3. Notifying'
  <2>1. \A w \in Workers : pc[w] = "unborn" => Calm(w)
    BY DEF WakeInv, Notifying
  <2>2. \A w \in Workers : ~Calm(w)' => pc'[w] \in {"execute", "lock", "awake", "enqueue"}
    BY <1>2, <2>1, Ids DEF WakeInv, Notifying
  <2>3. ~Calm(Main)' => pc'[Main] = "sync_wait"
    BY <1>2, Ids DEF WakeInv, Notifying
  <2>4. QED BY <2>2, <2>3 DEF WakeInv, Notifying
<1>4. Waits'
  BY <1>1 DEF WakeInv, Waits
<1>5. Registered'
  BY DEF WakeInv, Registered
<1>6. Signalled'
  BY <1>1 DEF WakeInv, Signalled
<1>7. NotMissed'
  BY <1>1 DEF WakeInv, NotMissed
<1>8. QED BY <1>3, <1>4, <1>5, <1>6, <1>7 DEF WakeInv

\* Steps of a worker that is awake before and after.
LEMMA WorkerAwake ==
  ASSUME TypeOK, WakeInv, NEW w \in Workers,
         \/ PopEmpty(w) \/ ScanFound(w) \/ ScanNothing(w) \/ Steal(w) \/ StealNothing(w)
         \/ clear_stealing(w) \/ LockAndCheck(w) \/ NoSleep(w) \/ WakeUp(w) \/ Awake(w)
         \/ StartBulk(w) \/ Enqueued(w) \/ RunAgent(w) \/ FinishAgent(w) \/ CompleteBulk(w)
  PROVE  WakeInv'
<1> USE DEF queueVars, sleepVars, notifyVars
<1>0. /\ ring \in [Threads -> Seq(Workers)] /\ scan \in [Workers -> Seq(Threads)]
      /\ state \in [Workers -> {"running", "sleeping", "notified"}]
      /\ waiting \in [Workers -> {"no", "waiting", "woken"}]
      /\ w \in Threads /\ Workers \subseteq Threads
  BY SleepTypes, Ids
<1>a. pc[w] \notin {"execute", "lock", "awake", "enqueue"} => Calm(w)
  BY DEF WakeInv, Notifying
<1>1. CASE PopEmpty(w)
  BY <1>0, <1>1, <1>a, AwakeStep DEF PopEmpty, Calm
<1>2. CASE ScanFound(w)
  BY <1>0, <1>2, <1>a, AwakeStep DEF ScanFound, Calm
<1>3. CASE ScanNothing(w)
  BY <1>0, <1>3, <1>a, AwakeStep DEF ScanNothing, Calm
<1>4. CASE Steal(w)
  BY <1>0, <1>4, <1>a, AwakeStep DEF Steal, Calm
<1>5. CASE StealNothing(w)
  BY <1>0, <1>5, <1>a, AwakeStep DEF StealNothing, Calm
<1>6. CASE clear_stealing(w)
  <2>1. /\ Calm(w) /\ (Goto(w, "execute") \/ Goto(w, "lock")) /\ pc[w] # "wait"
        /\ UNCHANGED <<signal, remote, submitters, waiting, state, scan>>
    BY <1>6, <1>a DEF clear_stealing
  <2>2. \A t \in Threads \ {w} : ring'[t] = ring[t]
    BY <1>0, <1>6 DEF clear_stealing, NotifyOneSleeping
  <2>3. QED BY <2>1, <2>2, AwakeStep
<1>7. CASE LockAndCheck(w)
  BY <1>0, <1>7, AwakeStep DEF LockAndCheck, Calm
<1>8. CASE NoSleep(w)
  BY <1>0, <1>8, <1>a, AwakeStep DEF NoSleep, Calm
<1>9. CASE WakeUp(w)
  <2>1. /\ Calm(w) /\ Goto(w, "awake") /\ waiting'[w] = "no"
        /\ \A v \in Workers \ {w} : waiting'[v] = waiting[v]
        /\ UNCHANGED <<signal, remote, submitters, state, scan>>
    BY <1>0, <1>9, <1>a DEF WakeUp
  <2>2. \A t \in Threads \ {w} : ring'[t] = ring[t]
    BY <1>0, <1>9 DEF WakeUp, NotifyOneSleeping
  <2>3. QED BY <2>1, <2>2, AwakeStep
<1>10. CASE Awake(w)
  BY <1>0, <1>10, AwakeStep DEF Awake, Calm
<1>11. CASE StartBulk(w)
  <2>1. /\ Calm(w) /\ pc[w] # "wait" /\ UNCHANGED <<signal, ring, remote, waiting, state, scan>>
        /\ \/ Goto(w, "enqueue") /\ submitters' = <<w>> \o submitters
           \/ Goto(w, "complete") /\ submitters' = submitters
    BY <1>11 DEF StartBulk
  <2>2. ring'[w] = <<>>
    BY <2>1 DEF Calm
  <2>3. QED BY <2>1, <2>2, AwakeStep
<1>12. CASE Enqueued(w)
  BY <1>0, <1>12, AwakeStep DEF Enqueued, Calm
<1>13. CASE RunAgent(w)
  BY <1>0, <1>13, AwakeStep DEF RunAgent, Calm
<1>14. CASE FinishAgent(w)
  <2>1. /\ Calm(w) /\ pc[w] # "wait" /\ UNCHANGED <<signal, ring, remote, submitters, waiting, state, scan>>
        /\ Goto(w, "complete") \/ Goto(w, "pop")
    BY <1>14, <1>a DEF FinishAgent
  <2>2. ring'[w] = <<>>
    BY <2>1 DEF Calm
  <2>3. QED BY <2>1, <2>2, AwakeStep
<1>15. CASE CompleteBulk(w)
  BY <1>0, <1>15, <1>a, AwakeStep DEF CompleteBulk, Calm
<1>16. QED BY <1>1, <1>2, <1>3, <1>4, <1>5, <1>6, <1>7, <1>8, <1>9, <1>10, <1>11, <1>12, <1>13,
              <1>14, <1>15

\* Steps that only move tasks a worker has fetched, wake a waiter or belong to main.
LEMMA OthersSameSleep ==
  ASSUME TypeOK, Loops, WakeInv,
         \/ \E w \in Workers : ScanMove(w) \/ SpuriousWakeup(w)
         \/ Spawn \/ SpawnFails \/ SyncWaitReturns \/ StopWorker \/ StopSignal \/ Join
         \/ UNCHANGED vars
  PROVE  WakeInv'
<1> USE DEF queueVars, sleepVars, notifyVars
<1>0. /\ waiting \in [Workers -> {"no", "waiting", "woken"}] /\ Workers \subseteq Threads
      /\ Main \in Threads \ Workers
  BY SleepTypes, Ids
<1>a. pc[Main] # "sync_wait" => Calm(Main)
  BY DEF WakeInv, Notifying
<1>b. ASSUME NEW i PROVE \A w \in Workers : Woken(i)[w] = waiting[w] \/ (waiting[w] = "waiting" /\ Woken(i)[w] = "woken")
  BY <1>0 DEF Woken
<1>c. ASSUME NEW l, Goto(Main, l) PROVE \A w \in Workers : pc'[w] = pc[w]
  BY <1>0, <1>c, GoesTo
<1>1. CASE \E w \in Workers : ScanMove(w)
  BY <1>1, SameSleep DEF ScanMove
<1>2. CASE \E w \in Workers : SpuriousWakeup(w)
  <2>1. PICK w \in Workers : SpuriousWakeup(w)
    BY <1>2
  <2>2. waiting' = Woken(w) /\ UNCHANGED <<pc, state, submitters, remote, scan, signal, ring>>
    BY <2>1 DEF SpuriousWakeup
  <2>3. QED BY <1>b, <2>2, SameSleep
<1>3. CASE Spawn
  <2>1. CASE next[Main] < Parallelism
    <3>1. PICK n \in Workers : n = next[Main]
      <4>1. next[Main] \in 0 .. Parallelism /\ Parallelism \in Nat
        BY <1>0, PoolAssumption DEF TypeOK
      <4>2. QED BY <2>1, <4>1 DEF Workers
    <3>2. pc[Main] = "spawn" /\ Goto(n, "pop") /\ UNCHANGED <<waiting, state, submitters, remote, scan, signal, ring>>
      <4>1. n # Parallelism
        BY PoolAssumption DEF Workers
      <4>2. QED BY <1>3, <3>1, <4>1 DEF Spawn
    <3>3. pc[n] = "unborn"
      BY <3>1, <3>2 DEF Loops, Workers
    <3>4. pc'[n] = "pop" /\ \A u \in Threads \ {n} : pc'[u] = pc[u]
      BY <1>0, <3>2, GoesTo
    <3>5. QED BY <1>0, <3>2, <3>3, <3>4, SameSleep
  <2>2. CASE ~(next[Main] < Parallelism)
    <3>1. pc[Main] = "spawn" /\ Goto(Main, "submit")
          /\ UNCHANGED <<waiting, state, submitters, remote, scan, signal, ring>>
      BY <1>3, <2>2 DEF Spawn
    <3>2. QED BY <1>a, <1>c, <3>1, SameSleep
  <2>3. QED BY <2>1, <2>2
<1>4. CASE SpawnFails
  BY <1>4, <1>a, <1>c, SameSleep DEF SpawnFails
<1>5. CASE SyncWaitReturns
  BY <1>5, <1>c, SameSleep DEF SyncWaitReturns
<1>6. CASE StopWorker
  <2>1. /\ Goto(Main, "stop signal") \/ Goto(Main, "join")
        /\ pc[Main] = "stop" /\ UNCHANGED <<waiting, state, submitters, remote, scan, signal, ring>>
    BY <1>6 DEF StopWorker
  <2>2. QED BY <1>a, <1>c, <2>1, SameSleep
<1>7. CASE StopSignal
  <2>1. PICK i : i = next[Main]
    OBVIOUS
  <2>2. /\ Goto(Main, "stop") /\ waiting' = Woken(i)
        /\ pc[Main] = "stop signal" /\ UNCHANGED <<state, submitters, remote, scan, signal, ring>>
    BY <1>7, <2>1 DEF StopSignal
  <2>3. QED BY <1>a, <1>b, <1>c, <2>2, SameSleep
<1>8. CASE Join
  BY <1>8, <1>a, <1>c, SameSleep DEF Join
<1>9. CASE UNCHANGED vars
  BY <1>9, SameSleep DEF vars
<1>10. QED BY <1>1, <1>2, <1>3, <1>4, <1>5, <1>6, <1>7, <1>8, <1>9

\* notify exchanges state_: a worker that was sleeping is signalled next, by
\* this thread; of another one the state was taken before.
LEMMA NotifyExchangeSleep ==
  ASSUME TypeOK, WakeInv, NEW t \in Threads, NotifyExchange(t)
  PROVE  WakeInv'
<1>0. /\ ring \in [Threads -> Seq(Workers)] /\ signal \in [Threads -> Workers \cup {None}]
      /\ state \in [Workers -> {"running", "sleeping", "notified"}]
  BY SleepTypes
<1>1. ring[t] \in Seq(Workers) /\ ring[t] # <<>>
  BY <1>0 DEF NotifyExchange
<1>2. PICK i \in Workers : i = Head(ring[t])
  BY <1>1, HeadTailProperties
<1>3. /\ state' = [state EXCEPT ![i] = "notified"]
      /\ UNCHANGED <<pc, submitters, remote, scan, waiting>>
      /\ \/ state[i] = "sleeping" /\ signal' = [signal EXCEPT ![t] = i] /\ ring' = [ring EXCEPT ![t] = <<>>]
         \/ state[i] # "sleeping" /\ signal' = signal /\ ring' = [ring EXCEPT ![t] = Tail(ring[t])]
  BY <1>2 DEF NotifyExchange, queueVars
<1>4. signal[t] = None /\ ~Calm(t)
  BY <1>1 DEF WakeInv, Notifying, Calm
<1>5. \A v \in Workers : Asleep(v)' <=> Asleep(v)
  BY <1>3 DEF Asleep
<1>6. \A u \in Threads : Calm(u)' \/ ~Calm(u)
  BY <1>0, <1>3, <1>4 DEF Calm
<1>7. Notifying'
  <2>1. \A u \in Threads : ring'[u] # <<>> => signal'[u] = None
    BY <1>0, <1>3, <1>4 DEF WakeInv, Notifying
  <2>2. \A w \in Workers : ~Calm(w)' => pc'[w] \in {"execute", "lock", "awake", "enqueue"}
    BY <1>3, <1>6, Ids DEF WakeInv, Notifying
  <2>3. ~Calm(Main)' => pc'[Main] = "sync_wait"
    BY <1>3, <1>6, Ids DEF WakeInv, Notifying
  <2>4. QED BY <2>1, <2>2, <2>3 DEF Notifying
<1>8. Waits' /\ Registered'
  BY <1>3 DEF WakeInv, Waits, Registered
<1>9. \A v \in Workers, u \in Threads : signal[u] = v => signal'[u] = v
  BY <1>0, <1>3, <1>4, Ids
<1>10. Asleep(i) => \E u \in Threads : signal'[u] = i
  <2>1. CASE state[i] = "sleeping"
    BY <1>0, <1>3, <2>1
  <2>2. CASE state[i] # "sleeping"
    BY <1>9, <2>2 DEF WakeInv, Signalled
  <2>3. QED BY <2>1, <2>2
<1>11. Signalled'
  <2> SUFFICES ASSUME NEW v \in Workers, Asleep(v), state'[v] # "sleeping" PROVE \E u \in Threads : signal'[u] = v
    BY <1>5 DEF Signalled
  <2>1. CASE v = i
    BY <1>10, <2>1
  <2>2. CASE v # i
    <3>1. state[v] # "sleeping"
      BY <1>0, <1>3, <2>2
    <3>2. QED BY <1>9, <3>1 DEF WakeInv, Signalled
  <2>3. QED BY <2>1, <2>2
<1>12. NotMissed'
  <2> SUFFICES ASSUME NEW v \in Workers, NEW s \in Threads, Asleep(v), remote[s][v] # {},
                      pc[v] = "scan locked" => ~InSeq(scan[v], s)
               PROVE  \E u \in Threads : signal'[u] = v \/ ring'[u] = <<v>>
    BY <1>3, <1>5 DEF NotMissed
  <2>1. PICK u \in Threads : signal[u] = v \/ ring[u] = <<v>>
    BY DEF WakeInv, NotMissed
  <2>2. CASE signal[u] = v
    BY <1>9, <2>2
  <2>3. CASE ring[u] = <<v>> /\ u # t
    BY <1>0, <1>3, <2>3
  <2>4. CASE ring[u] = <<v>> /\ u = t
    <3>1. Head(<<v>>) = v
      BY HeadOfOne
    <3>2. i = v
      BY <1>2, <2>4, <3>1
    <3>3. QED BY <1>10, <3>2
  <2>5. QED BY <2>1, <2>2, <2>3, <2>4
<1>13. QED BY <1>7, <1>8, <1>11, <1>12 DEF WakeInv

\* The signal reaches the worker: it does not hold its mutex, so if it is
\* asleep it is in cv_.wait.
LEMMA NotifySignalSleep ==
  ASSUME TypeOK, WakeInv, NEW t \in Threads, NotifySignal(t)
  PROVE  WakeInv'
<1>0. /\ ring \in [Threads -> Seq(Workers)] /\ signal \in [Threads -> Workers \cup {None}]
      /\ waiting \in [Workers -> {"no", "waiting", "woken"}]
  BY SleepTypes
<1>1. PICK i \in Workers : i = signal[t]
  BY <1>0 DEF NotifySignal
<1>2. /\ waiting' = Woken(i) /\ signal' = [signal EXCEPT ![t] = None] /\ ~Locked(i)
      /\ UNCHANGED <<pc, submitters, remote, scan, state, ring>>
  BY <1>1 DEF NotifySignal, queueVars
<1>3. /\ \A v \in Workers : waiting'[v] = waiting[v] \/ (waiting[v] = "waiting" /\ waiting'[v] = "woken")
      /\ waiting'[i] # "waiting"
  BY <1>0, <1>2 DEF Woken
<1>4. \A v \in Workers : Asleep(v)' => Asleep(v) /\ v # i
  BY <1>2, <1>3 DEF Asleep, Locked
<1>5. i # None
  BY Ids
<1>6. \A u \in Threads, v \in Workers : signal[u] = v /\ v # i => signal'[u] = v
  BY <1>0, <1>1, <1>2
<1>7. \A u \in Threads : Calm(u)' \/ ~Calm(u)
  BY <1>0, <1>2 DEF Calm
<1>8. Notifying'
  <2>1. \A u \in Threads : ring'[u] # <<>> => signal'[u] = None
    BY <1>0, <1>2 DEF WakeInv, Notifying
  <2>2. \A w \in Workers : ~Calm(w)' => pc'[w] \in {"execute", "lock", "awake", "enqueue"}
    BY <1>2, <1>7, Ids DEF WakeInv, Notifying
  <2>3. ~Calm(Main)' => pc'[Main] = "sync_wait"
    BY <1>2, <1>7, Ids DEF WakeInv, Notifying
  <2>4. QED BY <2>1, <2>2, <2>3 DEF Notifying
<1>9. Waits'
  BY <1>2, <1>3 DEF WakeInv, Waits
<1>10. Registered'
  BY <1>2 DEF WakeInv, Registered
<1>11. Signalled'
  BY <1>2, <1>4, <1>6 DEF WakeInv, Signalled
<1>12. NotMissed'
  BY <1>2, <1>4, <1>6 DEF WakeInv, NotMissed
<1>13. QED BY <1>8, <1>9, <1>10, <1>11, <1>12 DEF WakeInv

\* A queue is marked as looked at in the step that empties it.
LEMMA ScanQueueSleep ==
  ASSUME TypeOK, WakeInv, NEW w \in Workers, ScanQueue(w)
  PROVE  WakeInv'
<1>0. scan \in [Workers -> Seq(Threads)] /\ remote \in [Threads -> [Workers -> SUBSET Tasks]]
  BY SleepTypes
<1>1. scan[w] \in Seq(Threads) /\ scan[w] # <<>>
  BY <1>0 DEF ScanQueue
<1>2. PICK h \in Threads : h = Head(scan[w])
  BY <1>1, HeadTailProperties
<1>3. /\ remote' = [remote EXCEPT ![h][w] = {}] /\ scan' = [scan EXCEPT ![w] = Tail(scan[w])]
      /\ UNCHANGED <<pc, submitters, state, waiting, ring, signal>>
  BY <1>2 DEF ScanQueue, sleepVars, notifyVars
<1>4. \A v \in Workers, t \in Threads : remote'[t][v] # {} => remote[t][v] # {} /\ ~(t = h /\ v = w)
  BY <1>0, <1>3
<1>5. \A v \in Workers : Asleep(v)' <=> Asleep(v)
  BY <1>3 DEF Asleep
<1>6. Notifying' /\ Waits'
  BY <1>3 DEF WakeInv, Notifying, Waits, Calm
<1>7. Registered'
  BY <1>3, <1>4 DEF WakeInv, Registered
<1>8. Signalled'
  BY <1>3, <1>5 DEF WakeInv, Signalled
<1>9. NotMissed'
  <2> SUFFICES ASSUME NEW v \in Workers, NEW t \in Threads, Asleep(v), remote'[t][v] # {},
                      pc[v] = "scan locked" => ~InSeq(scan'[v], t)
               PROVE  \E u \in Threads : signal[u] = v \/ ring[u] = <<v>>
    BY <1>3, <1>5 DEF NotMissed
  <2>1. CASE v # w
    <3>1. scan'[v] = scan[v] /\ remote[t][v] # {}
      BY <1>0, <1>3, <1>4, <2>1
    <3>2. QED BY <3>1 DEF WakeInv, NotMissed
  <2>2. CASE v = w
    <3>1. scan'[v] = Tail(scan[w]) /\ remote[t][v] # {} /\ t # Head(scan[w])
      BY <1>0, <1>2, <1>3, <1>4, <2>2
    <3>2. pc[v] = "scan locked" => ~InSeq(scan[v], t)
      <4>1. InSeq(scan[w], t) => t = Head(scan[w]) \/ InSeq(Tail(scan[w]), t)
        BY <1>1, InTail
      <4>2. QED BY <2>2, <3>1, <4>1
    <3>3. QED BY <3>1, <3>2 DEF WakeInv, NotMissed
  <2>3. QED BY <2>1, <2>2
<1>10. QED BY <1>6, <1>7, <1>8, <1>9 DEF WakeInv

\* Before the worker looks at the queues, it has looked at none.
LEMMA TryToSleepSleep ==
  ASSUME TypeOK, WakeInv, NEW w \in Workers, TryToSleep(w)
  PROVE  WakeInv'
<1>0. /\ scan \in [Workers -> Seq(Threads)] /\ state \in [Workers -> {"running", "sleeping", "notified"}]
      /\ w \in Threads
  BY SleepTypes, Ids
<1>1. /\ pc[w] = "locked" /\ Goto(w, "scan locked")
      /\ state' = [state EXCEPT ![w] = "sleeping"] /\ scan' = [scan EXCEPT ![w] = submitters]
      /\ UNCHANGED <<remote, submitters, waiting, ring, signal>>
  BY DEF TryToSleep, notifyVars
<1>2. /\ pc'[w] = "scan locked" /\ (\A u \in Workers \ {w} : pc'[u] = pc[u]) /\ pc'[Main] = pc[Main]
  BY <1>0, <1>1, GoesTo, Ids
<1>3. /\ state'[w] = "sleeping" /\ scan'[w] = submitters
      /\ \A v \in Workers \ {w} : state'[v] = state[v] /\ scan'[v] = scan[v]
  BY <1>0, <1>1
<1>4. \A v \in Workers \ {w} : Asleep(v)' <=> Asleep(v)
  BY <1>1, <1>2 DEF Asleep
<1>5. \A t \in Threads : Calm(t)' <=> Calm(t)
  BY <1>1 DEF Calm
<1>6. Notifying'
  <2>1. Calm(w)
    BY <1>1 DEF WakeInv, Notifying
  <2>2. \A v \in Workers : ~Calm(v)' => pc'[v] \in {"execute", "lock", "awake", "enqueue"}
    BY <1>2, <1>5, <2>1, Ids DEF WakeInv, Notifying
  <2>3. ~Calm(Main)' => pc'[Main] = "sync_wait"
    BY <1>2, <1>5, Ids DEF WakeInv, Notifying
  <2>4. \A t \in Threads : ring'[t] # <<>> => signal'[t] = None
    BY <1>1 DEF WakeInv, Notifying
  <2>5. QED BY <2>2, <2>3, <2>4 DEF Notifying
<1>7. Waits'
  BY <1>1, <1>2 DEF WakeInv, Waits
<1>8. Registered'
  BY <1>1, <1>2 DEF WakeInv, Registered
<1>9. Signalled'
  BY <1>1, <1>3, <1>4 DEF WakeInv, Signalled
<1>10. NotMissed'
  <2> SUFFICES ASSUME NEW v \in Workers, NEW t \in Threads, Asleep(v)', remote[t][v] # {},
                      pc'[v] = "scan locked" => ~InSeq(scan'[v], t)
               PROVE  \E u \in Threads : signal[u] = v \/ ring[u] = <<v>>
    BY <1>1 DEF NotMissed
  <2>1. CASE v = w
    BY <1>2, <1>3, <2>1 DEF WakeInv, Registered
  <2>2. CASE v # w
    BY <1>2, <1>3, <1>4, <2>2 DEF WakeInv, NotMissed
  <2>3. QED BY <2>1, <2>2
<1>11. QED BY <1>6, <1>7, <1>8, <1>9, <1>10 DEF WakeInv

\* When the worker goes to wait it has looked at every queue.
LEMMA SleepSleep ==
  ASSUME TypeOK, WakeInv, NEW w \in Workers, Sleep(w)
  PROVE  WakeInv'
<1>0. waiting \in [Workers -> {"no", "waiting", "woken"}] /\ w \in Threads
  BY SleepTypes, Ids
<1>1. /\ pc[w] = "scan locked" /\ scan[w] = <<>> /\ Goto(w, "wait")
      /\ waiting' = [waiting EXCEPT ![w] = "waiting"]
      /\ UNCHANGED <<remote, submitters, scan, state, ring, signal>>
  BY DEF Sleep, queueVars, notifyVars
<1>2. /\ pc'[w] = "wait" /\ (\A u \in Workers \ {w} : pc'[u] = pc[u]) /\ pc'[Main] = pc[Main]
  BY <1>0, <1>1, GoesTo, Ids
<1>3. waiting'[w] = "waiting" /\ \A v \in Workers \ {w} : waiting'[v] = waiting[v]
  BY <1>0, <1>1
<1>4. \A v \in Workers : Asleep(v)' <=> Asleep(v)
  BY <1>1, <1>2, <1>3 DEF Asleep
<1>5. \A t \in Threads : Calm(t)' <=> Calm(t)
  BY <1>1 DEF Calm
<1>6. Notifying'
  <2>1. Calm(w)
    BY <1>1 DEF WakeInv, Notifying
  <2>2. \A v \in Workers : ~Calm(v)' => pc'[v] \in {"execute", "lock", "awake", "enqueue"}
    BY <1>2, <1>5, <2>1, Ids DEF WakeInv, Notifying
  <2>3. ~Calm(Main)' => pc'[Main] = "sync_wait"
    BY <1>2, <1>5, Ids DEF WakeInv, Notifying
  <2>4. \A t \in Threads : ring'[t] # <<>> => signal'[t] = None
    BY <1>1 DEF WakeInv, Notifying
  <2>5. QED BY <2>2, <2>3, <2>4 DEF Notifying
<1>7. Waits'
  BY <1>2, <1>3 DEF WakeInv, Waits
<1>8. Registered'
  BY <1>1, <1>2 DEF WakeInv, Registered
<1>9. Signalled'
  BY <1>1, <1>4 DEF WakeInv, Signalled
<1>10. NotMissed'
  <2> SUFFICES ASSUME NEW v \in Workers, NEW t \in Threads, Asleep(v), remote[t][v] # {},
                      pc'[v] = "scan locked" => ~InSeq(scan[v], t)
               PROVE  \E u \in Threads : signal[u] = v \/ ring[u] = <<v>>
    BY <1>1, <1>4 DEF NotMissed
  <2>1. pc[v] = "scan locked" => ~InSeq(scan[v], t)
    BY <1>1, <1>2, InEmpty
  <2>2. QED BY <2>1 DEF WakeInv, NotMissed
<1>11. QED BY <1>6, <1>7, <1>8, <1>9, <1>10 DEF WakeInv

\* A task is pushed and its worker is to be notified next.
LEMMA PushSleep ==
  ASSUME TypeOK, WakeInv, NEW t \in Threads, NEW r \in Workers, NEW x, Calm(t),
         remote' = [remote EXCEPT ![t][r] = @ \cup {x}], ring' = [ring EXCEPT ![t] = <<r>>],
         UNCHANGED <<signal, state, waiting, scan>>,
         \A u \in Threads : InSeq(submitters, u) => InSeq(submitters', u),
         InSeq(submitters', t),
         \A w \in Workers : pc'[w] = pc[w],
         \/ t = Main /\ pc'[Main] = "sync_wait"
         \/ t # Main /\ pc[t] = "enqueue" /\ pc'[Main] = pc[Main]
  PROVE  WakeInv'
<1>0. /\ ring \in [Threads -> Seq(Workers)] /\ remote \in [Threads -> [Workers -> SUBSET Tasks]]
  BY SleepTypes
<1>1. /\ ring'[t] = <<r>> /\ \A u \in Threads \ {t} : ring'[u] = ring[u]
  BY <1>0
<1>2. \A u \in Threads, v \in Workers : remote'[u][v] # {} => remote[u][v] # {} \/ (u = t /\ v = r)
  BY <1>0
<1>3. \A v \in Workers : Asleep(v)' <=> Asleep(v)
  BY DEF Asleep
<1>4. \A u \in Threads \ {t} : Calm(u)' <=> Calm(u)
  BY <1>1 DEF Calm
<1>5. Notifying'
  <2>1. \A v \in Workers : ~Calm(v)' => pc'[v] \in {"execute", "lock", "awake", "enqueue"}
    <3>1. t \in Workers => pc[t] = "enqueue"
      BY Ids
    <3>2. QED BY <1>4, <3>1, Ids DEF WakeInv, Notifying
  <2>2. ~Calm(Main)' => pc'[Main] = "sync_wait"
    BY <1>4, Ids DEF WakeInv, Notifying
  <2>3. \A u \in Threads : ring'[u] # <<>> => signal'[u] = None
    BY <1>1 DEF WakeInv, Notifying, Calm
  <2>4. QED BY <2>1, <2>2, <2>3 DEF Notifying
<1>6. Waits'
  BY DEF WakeInv, Waits
<1>7. Registered'
  <2>1. \A u \in Threads, v \in Workers : remote'[u][v] # {} => InSeq(submitters', u)
    BY <1>2 DEF WakeInv, Registered
  <2>2. \A v \in Workers : pc'[v] = "enqueue" => InSeq(submitters', v)
    BY Ids DEF WakeInv, Registered
  <2>3. QED BY <2>1, <2>2 DEF Registered
<1>8. Signalled'
  BY <1>3 DEF WakeInv, Signalled
<1>9. NotMissed'
  <2> SUFFICES ASSUME NEW v \in Workers, NEW s \in Threads, Asleep(v), remote'[s][v] # {},
                      pc[v] = "scan locked" => ~InSeq(scan[v], s)
               PROVE  \E u \in Threads : signal[u] = v \/ ring'[u] = <<v>>
    BY <1>3 DEF NotMissed
  <2>1. CASE s = t /\ v = r
    BY <1>1, <2>1
  <2>2. CASE ~(s = t /\ v = r)
    <3>1. PICK u \in Threads : signal[u] = v \/ ring[u] = <<v>>
      BY <1>2, <2>2 DEF WakeInv, NotMissed
    <3>2. CASE u = t
      <4>1. ring[t] = <<>> /\ <<v>> # <<>>
        BY DEF Calm
      <4>2. QED BY <3>1, <3>2, <4>1
    <3>3. CASE u # t
      BY <1>1, <3>1, <3>3
    <3>4. QED BY <3>2, <3>3
  <2>3. QED BY <2>1, <2>2
<1>10. QED BY <1>5, <1>6, <1>7, <1>8, <1>9 DEF WakeInv

LEMMA EnqueueAgentSleep ==
  ASSUME TypeOK, WakeInv, NEW w \in Workers, EnqueueAgent(w)
  PROVE  WakeInv'
<1>0. w \in Threads /\ w # Main /\ pc[w] = "enqueue" /\ Calm(w)
  BY Ids DEF EnqueueAgent
<1>1. PICK x : x = next[w]
  OBVIOUS
<1>2. x \in Nat
  BY <1>0, <1>1, PoolAssumption DEF TypeOK
<1>3. PICK r \in Workers : r = x % Parallelism
  BY <1>2, PoolAssumption DEF Workers
<1>4. /\ remote' = [remote EXCEPT ![w][r] = @ \cup {x}] /\ ring' = [ring EXCEPT ![w] = <<r>>]
      /\ UNCHANGED <<pc, submitters, signal, state, waiting, scan>>
  BY <1>1, <1>3 DEF EnqueueAgent, sleepVars
<1>5. InSeq(submitters, w)
  BY <1>0 DEF WakeInv, Registered
<1>6. QED BY <1>0, <1>4, <1>5, PushSleep

LEMMA SubmitSleep ==
  ASSUME TypeOK, WakeInv, Submit
  PROVE  WakeInv'
<1>0. Main \in Threads /\ pc[Main] = "submit" /\ Calm(Main) /\ submitters \in Seq(Threads)
  BY Ids, SleepTypes DEF Submit, WakeInv, Notifying
<1>1. PICK r \in Workers : /\ remote' = [remote EXCEPT ![Main][r] = @ \cup {Sched}]
                           /\ ring' = [ring EXCEPT ![Main] = <<r>>]
  BY DEF Submit
<1>2. /\ Goto(Main, "sync_wait") /\ submitters' = <<Main>> \o submitters
      /\ UNCHANGED <<signal, state, waiting, scan>>
  BY DEF Submit, sleepVars
<1>3. pc'[Main] = "sync_wait" /\ \A w \in Workers : pc'[w] = pc[w]
  BY <1>0, <1>2, GoesTo, Ids
<1>4. ASSUME NEW u \in Threads, InSeq(submitters, u) PROVE InSeq(submitters', u)
  <2>1. InSeq(<<Main>> \o submitters, u)
    BY <1>0, <1>4, InCons
  <2>2. QED BY <1>2, <2>1
<1>5. InSeq(submitters', Main)
  <2>1. InSeq(<<Main>> \o submitters, Main)
    BY <1>0, InCons
  <2>2. QED BY <1>2, <2>1
<1>6. QED BY <1>0, <1>1, <1>2, <1>3, <1>4, <1>5, PushSleep

-----------------------------------------------------------------------------
LEMMA InitWakes == Init => WakeInv
<1> SUFFICES ASSUME Init PROVE WakeInv
  OBVIOUS
<1>1. /\ submitters = <<>> /\ \A t \in Threads : ring[t] = <<>> /\ signal[t] = None
      /\ \A w \in Workers : pc[w] = "unborn" /\ waiting[w] = "no"
      /\ \A t \in Threads, w \in Workers : remote[t][w] = {}
  BY Ids DEF Init
<1>2. QED BY <1>1, Ids DEF WakeInv, Notifying, Waits, Registered, Signalled, NotMissed, Asleep, Calm

LEMMA WakeStep ==
  ASSUME TypeOK, Loops, WakeInv, [Next]_vars
  PROVE  WakeInv'
<1>1. ASSUME NEW w \in Workers, WorkerStep(w) PROVE WakeInv'
  BY <1>1, WorkerAwake, ScanQueueSleep, TryToSleepSleep, SleepSleep, EnqueueAgentSleep, OthersSameSleep
     DEF WorkerStep
<1>2. QED
  BY <1>1, OthersSameSleep, NotifyExchangeSleep, NotifySignalSleep, SubmitSleep
     DEF Next, ThreadStep, MainStep, Terminated

LEMMA WakeInvariant == Spec => []WakeInv
<1>1. Init => WakeInv
  BY InitWakes
<1>2. PoolInv /\ WakeInv /\ [Next]_vars => WakeInv'
  BY WakeStep DEF PoolInv
<1>3. QED BY <1>1, <1>2, PoolInvariant, PTL DEF Spec

\* No wakeup is lost, for any number of workers: while a queue of a worker that
\* waits in cv_.wait holds a task, some thread is about to signal that worker
\* or has it next on the list of those to notify.
THEOREM NoWakeupLost == Spec => []NoTaskSleeps
<1>1. TypeOK /\ WakeInv => NoTaskSleeps
  <2> SUFFICES ASSUME TypeOK, WakeInv, NEW w \in Workers, waiting[w] = "waiting",
                      NEW s \in Threads, remote[s][w] # {}
               PROVE  \E t \in Threads : signal[t] = w \/ \E i \in DOMAIN ring[t] : ring[t][i] = w
    BY DEF NoTaskSleeps
  <2>1. Asleep(w) /\ pc[w] = "wait"
    BY DEF WakeInv, Waits, Asleep
  <2>2. PICK t \in Threads : signal[t] = w \/ ring[t] = <<w>>
    BY <2>1 DEF WakeInv, NotMissed
  <2>3. 1 \in DOMAIN <<w>> /\ <<w>>[1] = w
    OBVIOUS
  <2>4. QED BY <2>2, <2>3
<1>2. QED BY <1>1, WakeInvariant, PoolTypes, PTL

-----------------------------------------------------------------------------
(***************************************************************************)
(* numActive_: the two halves never carry into each other, as there are at *)
(* most hw workers in each and hw is below 2^16.                           *)
(***************************************************************************)
Stealing == {"steal", "stolen", "unstolen"}
Stealers == {w \in Workers : pc[w] \in Stealing}
Sleepers == {w \in Workers : pc[w] = "wait"}

Packed(s, z) == (Parallelism - s - z) * Lo + s

ActiveInv == numActive = Packed(Cardinality(Stealers), Cardinality(Sleepers))

LEMMA QuotientIsUnique ==
  ASSUME NEW d \in Nat \ {0}, NEW q \in Nat, NEW r \in 0 .. d - 1
  PROVE  (q * d + r) \div d = q /\ (q * d + r) % d = r
<1> DEFINE n == q * d + r
           p == n \div d
           t == n % d
<1>1. q * d \in Nat /\ n \in Nat
  OBVIOUS
<1>2. p \in Nat /\ t \in 0 .. d - 1 /\ n = p * d + t
  BY <1>1, DivMod
<1> HIDE DEF n, p, t
<1>n. n = q * d + r
  BY DEF n
<1>3. CASE p < q
  <2>1. d * (p + 1) <= d * q
    BY <1>2, <1>3, MulMono
  <2>2. d * (p + 1) = p * d + d /\ d * q = q * d /\ p * d \in Nat
    BY <1>2
  <2>3. QED BY <1>n, <1>1, <1>2, <2>1, <2>2
<1>4. CASE q < p
  <2>1. d * (q + 1) <= d * p
    BY <1>2, <1>4, MulMono
  <2>2. d * (q + 1) = q * d + d /\ d * p = p * d /\ p * d \in Nat
    BY <1>2
  <2>3. QED BY <1>n, <1>1, <1>2, <2>1, <2>2
<1>5. CASE p = q
  BY <1>n, <1>1, <1>2, <1>5 DEF n, p, t
<1>6. QED BY <1>2, <1>3, <1>4, <1>5

LEMMA PackedIsWord ==
  ASSUME NEW s \in Nat, NEW z \in Nat, s + z <= Parallelism
  PROVE  /\ Packed(s, z) \in Int /\ U32(Packed(s, z)) = Packed(s, z)
         /\ Packed(s, z) \div Lo = Parallelism - s - z /\ Packed(s, z) % Lo = s
<1> DEFINE q == Parallelism - s - z
<1>1. /\ Parallelism \in Nat /\ Lo \in Nat \ {0} /\ Parallelism < Lo
      /\ q \in Nat /\ q <= Lo - 1 /\ s \in 0 .. Lo - 1 /\ Lo - 1 \in Nat
  BY PoolAssumption
<1> HIDE DEF q
<1>2. Packed(s, z) = q * Lo + s
  BY DEF Packed, q
<1>3. Packed(s, z) \in Nat /\ Packed(s, z) < Lo * Lo
  <2>1. Lo * q <= Lo * (Lo - 1)
    BY <1>1, MulMono
  <2>2. Lo * (Lo - 1) = Lo * Lo - Lo /\ Lo * q = q * Lo /\ q * Lo \in Nat
    BY <1>1
  <2>3. QED BY <1>1, <1>2, <2>1, <2>2
<1>4. U32(Packed(s, z)) = Packed(s, z)
  <2>1. Lo * Lo \in Nat \ {0}
    BY <1>1
  <2>2. ASSUME NEW n \in Nat \ {0}, NEW x \in Nat, x < n PROVE x % n = x
    BY <2>2
  <2>3. QED BY <1>3, <2>1, <2>2 DEF U32
<1>5. Packed(s, z) \div Lo = q /\ Packed(s, z) % Lo = s
  <2>1. (q * Lo + s) \div Lo = q /\ (q * Lo + s) % Lo = s
    BY <1>1, QuotientIsUnique
  <2>2. QED BY <1>2, <2>1
<1>6. QED BY <1>3, <1>4, <1>5 DEF q

\* What the changes of numActive_ do to the counts.
LEMMA PackedMoves ==
  ASSUME NEW s \in Int, NEW z \in Int
  PROVE  /\ Packed(s, z) + 1 - Lo = Packed(s + 1, z)
         /\ Packed(s, z) + Lo - 1 = Packed(s - 1, z)
         /\ Packed(s, z) - Lo = Packed(s, z + 1)
         /\ Packed(s, z) + Lo = Packed(s, z - 1)
<1>1. Parallelism \in Int /\ Lo \in Int
  BY PoolAssumption
<1>2. ASSUME NEW k \in Int PROVE (k - 1) * Lo = k * Lo - Lo /\ (k + 1) * Lo = k * Lo + Lo /\ k * Lo \in Int
  BY <1>1
<1>3. DEFINE k == Parallelism - s - z
<1>4. k \in Int /\ Parallelism - (s + 1) - z = k - 1 /\ Parallelism - (s - 1) - z = k + 1
      /\ Parallelism - s - (z + 1) = k - 1 /\ Parallelism - s - (z - 1) = k + 1
  BY <1>1
<1>5. (k - 1) * Lo = k * Lo - Lo /\ (k + 1) * Lo = k * Lo + Lo /\ k * Lo \in Int
  BY <1>2, <1>4
<1> HIDE DEF k
<1>6. Packed(s, z) = k * Lo + s /\ Packed(s + 1, z) = (k - 1) * Lo + (s + 1)
      /\ Packed(s - 1, z) = (k + 1) * Lo + (s - 1)
      /\ Packed(s, z + 1) = (k - 1) * Lo + s /\ Packed(s, z - 1) = (k + 1) * Lo + s
  <2>1. Packed(s, z) = k * Lo + s
    BY DEF Packed, k
  <2>2. QED BY <1>4, <2>1 DEF Packed
<1>7. QED BY <1>1, <1>4, <1>5, <1>6

LEMMA Counts ==
  ASSUME NEW A, NEW B, A \subseteq Workers, B \subseteq Workers, A \cap B = {}
  PROVE  /\ IsFiniteSet(A) /\ IsFiniteSet(B)
         /\ Cardinality(A) \in Nat /\ Cardinality(B) \in Nat
         /\ Cardinality(A) + Cardinality(B) <= Parallelism
<1>1. IsFiniteSet(Workers) /\ Cardinality(Workers) = Parallelism
  <2>1. Parallelism - 1 \in Int /\ ~(0 > Parallelism - 1) /\ Parallelism - 1 - 0 + 1 = Parallelism
    BY PoolAssumption
  <2>2. QED BY <2>1, FS_Interval DEF Workers
<1>2. IsFiniteSet(A) /\ IsFiniteSet(B)
  BY <1>1, FS_Subset
<1>3. Cardinality(A) \in Nat /\ Cardinality(B) \in Nat
  BY <1>2, FS_CardinalityType
<1>4. Cardinality(A \cup B) = Cardinality(A) + Cardinality(B)
  <2>1. Cardinality({}) = 0
    BY FS_EmptySet
  <2>2. Cardinality(A \cap B) = 0
    BY <2>1
  <2>3. Cardinality(A \cup B) = Cardinality(A) + Cardinality(B) - Cardinality(A \cap B)
    BY <1>2, FS_Union
  <2>4. QED BY <1>3, <2>2, <2>3
<1>5. Cardinality(A \cup B) <= Parallelism
  BY <1>1, FS_Subset
<1>6. QED BY <1>2, <1>3, <1>4, <1>5

LEMMA StateCounts ==
  /\ IsFiniteSet(Stealers) /\ IsFiniteSet(Sleepers)
  /\ Cardinality(Stealers) \in Nat /\ Cardinality(Sleepers) \in Nat
  /\ Cardinality(Stealers) + Cardinality(Sleepers) <= Parallelism
<1>1. Stealers \subseteq Workers /\ Sleepers \subseteq Workers /\ Stealers \cap Sleepers = {}
  BY DEF Stealers, Sleepers, Stealing
<1>2. QED BY <1>1, Counts

\* A step that does not change the value, nor who steals or sleeps.
LEMMA SameActive ==
  ASSUME ActiveInv, numActive' = numActive,
         \A w \in Workers : /\ pc'[w] \in Stealing <=> pc[w] \in Stealing
                            /\ pc'[w] = "wait" <=> pc[w] = "wait"
  PROVE  ActiveInv'
<1>1. Stealers' = Stealers
  BY DEF Stealers
<1>2. Sleepers' = Sleepers
  BY DEF Sleepers
<1>3. QED BY <1>1, <1>2 DEF ActiveInv

\* The sets after a worker has gone from a to b.
LEMMA CountsMove ==
  ASSUME TypeOK, NEW w \in Workers, NEW l, Goto(w, l)
  PROVE  /\ Stealers' = IF l \in Stealing THEN Stealers \cup {w} ELSE Stealers \ {w}
         /\ Sleepers' = IF l = "wait" THEN Sleepers \cup {w} ELSE Sleepers \ {w}
<1>1. pc'[w] = l /\ \A u \in Workers \ {w} : pc'[u] = pc[u]
  BY GoesTo, Ids
<1>2. QED BY <1>1 DEF Stealers, Sleepers

LEMMA ScanNothingActive ==
  ASSUME TypeOK, ActiveInv, NEW w \in Workers, ScanNothing(w)
  PROVE  ActiveInv'
<1> DEFINE s == Cardinality(Stealers)
           z == Cardinality(Sleepers)
<1>1. pc[w] = "scan" /\ numActive' = U32(numActive + 1 - Lo) /\ Goto(w, "steal")
  BY DEF ScanNothing
<1>2. w \notin Stealers /\ w \notin Sleepers
  BY <1>1 DEF Stealers, Sleepers, Stealing
<1>3. Stealers' = Stealers \cup {w} /\ Sleepers' = Sleepers
  BY <1>1, <1>2, CountsMove DEF Stealing
<1>4. s \in Nat /\ z \in Nat /\ Cardinality(Stealers') = s + 1 /\ Cardinality(Sleepers') = z
  BY <1>2, <1>3, StateCounts, FS_AddElement
<1>5. s + 1 + z <= Parallelism
  <2>1. Stealers' \subseteq Workers /\ Sleepers' \subseteq Workers /\ Stealers' \cap Sleepers' = {}
    BY DEF Stealers, Sleepers, Stealing
  <2>2. Cardinality(Stealers') + Cardinality(Sleepers') <= Parallelism
    BY <2>1, Counts
  <2>3. QED BY <1>4, <2>2
<1> HIDE DEF s, z
<1>6. numActive + 1 - Lo = Packed(s + 1, z)
  BY <1>4, PackedMoves DEF ActiveInv, s, z
<1>7. U32(Packed(s + 1, z)) = Packed(s + 1, z)
  BY <1>4, <1>5, PackedIsWord
<1>8. QED BY <1>1, <1>4, <1>6, <1>7 DEF ActiveInv

LEMMA ClearStealingActive ==
  ASSUME TypeOK, ActiveInv, NEW w \in Workers, clear_stealing(w)
  PROVE  ActiveInv'
<1> DEFINE s == Cardinality(Stealers)
           z == Cardinality(Sleepers)
<1>1. /\ pc[w] \in {"stolen", "unstolen"} /\ numActive' = U32(numActive + Lo - 1)
      /\ Goto(w, IF pc[w] = "stolen" THEN "execute" ELSE "lock")
  BY DEF clear_stealing
<1>2. w \in Stealers /\ w \notin Sleepers
  BY <1>1 DEF Stealers, Sleepers, Stealing
<1>3. Stealers' = Stealers \ {w} /\ Sleepers' = Sleepers
  <2>1. ASSUME NEW l, Goto(w, l), l \in {"execute", "lock"} PROVE Stealers' = Stealers \ {w} /\ Sleepers' = Sleepers
    BY <1>2, <2>1, CountsMove DEF Stealing
  <2>2. QED BY <1>1, <2>1
<1>4. /\ s \in Nat /\ z \in Nat /\ s + z <= Parallelism
      /\ Cardinality(Stealers') = s - 1 /\ Cardinality(Sleepers') = z
  BY <1>2, <1>3, StateCounts, FS_RemoveElement
<1>5. s - 1 \in Nat
  <2>1. Stealers' \subseteq Workers /\ Sleepers' \subseteq Workers /\ Stealers' \cap Sleepers' = {}
    BY DEF Stealers, Sleepers, Stealing
  <2>2. Cardinality(Stealers') \in Nat
    BY <2>1, Counts
  <2>3. QED BY <1>4, <2>2
<1> HIDE DEF s, z
<1>6. numActive + Lo - 1 = Packed(s - 1, z)
  BY <1>4, PackedMoves DEF ActiveInv, s, z
<1>7. U32(Packed(s - 1, z)) = Packed(s - 1, z)
  <2>1. s - 1 + z <= Parallelism
    BY <1>4, PoolAssumption
  <2>2. QED BY <1>4, <1>5, <2>1, PackedIsWord
<1>8. QED BY <1>1, <1>4, <1>6, <1>7 DEF ActiveInv

LEMMA SleepActive ==
  ASSUME TypeOK, ActiveInv, NEW w \in Workers, Sleep(w)
  PROVE  ActiveInv'
<1> DEFINE s == Cardinality(Stealers)
           z == Cardinality(Sleepers)
<1>1. pc[w] = "scan locked" /\ numActive' = U32(numActive - Lo) /\ Goto(w, "wait")
  BY DEF Sleep
<1>2. w \notin Stealers /\ w \notin Sleepers
  BY <1>1 DEF Stealers, Sleepers, Stealing
<1>3. Stealers' = Stealers /\ Sleepers' = Sleepers \cup {w}
  <2>1. "wait" \notin Stealing
    BY DEF Stealing
  <2>2. Stealers' = Stealers \ {w} /\ Sleepers' = Sleepers \cup {w}
    BY <1>1, <2>1, CountsMove
  <2>3. QED BY <1>2, <2>2
<1>4. s \in Nat /\ z \in Nat /\ Cardinality(Stealers') = s /\ Cardinality(Sleepers') = z + 1
  BY <1>2, <1>3, StateCounts, FS_AddElement
<1>5. s + (z + 1) <= Parallelism
  <2>1. Stealers' \subseteq Workers /\ Sleepers' \subseteq Workers /\ Stealers' \cap Sleepers' = {}
    BY DEF Stealers, Sleepers, Stealing
  <2>2. Cardinality(Stealers') + Cardinality(Sleepers') <= Parallelism
    BY <2>1, Counts
  <2>3. QED BY <1>4, <2>2
<1> HIDE DEF s, z
<1>6. numActive - Lo = Packed(s, z + 1)
  BY <1>4, PackedMoves DEF ActiveInv, s, z
<1>7. U32(Packed(s, z + 1)) = Packed(s, z + 1)
  BY <1>4, <1>5, PackedIsWord
<1>8. QED BY <1>1, <1>4, <1>6, <1>7 DEF ActiveInv

LEMMA WakeUpActive ==
  ASSUME TypeOK, ActiveInv, NEW w \in Workers, WakeUp(w)
  PROVE  ActiveInv'
<1> DEFINE s == Cardinality(Stealers)
           z == Cardinality(Sleepers)
<1>1. pc[w] = "wait" /\ numActive' = U32(numActive + Lo) /\ Goto(w, "awake")
  BY DEF WakeUp
<1>2. w \notin Stealers /\ w \in Sleepers
  BY <1>1 DEF Stealers, Sleepers, Stealing
<1>3. Stealers' = Stealers /\ Sleepers' = Sleepers \ {w}
  BY <1>1, <1>2, CountsMove DEF Stealing
<1>4. /\ s \in Nat /\ z \in Nat /\ s + z <= Parallelism
      /\ Cardinality(Stealers') = s /\ Cardinality(Sleepers') = z - 1
  BY <1>2, <1>3, StateCounts, FS_RemoveElement
<1>5. z - 1 \in Nat
  <2>1. Stealers' \subseteq Workers /\ Sleepers' \subseteq Workers /\ Stealers' \cap Sleepers' = {}
    BY DEF Stealers, Sleepers, Stealing
  <2>2. Cardinality(Sleepers') \in Nat
    BY <2>1, Counts
  <2>3. QED BY <1>4, <2>2
<1> HIDE DEF s, z
<1>6. numActive + Lo = Packed(s, z - 1)
  BY <1>4, PackedMoves DEF ActiveInv, s, z
<1>7. U32(Packed(s, z - 1)) = Packed(s, z - 1)
  <2>1. s + (z - 1) <= Parallelism
    BY <1>4, PoolAssumption
  <2>2. QED BY <1>4, <1>5, <2>1, PackedIsWord
<1>8. QED BY <1>1, <1>4, <1>6, <1>7 DEF ActiveInv

\* No other step changes numActive_, nor who steals or sleeps.
LEMMA WorkerActive ==
  ASSUME TypeOK, ActiveInv, NEW w \in Workers, WorkerStep(w)
  PROVE  ActiveInv'
<1> USE DEF sleepVars
<1>a. ASSUME NEW l, Goto(w, l), l \in Stealing <=> pc[w] \in Stealing, l # "wait", pc[w] # "wait",
             numActive' = numActive
      PROVE  ActiveInv'
  <2>1. pc'[w] = l /\ \A u \in Workers \ {w} : pc'[u] = pc[u]
    BY <1>a, GoesTo, Ids
  <2>2. QED BY <1>a, <2>1, SameActive
<1>b. ASSUME pc' = pc, numActive' = numActive PROVE ActiveInv'
  BY <1>b, SameActive
<1>1. CASE ScanNothing(w) \/ clear_stealing(w) \/ Sleep(w) \/ WakeUp(w)
  BY <1>1, ScanNothingActive, ClearStealingActive, SleepActive, WakeUpActive
<1>2. CASE PopEmpty(w)
  BY <1>2, <1>a DEF PopEmpty, Stealing
<1>3. CASE ScanQueue(w) \/ ScanMove(w)
  BY <1>3, <1>b DEF ScanQueue, ScanMove
<1>4. CASE ScanFound(w)
  BY <1>4, <1>a DEF ScanFound, Stealing
<1>5. CASE Steal(w)
  BY <1>5, <1>a DEF Steal, Stealing
<1>6. CASE StealNothing(w)
  BY <1>6, <1>a DEF StealNothing, Stealing
<1>7. CASE LockAndCheck(w)
  <2>1. pc[w] = "lock" /\ (Goto(w, "gone") \/ Goto(w, "locked")) /\ numActive' = numActive
    BY <1>7 DEF LockAndCheck
  <2>2. QED BY <2>1, <1>a DEF Stealing
<1>8. CASE TryToSleep(w)
  BY <1>8, <1>a DEF TryToSleep, Stealing
<1>9. CASE NoSleep(w)
  BY <1>9, <1>a DEF NoSleep, Stealing
<1>10. CASE Awake(w)
  BY <1>10, <1>a DEF Awake, Stealing
<1>11. CASE StartBulk(w)
  <2>1. pc[w] = "execute" /\ (Goto(w, "enqueue") \/ Goto(w, "complete")) /\ numActive' = numActive
    BY <1>11 DEF StartBulk
  <2>2. QED BY <2>1, <1>a DEF Stealing
<1>12. CASE EnqueueAgent(w)
  BY <1>12, <1>b DEF EnqueueAgent
<1>13. CASE Enqueued(w)
  BY <1>13, <1>a DEF Enqueued, Stealing
<1>14. CASE RunAgent(w)
  BY <1>14, <1>a DEF RunAgent, Stealing
<1>15. CASE FinishAgent(w)
  <2>1. pc[w] = "count" /\ (Goto(w, "complete") \/ Goto(w, "pop")) /\ numActive' = numActive
    BY <1>15 DEF FinishAgent
  <2>2. QED BY <2>1, <1>a DEF Stealing
<1>16. CASE CompleteBulk(w)
  BY <1>16, <1>a DEF CompleteBulk, Stealing
<1>17. QED
  BY <1>1, <1>2, <1>3, <1>4, <1>5, <1>6, <1>7, <1>8, <1>9, <1>10, <1>11, <1>12, <1>13, <1>14, <1>15,
     <1>16 DEF WorkerStep

LEMMA ActiveStep ==
  ASSUME TypeOK, Loops, ActiveInv, [Next]_vars
  PROVE  ActiveInv'
<1> USE DEF sleepVars
<1>a. ASSUME numActive' = numActive, NEW l, Goto(Main, l) PROVE ActiveInv'
  <2>1. \A w \in Workers : pc'[w] = pc[w]
    BY <1>a, GoesTo, Ids
  <2>2. QED BY <1>a, <2>1, SameActive
<1>b. ASSUME pc' = pc, numActive' = numActive PROVE ActiveInv'
  BY <1>b, SameActive
<1>1. ASSUME NEW w \in Workers, WorkerStep(w) PROVE ActiveInv'
  BY <1>1, WorkerActive
<1>2. ASSUME NEW t \in Threads, NotifyExchange(t) \/ NotifySignal(t) PROVE ActiveInv'
  BY <1>2, <1>b DEF NotifyExchange, NotifySignal
<1>3. CASE Spawn
  <2>1. CASE next[Main] = Parallelism
    <3>1. Goto(Main, "submit") /\ numActive' = numActive
      BY <1>3, <2>1, PoolAssumption DEF Spawn
    <3>2. QED BY <1>a, <3>1
  <2>2. CASE next[Main] # Parallelism
    <3>1. PICK n \in Workers : n = next[Main]
      <4>1. next[Main] \in 0 .. Parallelism /\ Parallelism \in Nat
        BY Ids, PoolAssumption DEF TypeOK
      <4>2. QED BY <2>2, <4>1 DEF Workers
    <3>2. pc[Main] = "spawn" /\ Goto(n, "pop") /\ numActive' = numActive
      BY <1>3, <2>2, <3>1 DEF Spawn
    <3>3. pc[n] = "unborn"
      BY <3>1, <3>2 DEF Loops, Workers
    <3>4. pc'[n] = "pop" /\ \A u \in Workers \ {n} : pc'[u] = pc[u]
      BY <3>2, GoesTo, Ids
    <3>5. QED BY <3>2, <3>3, <3>4, SameActive DEF Stealing
  <2>3. QED BY <2>1, <2>2
<1>4. CASE SpawnFails \/ SyncWaitReturns
  BY <1>4, <1>a DEF SpawnFails, SyncWaitReturns
<1>5. CASE Submit \/ StopSignal \/ Join
  BY <1>5, <1>a DEF Submit, StopSignal, Join
<1>6. CASE StopWorker
  <2>1. (Goto(Main, "stop signal") \/ Goto(Main, "join")) /\ numActive' = numActive
    BY <1>6 DEF StopWorker
  <2>2. QED BY <1>a, <2>1
<1>7. ASSUME NEW w \in Workers, SpuriousWakeup(w) PROVE ActiveInv'
  BY <1>7, <1>b DEF SpuriousWakeup
<1>8. CASE UNCHANGED vars
  BY <1>8, <1>b DEF vars
<1>9. QED
  BY <1>1, <1>2, <1>3, <1>4, <1>5, <1>6, <1>7, <1>8 DEF Next, ThreadStep, MainStep, Terminated

LEMMA InitActive == Init => ActiveInv
<1> SUFFICES ASSUME Init PROVE ActiveInv
  OBVIOUS
<1>1. Stealers = {} /\ Sleepers = {}
  <2>1. \A w \in Workers : pc[w] = "unborn"
    BY Ids DEF Init
  <2>2. QED BY <2>1 DEF Stealers, Sleepers, Stealing
<1>2. Cardinality({}) = 0
  BY FS_EmptySet
<1>3. Packed(0, 0) = Parallelism * Lo
  BY PoolAssumption DEF Packed
<1>4. QED BY <1>1, <1>2, <1>3 DEF Init, ActiveInv

\* numActive_ is exact, for any number of workers below 2^16: its halves count
\* the thieves and the workers that neither steal nor sleep, in every state.
THEOREM ActiveIsAlwaysExact == Spec => []ActiveIsExact
<1>1. Init => ActiveInv
  BY InitActive
<1>2. PoolInv /\ ActiveInv /\ [Next]_vars => ActiveInv'
  BY ActiveStep DEF PoolInv
<1>3. ActiveInv => ActiveIsExact
  <2> SUFFICES ASSUME ActiveInv PROVE ActiveIsExact
    OBVIOUS
  <2>1. Thieves = Cardinality(Stealers) /\ Victims = Parallelism - Cardinality(Stealers) - Cardinality(Sleepers)
    BY StateCounts, PackedIsWord DEF ActiveInv, Thieves, Victims
  <2>2. QED BY <2>1 DEF ActiveIsExact, Stealers, Sleepers, Stealing
<1>4. QED BY <1>1, <1>2, <1>3, PoolInvariant, PTL DEF Spec

=============================================================================
