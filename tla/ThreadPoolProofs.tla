--------------------------- MODULE ThreadPoolProofs ---------------------------
(***************************************************************************)
(* The pool for any number of workers and indices: proofs about EvenShare, *)
(* whose shares it runs, and ThreadPool.  The inductive invariant here     *)
(* says where the tasks are; PoolSleepProofs has those about the wakeups   *)
(* and numActive_.                                                         *)
(***************************************************************************)
EXTENDS ThreadPool, FiniteSetTheorems, SequenceTheorems, TLAPS
-----------------------------------------------------------------------------
(***************************************************************************)
(* The shares of a bulk's agents are a partition of its indices, for every *)
(* number of indices that fits the type and every number of agents.        *)
(***************************************************************************)
\* Division with remainder, as a bound and as an equation.
LEMMA DivMod ==
  ASSUME NEW n \in Nat, NEW d \in Nat \ {0}
  PROVE  /\ n \div d \in Nat
         /\ n % d \in 0 .. d - 1
         /\ n = (n \div d) * d + (n % d)
  OBVIOUS

LEMMA WrapSmall == ASSUME NEW x \in 0 .. M - 1 PROVE Wrap(x) = x
  BY WidthAssumption DEF Wrap

LEMMA MulMono ==
  ASSUME NEW a \in Nat, NEW x \in Nat, NEW y \in Nat, x <= y
  PROVE  a * x <= a * y
  OBVIOUS

LEMMA Quotient ==
  ASSUME NEW i \in Nat, NEW g \in Nat \ {0}
  PROVE  \E q \in Nat : q * g \in Nat /\ q * g <= i /\ i < q * g + g
<1>1. i \div g \in Nat /\ i % g \in 0 .. g - 1 /\ i = (i \div g) * g + (i % g)
  BY DivMod
<1>2. ASSUME NEW q \in Nat, NEW m \in 0 .. g - 1, i = q * g + m
      PROVE  q * g \in Nat /\ q * g <= i /\ i < q * g + g
  <2>1. q * g \in Nat
    OBVIOUS
  <2>2. QED BY <1>2, <2>1
<1>3. QED BY <1>1, <1>2

\* How many of the agents before rank r have a big share.
BigBefore(n, r, size) == IF r < big_shares(n, size) THEN r ELSE big_shares(n, size)

\* Where the share of rank r starts, without the case split and the wrapping.
Start(n, r, size) == avg_per_thread(n, size) * r + BigBefore(n, r, size)

LEMMA StartInRange ==
  ASSUME NEW n \in Nat, NEW size \in Nat \ {0}, NEW r \in 0 .. size
  PROVE  Start(n, r, size) \in 0 .. n
<1>1. PICK a \in Nat, b \in 0 .. size - 1 :
        a = avg_per_thread(n, size) /\ b = big_shares(n, size) /\ n = a * size + b
  BY DivMod DEF avg_per_thread, big_shares
<1>2. a * r \in Nat /\ a * r <= a * size
  BY <1>1, MulMono
<1>3. BigBefore(n, r, size) \in 0 .. b
  BY <1>1 DEF BigBefore
<1>4. QED BY <1>1, <1>2, <1>3 DEF Start

\* No intermediate value of the code wraps in a way that reaches the result.
LEMMA BeginIsStart ==
  ASSUME NEW n \in 0 .. M - 1, NEW size \in 1 .. M - 1, NEW r \in 0 .. size - 1
  PROVE  share_begin(n, r, size) = Start(n, r, size)
<1> USE WidthAssumption
<1>0. n \in Nat /\ size \in Nat \ {0} /\ r + 1 \in 0 .. size
  OBVIOUS
<1>1. PICK a \in Nat, b \in 0 .. size - 1 :
        a = avg_per_thread(n, size) /\ b = big_shares(n, size) /\ n = a * size + b
  BY <1>0, DivMod DEF avg_per_thread, big_shares
<1>2. Start(n, r, size) \in 0 .. M - 1
  BY <1>0, StartInRange
<1>3. CASE b = 0
  <2>1. n_big_share(n, size) \in Nat
    BY <1>1 DEF n_big_share, Wrap
  <2>2. share_begin(n, r, size) = Wrap(n_big_share(n, size) * 0 + r * a)
    BY <1>1, <1>3 DEF share_begin
  <2>3. n_big_share(n, size) * 0 + r * a = Start(n, r, size)
    BY <1>1, <1>3, <2>1 DEF Start, BigBefore
  <2>4. QED BY <1>1, <1>2, <2>2, <2>3, WrapSmall
<1>4. CASE b > 0
  <2>1. a * 2 <= a * size
    BY <1>1, <1>4, MulMono
  <2>2. a + 1 \in 0 .. M - 1
    BY <1>1, <1>4, <2>1
  <2>3. n_big_share(n, size) = a + 1
    BY <1>1, <2>2, WrapSmall DEF n_big_share
  <2>4. CASE r < b
    <3>1. share_begin(n, r, size) = Wrap((a + 1) * r)
      BY <1>1, <2>3, <2>4 DEF share_begin
    <3>2. (a + 1) * r = Start(n, r, size)
      BY <1>1, <2>4 DEF Start, BigBefore
    <3>3. QED BY <1>2, <3>1, <3>2, WrapSmall
  <2>5. CASE ~(r < b)
    <3>1. share_begin(n, r, size) = Wrap((a + 1) * b + (r - b) * a)
      BY <1>1, <2>3, <2>5 DEF share_begin
    <3>2. (a + 1) * b + (r - b) * a = Start(n, r, size)
      BY <1>1, <2>5 DEF Start, BigBefore
    <3>3. QED BY <1>2, <3>1, <3>2, WrapSmall
  <2>6. QED BY <2>4, <2>5
<1>5. QED BY <1>1, <1>3, <1>4

\* An agent's share ends where the next one's starts.
LEMMA EndIsNextStart ==
  ASSUME NEW n \in 0 .. M - 1, NEW size \in 1 .. M - 1, NEW r \in 0 .. size - 1
  PROVE  share_end(n, r, size) = Start(n, r + 1, size)
<1> USE WidthAssumption
<1>0. n \in Nat /\ size \in Nat \ {0} /\ r + 1 \in 0 .. size
  OBVIOUS
<1>1. PICK a \in Nat, b \in 0 .. size - 1 :
        a = avg_per_thread(n, size) /\ b = big_shares(n, size) /\ n = a * size + b
  BY <1>0, DivMod DEF avg_per_thread, big_shares
<1>2. Start(n, r + 1, size) \in 0 .. M - 1
  BY <1>0, StartInRange
<1>3. share_begin(n, r, size) = Start(n, r, size)
  BY BeginIsStart
<1>4. CASE r < b
  <2>1. a * 2 <= a * size
    BY <1>1, <1>4, MulMono
  <2>2. n_big_share(n, size) = a + 1
    BY <1>1, <1>4, <2>1, WrapSmall DEF n_big_share
  <2>3. share_end(n, r, size) = Wrap(Start(n, r, size) + (a + 1))
    BY <1>1, <1>3, <1>4, <2>2 DEF share_end
  <2>4. Start(n, r, size) + (a + 1) = Start(n, r + 1, size)
    BY <1>1, <1>4 DEF Start, BigBefore
  <2>5. QED BY <1>2, <2>3, <2>4, WrapSmall
<1>5. CASE ~(r < b)
  <2>1. share_end(n, r, size) = Wrap(Start(n, r, size) + a)
    BY <1>1, <1>3, <1>5 DEF share_end
  <2>2. Start(n, r, size) + a = Start(n, r + 1, size)
    BY <1>1, <1>5 DEF Start, BigBefore
  <2>3. QED BY <1>2, <2>1, <2>2, WrapSmall
<1>6. QED BY <1>4, <1>5

\* Shares of later agents lie after those of earlier agents.
LEMMA StartMono ==
  ASSUME NEW n \in Nat, NEW size \in Nat \ {0}, NEW r \in 0 .. size, NEW q \in 0 .. r
  PROVE  Start(n, q, size) <= Start(n, r, size)
<1>1. PICK a \in Nat, b \in 0 .. size - 1 :
        a = avg_per_thread(n, size) /\ b = big_shares(n, size)
  BY DivMod DEF avg_per_thread, big_shares
<1>2. a * q \in Nat /\ a * r \in Nat /\ a * q <= a * r
  BY <1>1, MulMono
<1>3. BigBefore(n, q, size) \in Nat /\ BigBefore(n, r, size) \in Nat
      /\ BigBefore(n, q, size) <= BigBefore(n, r, size)
  BY <1>1 DEF BigBefore
<1>4. QED BY <1>1, <1>2, <1>3 DEF Start

\* Some agent's share holds the index: among the big shares the quotient by
\* their size names it, after them the quotient of the rest by the small size.
LEMMA SomeShare ==
  ASSUME NEW n \in Nat, NEW size \in Nat \ {0}, NEW i \in 0 .. n - 1
  PROVE  \E r \in 0 .. size - 1 : Start(n, r, size) <= i /\ i < Start(n, r + 1, size)
<1>1. PICK a \in Nat, b \in 0 .. size - 1 :
        a = avg_per_thread(n, size) /\ b = big_shares(n, size) /\ n = a * size + b
  BY DivMod DEF avg_per_thread, big_shares
<1>2. CASE i < (a + 1) * b
  <2>0. i \in Nat /\ a + 1 \in Nat \ {0}
    OBVIOUS
  <2>1. PICK q \in Nat : q * (a + 1) \in Nat /\ q * (a + 1) <= i /\ i < q * (a + 1) + (a + 1)
    BY <2>0, Quotient
  <2>2. q < b
    <3>1. SUFFICES ASSUME b <= q PROVE FALSE
      OBVIOUS
    <3>2. (a + 1) * b <= (a + 1) * q
      BY <3>1, MulMono
    <3>3. (a + 1) * q = q * (a + 1) /\ (a + 1) * b \in Nat
      OBVIOUS
    <3>4. QED BY <1>2, <2>1, <3>2, <3>3
  <2>3. Start(n, q, size) = a * q + q /\ Start(n, q + 1, size) = a * (q + 1) + (q + 1)
    BY <1>1, <2>2 DEF Start, BigBefore
  <2>4. a * q + q = q * (a + 1) /\ a * (q + 1) + (q + 1) = q * (a + 1) + (a + 1)
    OBVIOUS
  <2>5. Start(n, q, size) <= i /\ i < Start(n, q + 1, size)
    BY <2>1, <2>3, <2>4
  <2>6. QED BY <2>2, <2>5
<1>3. CASE ~(i < (a + 1) * b)
  <2>0. (a + 1) * b \in Nat
    OBVIOUS
  <2>1. PICK d \in Nat : i = (a + 1) * b + d
    <3>1. i - (a + 1) * b \in Nat
      BY <1>3, <2>0
    <3>2. QED BY <2>0, <3>1
  <2>2. d < a * (size - b)
    <3>1. a * size + b = (a + 1) * b + a * (size - b) /\ a * (size - b) \in Nat
      OBVIOUS
    <3>2. n = (a + 1) * b + a * (size - b)
      BY <1>1, <3>1
    <3>3. (a + 1) * b + d < (a + 1) * b + a * (size - b)
      BY <2>1, <3>2
    <3>4. QED BY <2>0, <3>1, <3>3
  <2>3. a \in Nat \ {0}
    BY <2>2
  <2>4. PICK q \in Nat : q * a \in Nat /\ q * a <= d /\ d < q * a + a
    BY <2>3, Quotient
  <2>5. q < size - b
    <3>1. SUFFICES ASSUME size - b <= q PROVE FALSE
      OBVIOUS
    <3>2. size - b \in Nat /\ a * (size - b) \in Nat /\ a * (size - b) <= a * q
      BY <3>1, MulMono
    <3>3. a * q = q * a
      OBVIOUS
    <3>4. QED BY <2>2, <2>4, <3>2, <3>3
  <2>6. b + q \in 0 .. size - 1
    BY <2>5
  <2>7. /\ Start(n, b + q, size) = a * (b + q) + b
        /\ Start(n, b + q + 1, size) = a * (b + q + 1) + b
    BY <1>1, <2>6 DEF Start, BigBefore
  <2>8. /\ a * (b + q) + b = (a + 1) * b + q * a
        /\ a * (b + q + 1) + b = (a + 1) * b + (q * a + a)
    OBVIOUS
  <2>9. Start(n, b + q, size) <= i /\ i < Start(n, b + q + 1, size)
    BY <2>0, <2>1, <2>4, <2>7, <2>8
  <2>10. QED BY <2>6, <2>9
<1>4. QED BY <1>2, <1>3

\* even_share, static_thread_pool.hpp:55-78: whatever the number of indices and
\* of agents, each index is in the share of exactly one agent, so a bulk runs
\* it once if every rank below size runs its share once.
THEOREM EvenShareIsPartition ==
  ASSUME NEW n \in 0 .. M - 1, NEW size \in 1 .. M - 1, NEW i \in 0 .. n - 1
  PROVE  /\ \E r \in 0 .. size - 1 : i \in even_share(n, r, size)
         /\ \A q, r \in 0 .. size - 1 :
              i \in even_share(n, q, size) /\ i \in even_share(n, r, size) => q = r
<1> USE WidthAssumption
<1>0. n \in Nat /\ size \in Nat \ {0}
  OBVIOUS
<1>1. \A r \in 0 .. size - 1 :
        i \in even_share(n, r, size) <=> Start(n, r, size) <= i /\ i < Start(n, r + 1, size)
  BY BeginIsStart, EndIsNextStart DEF even_share
<1>2. \E r \in 0 .. size - 1 : i \in even_share(n, r, size)
  BY <1>0, <1>1, SomeShare
<1>3. ASSUME NEW q \in 0 .. size - 1, NEW r \in 0 .. size - 1, q < r,
             i \in even_share(n, q, size), i \in even_share(n, r, size)
      PROVE  FALSE
  <2>1. Start(n, q + 1, size) <= Start(n, r, size)
    BY <1>0, <1>3, StartMono
  <2>2. Start(n, q + 1, size) \in Nat /\ Start(n, r, size) \in Nat
    <3>1. q + 1 \in 0 .. size /\ r \in 0 .. size
      BY <1>0
    <3>2. QED BY <1>0, <3>1, StartInRange
  <2>3. QED BY <1>1, <1>3, <2>1, <2>2
<1>4. QED BY <1>2, <1>3
-----------------------------------------------------------------------------
(***************************************************************************)
(* Tasks.  A task is at one place at a time: in a remote queue of a worker, *)
(* fetched by it, in its deque, in the hands of a worker that is about to  *)
(* run it, or run and about to be counted.                                 *)
(***************************************************************************)
Agents == 0 .. num_agents_required - 1
Kinds  == {"remote", "fetched", "local", "held", "counting"}

Holding(w) == pc[w] \in {"stolen", "execute"}

At(id, k, t, w) ==
  \/ k = "remote"   /\ id \in remote[t][w]
  \/ k = "fetched"  /\ t = w /\ id \in fetched[w]
  \/ k = "local"    /\ t = w /\ id \in local[w]
  \/ k = "held"     /\ t = w /\ Holding(w) /\ task[w].id = id
  \/ k = "counting" /\ t = w /\ pc[w] = "count" /\ task[w].id = id

Queued(id) == \E k \in Kinds \ {"counting"}, t \in Threads, w \in Workers : At(id, k, t, w)
Alive(id)  == \E k \in Kinds, t \in Threads, w \in Workers : At(id, k, t, w)

Enqueued_(a) == \E w \in Workers : a < next[w]
Done    == {a \in Agents : Enqueued_(a) /\ ~Alive(a)}
Started == submitters # <<>> /\ ~Alive(Sched)
Over    == Started /\ Done = Agents

OnePlace ==
  \A id \in Tasks, k, l \in Kinds, t, u \in Threads, v, w \in Workers :
    At(id, k, t, v) /\ At(id, l, u, w) => k = l /\ t = u /\ v = w

\* An agent is only ever in the queues of the worker with its number, and
\* keeps the number when it is stolen.
Number(k, w) == IF k \in {"held", "counting"} THEN task[w].queue ELSE w

OwnQueue ==
  /\ \A a \in Agents, k \in Kinds, t \in Threads, w \in Workers :
       At(a, k, t, w) => Number(k, w) = a
  /\ \A w \in Workers : pc[w] = "count" => task[w].id # Sched

\* The schedule operation comes first, then one worker enqueues the agents.
Ordering ==
  /\ pc[Main] \in {"spawn", "submit"} => submitters = <<>>
  /\ submitters = <<>> => ~Alive(Sched)
  /\ ~Started => ~loopStop /\ \A w \in Workers : next[w] = 0 /\ pc[w] \notin {"enqueue", "complete"}
  /\ \A a \in Agents : Alive(a) => Enqueued_(a)

Enqueuing(w) == pc[w] = "enqueue" \/ next[w] > 0

OneEnqueuer ==
  /\ \A v, w \in Workers : Enqueuing(v) /\ Enqueuing(w) => v = w
  /\ \A w \in Workers : next[w] > 0 => pc[w] = "enqueue" \/ next[w] = num_agents_required

Completing ==
  /\ finished = Cardinality(Done)
  /\ \A w \in Workers : pc[w] = "complete" => Over /\ ~loopStop
  /\ \A v, w \in Workers : pc[v] = "complete" /\ pc[w] = "complete" => v = w
  /\ loopStop => Over
  /\ freed => loopStop

Ran(a) == Enqueued_(a) /\ ~Queued(a)

RunOnce ==
  \A i \in 0 .. shape - 1, a \in Agents :
    i \in even_share(shape, a, num_agents_required) => runs[i] = IF Ran(a) THEN 1 ELSE 0

TaskInv == OnePlace /\ OwnQueue /\ Ordering /\ OneEnqueuer /\ Completing /\ RunOnce

-----------------------------------------------------------------------------
\* Where the threads are.
Placed ==
  /\ pc \in [Threads -> WorkerPlaces \cup MainPlaces]
  /\ pc[Main] \in MainPlaces /\ \A w \in Workers : pc[w] \in WorkerPlaces

\* The loops of main: the constructor has not started the workers from next on,
\* and request_stop is never past the last worker when it signals.
Loops ==
  /\ pc[Main] = "spawn" => \A w \in Workers : w >= next[Main] => pc[w] = "unborn"
  /\ pc[Main] = "stop signal" => next[Main] \in Workers

(***************************************************************************)
(* Types.                                                                  *)
(***************************************************************************)
LEMMA Ids ==
  /\ Workers \subseteq Threads /\ Main \in Threads /\ Main \notin Workers /\ None \notin Workers
  /\ \A t \in Threads : t \in Workers \/ t = Main
  /\ Workers \subseteq 0 .. Parallelism /\ 0 \in Workers
  /\ Threads \subseteq Nat
BY PoolAssumption DEF Workers, Threads, Main, None

LEMMA Required ==
  shape \in Shapes =>
         /\ shape \in 0 .. M - 1 /\ num_agents_required \in 0 .. Parallelism
         /\ num_agents_required <= shape /\ Agents \subseteq Workers
         /\ Agents \subseteq Tasks /\ Sched \in Tasks /\ Sched \notin Agents
         /\ \A id \in Tasks : id = Sched \/ id \in Agents
         /\ shape # 0 => num_agents_required > 0
BY PoolAssumption, WidthAssumption DEF num_agents_required, Agents, Workers, Tasks, Sched

\* The size of the bulk never changes, nor what it determines.
LEMMA ShapeStays ==
  shape' = shape =>
    num_agents_required' = num_agents_required /\ Tasks' = Tasks /\ Agents' = Agents
BY DEF num_agents_required, Tasks, Agents

LEMMA Word == ASSUME NEW x \in Int PROVE U32(x) \in 0 .. Lo * Lo - 1
<1>1. Lo * Lo \in Nat \ {0}
  BY PoolAssumption
<1>2. ASSUME NEW n \in Nat \ {0} PROVE x % n \in 0 .. n - 1
  OBVIOUS
<1>3. QED BY <1>1, <1>2 DEF U32

\* A rotation names workers.
LEMMA RotationOf ==
  ASSUME NEW w \in Workers, NEW start \in Workers
  PROVE  Rotation(w, start) \in Seq(Workers)
<1> DEFINE before == (w - start) % Parallelism
           r(i) == (start + (IF i <= before THEN i - 1 ELSE i)) % Parallelism
<1>1. Parallelism \in Nat \ {0} /\ w - start \in Int
  BY PoolAssumption DEF Workers
<1>2. before \in Int
  BY <1>1
<1>3. ASSUME NEW i \in 1 .. Parallelism - 1 PROVE r(i) \in Workers
  <2>1. start + (IF i <= before THEN i - 1 ELSE i) \in Nat
    BY <1>1, <1>2 DEF Workers
  <2>2. QED BY <1>1, <2>1 DEF Workers
<1>4. [i \in 1 .. Parallelism - 1 |-> r(i)] \in Seq(Workers)
  BY <1>1, <1>3
<1>5. QED BY <1>4 DEF Rotation

LEMMA WorkerGoes ==
  ASSUME Placed, NEW w \in Workers, NEW l \in WorkerPlaces, Goto(w, l) PROVE Placed'
BY Ids DEF Placed, Goto

LEMMA MainGoes ==
  ASSUME Placed, NEW l \in MainPlaces, Goto(Main, l) PROVE Placed'
BY Ids DEF Placed, Goto

LEMMA OneMore ==
  ASSUME NEW p \in Nat, NEW m \in 0 .. p, NEW n \in 0 .. m - 1
  PROVE  n + 1 \in 0 .. p /\ n + 1 <= m
OBVIOUS

\* Every step keeps the types, provided an agent is counted once.
LEMMA TypeStep ==
  ASSUME TypeOK, Loops, [Next]_vars, finished' \in 0 .. num_agents_required
  PROVE  TypeOK'
<1> USE Ids, Required
<1> USE DEF queueVars, sleepVars, notifyVars, bulkVars
<1>a. Placed
  BY DEF TypeOK, Placed
<1>state. state \in [Workers -> {"running", "sleeping", "notified"}]
  BY DEF TypeOK
<1>ring. ring \in [Threads -> Seq(Workers)]
  BY DEF TypeOK
<1>signal. signal \in [Threads -> Workers \cup {None}]
  BY DEF TypeOK
<1>fetched. fetched \in [Workers -> SUBSET Tasks]
  BY DEF TypeOK
<1>local. local \in [Workers -> SUBSET Tasks]
  BY DEF TypeOK
<1>remote. remote \in [Threads -> [Workers -> SUBSET Tasks]]
  BY DEF TypeOK
<1>scan. scan \in [Workers -> Seq(Threads)]
  BY DEF TypeOK
<1>submitters. submitters \in Seq(Threads)
  BY DEF TypeOK
<1>task. task \in [Workers -> [id : Tasks, queue : Workers]]
  BY DEF TypeOK
<1>numActive. numActive \in 0 .. Lo * Lo - 1
  BY DEF TypeOK
<1>waiting. waiting \in [Workers -> {"no", "waiting", "woken"}]
  BY DEF TypeOK
<1>stopRequested. stopRequested \in [Workers -> BOOLEAN]
  BY DEF TypeOK
<1>next. next \in [Threads -> 0 .. Parallelism] /\ \A v \in Workers : next[v] <= num_agents_required
  BY DEF TypeOK
<1>runs. runs \in [0 .. shape - 1 -> Nat]
  BY DEF TypeOK
<1>1. ASSUME NEW t \in Threads, NotifyExchange(t) PROVE TypeOK'
  <2>1. state' \in [Workers -> {"running", "sleeping", "notified"}]
    BY <1>1, <1>state, <1>ring, <1>signal DEF NotifyExchange
  <2>2. ring' \in [Threads -> Seq(Workers)]
    <3>1. ring[t] \in Seq(Workers) /\ ring[t] # <<>>
      BY <1>1, <1>ring DEF NotifyExchange
    <3>2. <<>> \in Seq(Workers) /\ Tail(ring[t]) \in Seq(Workers)
      BY <3>1, HeadTailProperties
    <3>3. ring' = [ring EXCEPT ![t] = <<>>] \/ ring' = [ring EXCEPT ![t] = Tail(ring[t])]
      BY <1>1 DEF NotifyExchange
    <3>4. QED BY <3>2, <3>3, <1>ring
  <2>3. signal' \in [Threads -> Workers \cup {None}]
    <3>1. ring[t] \in Seq(Workers) /\ ring[t] # <<>>
      BY <1>1, <1>ring DEF NotifyExchange
    <3>2. Head(ring[t]) \in Workers
      BY <3>1, HeadTailProperties
    <3>3. signal' = signal \/ signal' = [signal EXCEPT ![t] = Head(ring[t])]
      BY <1>1 DEF NotifyExchange
    <3>4. QED BY <3>2, <3>3, <1>signal
  <2>. QED
    BY <1>1, <2>1, <2>2, <2>3 DEF TypeOK, Placed, NotifyExchange, Tasks, num_agents_required
<1>2. ASSUME NEW t \in Threads, NotifySignal(t) PROVE TypeOK'
  BY <1>2 DEF Goto, WorkerPlaces, MainPlaces, Tasks, num_agents_required, Agents, TypeOK, Woken, NotifySignal
<1>3. ASSUME NEW w \in Workers, PopEmpty(w) PROVE TypeOK'
  <2>1. Placed'
    BY <1>3, <1>a, WorkerGoes DEF WorkerPlaces, PopEmpty
  <2>. QED
    BY <1>3, <2>1 DEF TypeOK, Placed, PopEmpty, Tasks, num_agents_required
<1>4. ASSUME NEW w \in Workers, ScanQueue(w) PROVE TypeOK'
  <2>1. fetched' \in [Workers -> SUBSET Tasks]
    <3>1. scan[w] \in Seq(Threads) /\ scan[w] # <<>>
      BY <1>4, <1>scan DEF ScanQueue
    <3>2. Head(scan[w]) \in Threads
      BY <3>1, HeadTailProperties
    <3>3. fetched' = [fetched EXCEPT ![w] = fetched[w] \cup remote[Head(scan[w])][w]]
      BY <1>4 DEF ScanQueue
    <3>4. remote[Head(scan[w])][w] \in SUBSET Tasks
      BY <3>2, <1>remote
    <3>5. QED BY <3>3, <3>4, <1>fetched
  <2>2. remote' \in [Threads -> [Workers -> SUBSET Tasks]]
    BY <1>4, <1>fetched, <1>remote, <1>scan DEF ScanQueue
  <2>3. scan' \in [Workers -> Seq(Threads)]
    <3>1. scan[w] \in Seq(Threads) /\ scan[w] # <<>>
      BY <1>4, <1>scan DEF ScanQueue
    <3>2. Tail(scan[w]) \in Seq(Threads)
      BY <3>1, HeadTailProperties
    <3>3. scan' = [scan EXCEPT ![w] = Tail(scan[w])]
      BY <1>4 DEF ScanQueue
    <3>4. QED BY <3>2, <3>3, <1>scan
  <2>. QED
    BY <1>4, <2>1, <2>2, <2>3 DEF TypeOK, Placed, ScanQueue, Tasks, num_agents_required
<1>5. ASSUME NEW w \in Workers, ScanMove(w) PROVE TypeOK'
  BY <1>5 DEF Goto, WorkerPlaces, MainPlaces, Tasks, num_agents_required, Agents, TypeOK, ScanMove
<1>6. ASSUME NEW w \in Workers, ScanFound(w) PROVE TypeOK'
  <2>1. local' \in [Workers -> SUBSET Tasks]
    <3>1. PICK id \in local[w] : local' = [local EXCEPT ![w] = local[w] \ {id}]
      BY <1>6 DEF ScanFound
    <3>2. QED BY <3>1, <1>local
  <2>2. task' \in [Workers -> [id : Tasks, queue : Workers]]
    <3>1. PICK id \in local[w] : task' = [task EXCEPT ![w] = [id |-> id, queue |-> w]]
      BY <1>6 DEF ScanFound
    <3>2. id \in Tasks
      BY <1>local
    <3>3. QED BY <3>1, <3>2, <1>task
  <2>3. Placed'
    BY <1>6, <1>a, MainGoes, WorkerGoes DEF WorkerPlaces, MainPlaces, ScanFound
  <2>. QED
    BY <1>6, <2>1, <2>2, <2>3 DEF TypeOK, Placed, ScanFound, Tasks, num_agents_required
<1>7. ASSUME NEW w \in Workers, ScanNothing(w) PROVE TypeOK'
  <2>1. numActive' \in 0 .. Lo * Lo - 1
    <3>1. numActive' = U32(numActive + 1 - Lo)
      BY <1>7 DEF ScanNothing
    <3>2. numActive + 1 - Lo \in Int
      BY <1>numActive, PoolAssumption
    <3>3. QED BY <3>1, <3>2, Word
  <2>2. Placed'
    BY <1>7, <1>a, MainGoes, WorkerGoes DEF WorkerPlaces, MainPlaces, ScanNothing
  <2>. QED
    BY <1>7, <2>1, <2>2 DEF TypeOK, Placed, ScanNothing, Tasks, num_agents_required
<1>8. ASSUME NEW w \in Workers, Steal(w) PROVE TypeOK'
  <2>1. local' \in [Workers -> SUBSET Tasks]
    <3>1. PICK v \in Workers : \E id \in local[v] : local' = [local EXCEPT ![v] = local[v] \ {id}]
      BY <1>8 DEF Steal
    <3>2. QED BY <3>1, <1>local
  <2>2. task' \in [Workers -> [id : Tasks, queue : Workers]]
    <3>1. PICK v \in Workers : \E id \in local[v] : task' = [task EXCEPT ![w] = [id |-> id, queue |-> v]]
      BY <1>8 DEF Steal
    <3>2. local[v] \subseteq Tasks
      BY <1>local
    <3>3. QED BY <3>1, <3>2, <1>task
  <2>3. Placed'
    BY <1>8, <1>a, MainGoes, WorkerGoes DEF WorkerPlaces, MainPlaces, Steal
  <2>. QED
    BY <1>8, <2>1, <2>2, <2>3 DEF TypeOK, Placed, Steal, Tasks, num_agents_required
<1>9. ASSUME NEW w \in Workers, StealNothing(w) PROVE TypeOK'
  <2>1. Placed'
    BY <1>9, <1>a, WorkerGoes DEF WorkerPlaces, StealNothing
  <2>. QED
    BY <1>9, <2>1 DEF TypeOK, Placed, StealNothing, Tasks, num_agents_required
<1>10. ASSUME NEW w \in Workers, clear_stealing(w) PROVE TypeOK'
  <2>1. numActive' \in 0 .. Lo * Lo - 1
    <3>1. numActive' = U32(numActive + Lo - 1)
      BY <1>10 DEF clear_stealing
    <3>2. numActive + Lo - 1 \in Int
      BY <1>numActive, PoolAssumption
    <3>3. QED BY <3>1, <3>2, Word
  <2>2. ring' \in [Threads -> Seq(Workers)]
    <3>1. ring' = ring \/ \E start \in Workers : ring' = [ring EXCEPT ![w] = Rotation(w, start)]
      BY <1>10 DEF clear_stealing, NotifyOneSleeping
    <3>2. QED BY <3>1, <1>ring, RotationOf
  <2>3. Placed'
    BY <1>10, <1>a, MainGoes, WorkerGoes DEF WorkerPlaces, MainPlaces, clear_stealing
  <2>. QED
    BY <1>10, <2>1, <2>2, <2>3 DEF TypeOK, Placed, NotifyOneSleeping, clear_stealing, Tasks, num_agents_required
<1>11. ASSUME NEW w \in Workers, LockAndCheck(w) PROVE TypeOK'
  <2>1. Placed'
    BY <1>11, <1>a, WorkerGoes DEF WorkerPlaces, LockAndCheck
  <2>. QED
    BY <1>11, <2>1 DEF TypeOK, Placed, LockAndCheck, Tasks, num_agents_required
<1>12. ASSUME NEW w \in Workers, TryToSleep(w) PROVE TypeOK'
  <2>1. Placed'
    BY <1>12, <1>a, WorkerGoes DEF WorkerPlaces, TryToSleep
  <2>. QED
    BY <1>12, <2>1 DEF TypeOK, Placed, TryToSleep, Tasks, num_agents_required
<1>13. ASSUME NEW w \in Workers, NoSleep(w) PROVE TypeOK'
  <2>1. Placed'
    BY <1>13, <1>a, WorkerGoes DEF WorkerPlaces, NoSleep
  <2>. QED
    BY <1>13, <2>1 DEF TypeOK, Placed, NoSleep, Tasks, num_agents_required
<1>14. ASSUME NEW w \in Workers, Sleep(w) PROVE TypeOK'
  <2>1. numActive' \in 0 .. Lo * Lo - 1
    <3>1. numActive' = U32(numActive - Lo)
      BY <1>14 DEF Sleep
    <3>2. numActive - Lo \in Int
      BY <1>numActive, PoolAssumption
    <3>3. QED BY <3>1, <3>2, Word
  <2>2. waiting' \in [Workers -> {"no", "waiting", "woken"}]
    BY <1>14, <1>fetched, <1>local, <1>scan, <1>numActive, <1>waiting DEF Sleep
  <2>3. Placed'
    BY <1>14, <1>a, MainGoes, WorkerGoes DEF WorkerPlaces, MainPlaces, Sleep
  <2>. QED
    BY <1>14, <2>1, <2>2, <2>3 DEF TypeOK, Placed, Sleep, Tasks, num_agents_required
<1>15. ASSUME NEW w \in Workers, WakeUp(w) PROVE TypeOK'
  <2>1. numActive' \in 0 .. Lo * Lo - 1
    <3>1. numActive' = U32(numActive + Lo)
      BY <1>15 DEF WakeUp
    <3>2. numActive + Lo \in Int
      BY <1>numActive, PoolAssumption
    <3>3. QED BY <3>1, <3>2, Word
  <2>2. waiting' \in [Workers -> {"no", "waiting", "woken"}]
    BY <1>15, <1>ring, <1>numActive, <1>waiting DEF NotifyOneSleeping, WakeUp
  <2>3. ring' \in [Threads -> Seq(Workers)]
    <3>1. ring' = ring \/ \E start \in Workers : ring' = [ring EXCEPT ![w] = Rotation(w, start)]
      BY <1>15 DEF WakeUp, NotifyOneSleeping
    <3>2. QED BY <3>1, <1>ring, RotationOf
  <2>4. Placed'
    BY <1>15, <1>a, MainGoes, WorkerGoes DEF WorkerPlaces, MainPlaces, WakeUp
  <2>. QED
    BY <1>15, <2>1, <2>2, <2>3, <2>4 DEF TypeOK, Placed, NotifyOneSleeping, WakeUp, Tasks, num_agents_required
<1>16. ASSUME NEW w \in Workers, Awake(w) PROVE TypeOK'
  <2>1. Placed'
    BY <1>16, <1>a, WorkerGoes DEF WorkerPlaces, Awake
  <2>. QED
    BY <1>16, <2>1 DEF TypeOK, Placed, Awake, Tasks, num_agents_required
<1>17. ASSUME NEW w \in Workers, StartBulk(w) PROVE TypeOK'
  <2>1. submitters' \in Seq(Threads)
    <3>1. submitters' = submitters \/ submitters' = <<w>> \o submitters
      BY <1>17 DEF StartBulk
    <3>2. <<w>> \o submitters \in Seq(Threads)
      BY <1>submitters
    <3>3. QED BY <3>1, <3>2, <1>submitters
  <2>2. next' \in [Threads -> 0 .. Parallelism] /\ \A v \in Workers : next'[v] <= num_agents_required
    <3>1. next' = next \/ next' = [next EXCEPT ![w] = 0]
      BY <1>17 DEF StartBulk
    <3>2. num_agents_required \in 0 .. Parallelism
      BY DEF TypeOK
    <3>3. QED BY <3>1, <3>2, <1>next
  <2>3. Placed'
    BY <1>17, <1>a, MainGoes, WorkerGoes DEF WorkerPlaces, MainPlaces, StartBulk
  <2>. QED
    BY <1>17, <2>1, <2>2, <2>3 DEF TypeOK, Placed, StartBulk, Tasks, num_agents_required
<1>18. ASSUME NEW w \in Workers, EnqueueAgent(w) PROVE TypeOK'
  <2>1. remote' \in [Threads -> [Workers -> SUBSET Tasks]]
    <3>1. next[w] \in 0 .. num_agents_required - 1
      BY <1>18, <1>next DEF EnqueueAgent, TypeOK
    <3>2. next[w] \in Agents /\ next[w] \in Tasks /\ next[w] \in Workers
      BY <3>1 DEF Agents, TypeOK
    <3>3. next[w] % Parallelism = next[w]
      BY <3>2, PoolAssumption DEF Workers
    <3>4. remote' = [remote EXCEPT ![w][next[w]] = remote[w][next[w]] \cup {next[w]}]
      BY <1>18, <3>3 DEF EnqueueAgent
    <3>5. QED BY <3>2, <3>4, <1>remote
  <2>2. ring' \in [Threads -> Seq(Workers)]
    <3>1. next[w] % Parallelism \in Workers
      BY <1>next, PoolAssumption DEF Workers
    <3>2. ring' = [ring EXCEPT ![w] = <<next[w] % Parallelism>>]
      BY <1>18 DEF EnqueueAgent
    <3>3. <<next[w] % Parallelism>> \in Seq(Workers)
      BY <3>1
    <3>4. QED BY <3>2, <3>3, <1>ring
  <2>3. next' \in [Threads -> 0 .. Parallelism] /\ \A v \in Workers : next'[v] <= num_agents_required
    <3>1. next[w] \in 0 .. num_agents_required - 1 /\ num_agents_required \in 0 .. Parallelism
      BY <1>18, <1>next DEF EnqueueAgent, TypeOK
    <3>2. next' = [next EXCEPT ![w] = next[w] + 1]
      BY <1>18 DEF EnqueueAgent
    <3>3. next[w] + 1 \in 0 .. Parallelism /\ next[w] + 1 <= num_agents_required
      BY <3>1, OneMore, PoolAssumption
    <3>4. QED BY <3>2, <3>3, <1>next
  <2>. QED
    BY <1>18, <2>1, <2>2, <2>3 DEF TypeOK, Placed, EnqueueAgent, Tasks, num_agents_required
<1>19. ASSUME NEW w \in Workers, Enqueued(w) PROVE TypeOK'
  <2>1. Placed'
    BY <1>19, <1>a, WorkerGoes DEF WorkerPlaces, Enqueued
  <2>. QED
    BY <1>19, <2>1 DEF TypeOK, Placed, Enqueued, Tasks, num_agents_required
<1>20. ASSUME NEW w \in Workers, RunAgent(w) PROVE TypeOK'
  <2>1. runs' \in [0 .. shape - 1 -> Nat]
    BY <1>20, <1>task, <1>runs DEF RunAgent
  <2>2. Placed'
    BY <1>20, <1>a, MainGoes, WorkerGoes DEF WorkerPlaces, MainPlaces, RunAgent
  <2>. QED
    BY <1>20, <2>1, <2>2 DEF TypeOK, Placed, RunAgent, Tasks, num_agents_required
<1>21. ASSUME NEW w \in Workers, FinishAgent(w) PROVE TypeOK'
  <2>1. Placed'
    BY <1>21, <1>a, WorkerGoes DEF WorkerPlaces, FinishAgent
  <2>. QED
    BY <1>21, <2>1 DEF TypeOK, Placed, FinishAgent, Tasks, num_agents_required
<1>22. ASSUME NEW w \in Workers, CompleteBulk(w) PROVE TypeOK'
  <2>1. Placed'
    BY <1>22, <1>a, WorkerGoes DEF WorkerPlaces, CompleteBulk
  <2>. QED
    BY <1>22, <2>1 DEF TypeOK, Placed, CompleteBulk, Tasks, num_agents_required
<1>23. ASSUME NEW w \in Workers, SpuriousWakeup(w) PROVE TypeOK'
  BY <1>23 DEF Goto, WorkerPlaces, MainPlaces, Tasks, num_agents_required, Agents, TypeOK, Woken, SpuriousWakeup
<1>24. CASE Spawn
  <2>1. next' \in [Threads -> 0 .. Parallelism] /\ \A v \in Workers : next'[v] <= num_agents_required
    <3>1. CASE next' = next
      BY <3>1, <1>next
    <3>2. CASE next[Main] < Parallelism /\ next' = [next EXCEPT ![Main] = next[Main] + 1]
      <4>1. next[Main] \in 0 .. Parallelism - 1
        BY <3>2, <1>next, PoolAssumption
      <4>2. next[Main] + 1 \in 0 .. Parallelism
        BY <4>1, OneMore, PoolAssumption
      <4>3. QED BY <3>2, <4>2, <1>next
    <3>3. QED BY <1>24, <3>1, <3>2 DEF Spawn
  <2>2. Placed'
    <3>1. CASE Goto(Main, "submit")
      BY <3>1, <1>a, MainGoes DEF MainPlaces
    <3>2. CASE next[Main] < Parallelism /\ Goto(next[Main], "pop")
      <4>1. next[Main] \in Workers
        BY <3>2, <1>next, PoolAssumption DEF Workers
      <4>2. QED BY <3>2, <4>1, <1>a, WorkerGoes DEF WorkerPlaces
    <3>3. QED BY <1>24, <3>1, <3>2 DEF Spawn
  <2>. QED
    BY <1>24, <2>1, <2>2 DEF TypeOK, Placed, Spawn, Tasks, num_agents_required
<1>25. CASE SpawnFails
  <2>1. next' \in [Threads -> 0 .. Parallelism] /\ \A v \in Workers : next'[v] <= num_agents_required
    BY <1>25, <1>next, PoolAssumption DEF SpawnFails
  <2>2. Placed'
    BY <1>25, <1>a, MainGoes, WorkerGoes DEF WorkerPlaces, MainPlaces, SpawnFails
  <2>. QED
    BY <1>25, <2>1, <2>2 DEF TypeOK, Placed, SpawnFails, Tasks, num_agents_required
<1>26. CASE Submit
  <2>1. submitters' \in Seq(Threads)
    BY <1>26, <1>ring, <1>remote, <1>submitters DEF Submit
  <2>2. remote' \in [Threads -> [Workers -> SUBSET Tasks]]
    <3>1. PICK r \in Workers : remote' = [remote EXCEPT ![Main][r] = remote[Main][r] \cup {Sched}]
      BY <1>26 DEF Submit
    <3>2. Sched \in Tasks
      BY DEF TypeOK
    <3>3. QED BY <3>1, <3>2, <1>remote
  <2>3. ring' \in [Threads -> Seq(Workers)]
    <3>1. PICK r \in Workers : ring' = [ring EXCEPT ![Main] = <<r>>]
      BY <1>26 DEF Submit
    <3>2. <<r>> \in Seq(Workers)
      OBVIOUS
    <3>3. QED BY <3>1, <3>2, <1>ring
  <2>4. Placed'
    BY <1>26, <1>a, MainGoes, WorkerGoes DEF WorkerPlaces, MainPlaces, Submit
  <2>. QED
    BY <1>26, <2>1, <2>2, <2>3, <2>4 DEF TypeOK, Placed, Submit, Tasks, num_agents_required
<1>27. CASE SyncWaitReturns
  <2>1. next' \in [Threads -> 0 .. Parallelism] /\ \A v \in Workers : next'[v] <= num_agents_required
    BY <1>27, <1>next, PoolAssumption DEF SyncWaitReturns
  <2>2. Placed'
    BY <1>27, <1>a, MainGoes, WorkerGoes DEF WorkerPlaces, MainPlaces, SyncWaitReturns
  <2>. QED
    BY <1>27, <2>1, <2>2 DEF TypeOK, Placed, SyncWaitReturns, Tasks, num_agents_required
<1>28. CASE StopWorker
  <2>1. stopRequested' \in [Workers -> BOOLEAN]
    BY <1>28, <1>signal, <1>stopRequested, <1>next DEF StopWorker
  <2>2. Placed'
    BY <1>28, <1>a, MainGoes, WorkerGoes DEF WorkerPlaces, MainPlaces, StopWorker
  <2>. QED
    BY <1>28, <2>1, <2>2 DEF TypeOK, Placed, StopWorker, Tasks, num_agents_required
<1>29. CASE StopSignal
  <2>1. waiting' \in [Workers -> {"no", "waiting", "woken"}]
    BY <1>29, <1>signal, <1>waiting, <1>next DEF Woken, StopSignal
  <2>2. next' \in [Threads -> 0 .. Parallelism] /\ \A v \in Workers : next'[v] <= num_agents_required
    <3>1. next' = [next EXCEPT ![Main] = next[Main] + 1]
      BY <1>29 DEF StopSignal
    <3>2. next[Main] \in Workers
      BY <1>29 DEF StopSignal, Loops
    <3>3. next[Main] + 1 \in 0 .. Parallelism
      BY <3>2, OneMore, PoolAssumption DEF Workers
    <3>4. QED BY <3>1, <3>3, <1>next
  <2>3. Placed'
    BY <1>29, <1>a, MainGoes, WorkerGoes DEF WorkerPlaces, MainPlaces, StopSignal
  <2>. QED
    BY <1>29, <2>1, <2>2, <2>3 DEF TypeOK, Placed, Woken, StopSignal, Tasks, num_agents_required
<1>30. CASE Join
  <2>1. Placed'
    BY <1>30, <1>a, MainGoes, WorkerGoes DEF WorkerPlaces, MainPlaces, Join
  <2>. QED
    BY <1>30, <2>1 DEF TypeOK, Placed, Join, Tasks, num_agents_required
<1>31. CASE UNCHANGED vars
  BY <1>31 DEF Goto, WorkerPlaces, MainPlaces, Tasks, num_agents_required, Agents, TypeOK, vars
<1>. QED
  BY <1>1, <1>2, <1>3, <1>4, <1>5, <1>6, <1>7, <1>8, <1>9, <1>10, <1>11, <1>12, <1>13, <1>14, <1>15, <1>16, <1>17, <1>18, <1>19, <1>20, <1>21, <1>22, <1>23, <1>24, <1>25, <1>26, <1>27, <1>28, <1>29, <1>30, <1>31 DEF Next, ThreadStep, WorkerStep, MainStep, Terminated
\* A thread goes to one place, the others stay where they are.
LEMMA GoesTo ==
  ASSUME TypeOK, NEW t \in Threads, NEW l, Goto(t, l)
  PROVE  pc'[t] = l /\ \A u \in Threads \ {t} : pc'[u] = pc[u]
<1>1. pc \in [Threads -> WorkerPlaces \cup MainPlaces]
  BY DEF TypeOK
<1>2. QED BY <1>1 DEF Goto

\* A step of a worker leaves main and the workers not yet started where they are.
LEMMA OwnStep ==
  ASSUME TypeOK, NEW w \in Workers, WorkerStep(w)
  PROVE  /\ pc[w] # "unborn" /\ pc'[Main] = pc[Main] /\ next'[Main] = next[Main]
         /\ \A v \in Workers \ {w} : pc'[v] = pc[v]
<1>1. pc[w] # "unborn"
  BY DEF WorkerStep, PopEmpty, ScanQueue, ScanMove, ScanFound, ScanNothing, Steal, StealNothing, clear_stealing, LockAndCheck, TryToSleep, NoSleep, Sleep, WakeUp, Awake, StartBulk, EnqueueAgent, Enqueued, RunAgent, FinishAgent, CompleteBulk
<1>2. pc' = pc \/ \E l : Goto(w, l)
  BY DEF WorkerStep, PopEmpty, ScanQueue, ScanMove, ScanFound, ScanNothing, Steal, StealNothing, clear_stealing, LockAndCheck, TryToSleep, NoSleep, Sleep, WakeUp, Awake, StartBulk, EnqueueAgent, Enqueued, RunAgent, FinishAgent, CompleteBulk
<1>3. pc'[Main] = pc[Main] /\ \A v \in Workers \ {w} : pc'[v] = pc[v]
  BY <1>2, GoesTo, Ids
<1>4. next'[Main] = next[Main]
  <2>1. next \in [Threads -> 0 .. Parallelism]
    BY DEF TypeOK
  <2>2. next' = next \/ \E n : next' = [next EXCEPT ![w] = n]
    BY DEF WorkerStep, PopEmpty, ScanQueue, ScanMove, ScanFound, ScanNothing, Steal, StealNothing, clear_stealing, LockAndCheck, TryToSleep, NoSleep, Sleep, WakeUp, Awake, StartBulk, EnqueueAgent, Enqueued, RunAgent, FinishAgent, CompleteBulk
  <2>3. QED BY <2>1, <2>2, Ids
<1>5. QED BY <1>1, <1>3, <1>4

LEMMA LoopsStep ==
  ASSUME TypeOK, Loops, [Next]_vars
  PROVE  Loops'
<1> USE DEF queueVars, sleepVars, notifyVars, bulkVars
<1>a. pc \in [Threads -> WorkerPlaces \cup MainPlaces] /\ next \in [Threads -> 0 .. Parallelism]
  BY DEF TypeOK
<1>1. ASSUME NEW w \in Workers, WorkerStep(w) PROVE Loops'
  BY <1>1, OwnStep DEF Loops
<1>2. ASSUME NEW t \in Threads, NotifyExchange(t) PROVE Loops'
  BY <1>2 DEF NotifyExchange, Loops
<1>3. ASSUME NEW t \in Threads, NotifySignal(t) PROVE Loops'
  BY <1>3 DEF NotifySignal, Loops
<1>4. ASSUME NEW w \in Workers, SpuriousWakeup(w) PROVE Loops'
  BY <1>4 DEF SpuriousWakeup, Loops
<1>5. CASE UNCHANGED vars
  BY <1>5 DEF vars, Loops
<1>6. CASE SpawnFails
  BY <1>6, <1>a, Ids DEF SpawnFails, Loops, Goto
<1>7. CASE Submit
  BY <1>7, <1>a, Ids DEF Submit, Loops, Goto
<1>8. CASE SyncWaitReturns
  BY <1>8, <1>a, Ids DEF SyncWaitReturns, Loops, Goto
<1>9. CASE StopSignal
  BY <1>9, <1>a, Ids DEF StopSignal, Loops, Goto
<1>10. CASE Join
  BY <1>10, <1>a, Ids DEF Join, Loops, Goto
<1>11. CASE StopWorker
  <2>1. pc'[Main] = "join" \/ next[Main] < Parallelism
    BY <1>11, <1>a, Ids DEF StopWorker, Goto
  <2>2. next[Main] < Parallelism => next[Main] \in Workers
    BY <1>a, Ids, PoolAssumption DEF Workers
  <2>3. QED BY <1>11, <2>1, <2>2, <1>a, Ids DEF StopWorker, Goto, Loops
<1>12. CASE Spawn
  <2>1. CASE Goto(Main, "submit")
    <3>1. pc'[Main] = "submit"
      BY <2>1, GoesTo, Ids
    <3>2. QED BY <3>1 DEF Loops
  <2>2. CASE next[Main] < Parallelism /\ next' = [next EXCEPT ![Main] = next[Main] + 1] /\ Goto(next[Main], "pop")
    <3>1. next[Main] \in Workers
      BY <2>2, <1>a, Ids, PoolAssumption DEF Workers
    <3>2. pc'[Main] = "spawn" /\ \A v \in Workers \ {next[Main]} : pc'[v] = pc[v]
      BY <1>12, <2>2, <3>1, GoesTo, Ids DEF Spawn
    <3>3. next'[Main] = next[Main] + 1
      BY <2>2, <1>a, Ids
    <3>4. \A v \in Workers : v >= next[Main] + 1 => v >= next[Main] /\ v # next[Main]
      BY <3>1 DEF Workers
    <3>5. QED BY <1>12, <3>2, <3>3, <3>4 DEF Spawn, Loops
  <2>3. QED BY <1>12, <2>1, <2>2 DEF Spawn
<1>. QED
  BY <1>1, <1>2, <1>3, <1>4, <1>5, <1>6, <1>7, <1>8, <1>9, <1>10, <1>11, <1>12 DEF Next, ThreadStep, MainStep, Terminated

-----------------------------------------------------------------------------
(***************************************************************************)
(* Where the tasks are: a task stays, moves, comes or goes.                *)
(***************************************************************************)
\* What a step does to the places: the tasks S move from one to another, x
\* comes to one, x goes from one.
Moved(S, k0, t0, w0, k1, t1, w1) ==
  \A id \in Tasks, k \in Kinds, t \in Threads, w \in Workers :
    At(id, k, t, w)' <=>
      \/ At(id, k, t, w) /\ ~(id \in S /\ k = k0 /\ t = t0 /\ w = w0)
      \/ id \in S /\ At(id, k0, t0, w0) /\ k = k1 /\ t = t1 /\ w = w1

Came(x, k1, t1, w1) ==
  \A id \in Tasks, k \in Kinds, t \in Threads, w \in Workers :
    At(id, k, t, w)' <=> At(id, k, t, w) \/ (id = x /\ k = k1 /\ t = t1 /\ w = w1)

Gone(x, k0, t0, w0) ==
  \A id \in Tasks, k \in Kinds, t \in Threads, w \in Workers :
    At(id, k, t, w)' <=> At(id, k, t, w) /\ ~(id = x /\ k = k0 /\ t = t0 /\ w = w0)

LEMMA Moves ==
  ASSUME OnePlace, shape' = shape,
         NEW S \in SUBSET Tasks,
         NEW k0 \in Kinds, NEW t0 \in Threads, NEW w0 \in Workers,
         NEW k1 \in Kinds, NEW t1 \in Threads, NEW w1 \in Workers,
         Moved(S, k0, t0, w0, k1, t1, w1)
  PROVE  /\ OnePlace'
         /\ \A id \in Tasks : Alive(id)' <=> Alive(id)
<1>0. Tasks' = Tasks
  BY ShapeStays
<1>1. OnePlace'
  <2> SUFFICES ASSUME NEW id \in Tasks, NEW k \in Kinds, NEW l \in Kinds, NEW t \in Threads, NEW u \in Threads,
                      NEW v \in Workers, NEW w \in Workers, At(id, k, t, v)', At(id, l, u, w)'
               PROVE  k = l /\ t = u /\ v = w
    BY <1>0 DEF OnePlace
  <2>. QED BY DEF OnePlace, Moved
<1>2. ASSUME NEW id \in Tasks PROVE Alive(id)' <=> Alive(id)
  BY DEF Alive, Moved
<1>3. QED BY <1>1, <1>2

LEMMA Comes ==
  ASSUME OnePlace, shape' = shape,
         NEW x \in Tasks, ~Alive(x),
         NEW k1 \in Kinds, NEW t1 \in Threads, NEW w1 \in Workers,
         Came(x, k1, t1, w1)
  PROVE  /\ OnePlace'
         /\ \A id \in Tasks : Alive(id)' <=> Alive(id) \/ id = x
<1>0. Tasks' = Tasks
  BY ShapeStays
<1>1. OnePlace'
  <2> SUFFICES ASSUME NEW id \in Tasks, NEW k \in Kinds, NEW l \in Kinds, NEW t \in Threads, NEW u \in Threads,
                      NEW v \in Workers, NEW w \in Workers, At(id, k, t, v)', At(id, l, u, w)'
               PROVE  k = l /\ t = u /\ v = w
    BY <1>0 DEF OnePlace
  <2>. QED BY DEF OnePlace, Alive, Came
<1>2. ASSUME NEW id \in Tasks PROVE Alive(id)' <=> Alive(id) \/ id = x
  BY DEF Alive, Came
<1>3. QED BY <1>1, <1>2

LEMMA Goes ==
  ASSUME OnePlace, shape' = shape,
         NEW x \in Tasks,
         NEW k0 \in Kinds, NEW t0 \in Threads, NEW w0 \in Workers, At(x, k0, t0, w0),
         Gone(x, k0, t0, w0)
  PROVE  /\ OnePlace'
         /\ \A id \in Tasks : Alive(id)' <=> Alive(id) /\ id # x
<1>0. Tasks' = Tasks
  BY ShapeStays
<1>1. OnePlace'
  <2> SUFFICES ASSUME NEW id \in Tasks, NEW k \in Kinds, NEW l \in Kinds, NEW t \in Threads, NEW u \in Threads,
                      NEW v \in Workers, NEW w \in Workers, At(id, k, t, v)', At(id, l, u, w)'
               PROVE  k = l /\ t = u /\ v = w
    BY <1>0 DEF OnePlace
  <2>. QED BY DEF OnePlace, Gone
<1>2. ASSUME NEW id \in Tasks PROVE Alive(id)' <=> Alive(id) /\ id # x
  BY DEF Alive, OnePlace, Gone
<1>3. QED BY <1>1, <1>2

\* A step that neither brings nor takes a task leaves the order of events and
\* what has been run and counted as they are.
LEMMA TaskFrame ==
  ASSUME TypeOK, Ordering, OneEnqueuer, Completing, RunOnce,
         UNCHANGED <<shape, submitters, runs, finished, loopStop>>,
         freed' => freed \/ loopStop,
         pc'[Main] \in {"spawn", "submit"} => pc[Main] \in {"spawn", "submit"},
         \A id \in Tasks : (Alive(id)' <=> Alive(id)) /\ (Queued(id)' <=> Queued(id)),
         \A w \in Workers :
           /\ next'[w] = next[w]
           /\ pc'[w] = "complete" <=> pc[w] = "complete"
           /\ pc'[w] = "enqueue" => pc[w] = "enqueue"
           /\ pc[w] = "enqueue" => pc'[w] = "enqueue" \/ next[w] = num_agents_required
  PROVE  Ordering' /\ OneEnqueuer' /\ Completing' /\ RunOnce'
<1>1. num_agents_required' = num_agents_required /\ Agents' = Agents
  BY ShapeStays
<1>2. Agents \subseteq Tasks /\ Sched \in Tasks
  BY Required DEF TypeOK
<1>3. \A a \in Agents : Enqueued_(a)' <=> Enqueued_(a)
  BY DEF Enqueued_
<1>4. Done' = Done
  BY <1>1, <1>2, <1>3 DEF Done
<1>5. Started' <=> Started
  BY <1>2 DEF Started
<1>6. Over' <=> Over
  BY <1>1, <1>4, <1>5 DEF Over
<1>7. Ordering'
  BY <1>1, <1>2, <1>3, <1>5 DEF Ordering
<1>8. OneEnqueuer'
  BY <1>1 DEF OneEnqueuer, Enqueuing
<1>9. Completing'
  BY <1>4, <1>6 DEF Completing
<1>10. RunOnce'
  <2>1. \A a \in Agents : Ran(a)' <=> Ran(a)
    BY <1>2, <1>3 DEF Ran
  <2>2. QED BY <1>1, <2>1 DEF RunOnce
<1>11. QED BY <1>7, <1>8, <1>9, <1>10

\* A step that touches no task.
LEMMA NoTask ==
  ASSUME TypeOK, TaskInv,
         UNCHANGED <<shape, task, submitters, remote, local, fetched, runs, finished, loopStop>>,
         freed' => freed \/ loopStop,
         pc'[Main] \in {"spawn", "submit"} => pc[Main] \in {"spawn", "submit"},
         \A w \in Workers :
           /\ Holding(w)' <=> Holding(w)
           /\ pc'[w] = "count" <=> pc[w] = "count"
           /\ next'[w] = next[w]
           /\ pc'[w] = "complete" <=> pc[w] = "complete"
           /\ pc'[w] = "enqueue" => pc[w] = "enqueue"
           /\ pc[w] = "enqueue" => pc'[w] = "enqueue" \/ next[w] = num_agents_required
  PROVE  TaskInv'
<1>0. Tasks' = Tasks /\ Agents' = Agents /\ Agents \subseteq Tasks
  BY ShapeStays, Required DEF TypeOK
<1>1. \A id \in Tasks, k \in Kinds, t \in Threads, w \in Workers :
        At(id, k, t, w)' <=> At(id, k, t, w)
  BY DEF At
<1>2. OnePlace'
  BY <1>0, <1>1 DEF OnePlace, TaskInv
<1>3. OwnQueue'
  BY <1>0, <1>1 DEF OwnQueue, Number, TaskInv
<1>4. \A id \in Tasks : (Alive(id)' <=> Alive(id)) /\ (Queued(id)' <=> Queued(id))
  BY <1>1 DEF Alive, Queued
<1>5. Ordering' /\ OneEnqueuer' /\ Completing' /\ RunOnce'
  BY <1>4, TaskFrame DEF TaskInv
<1>6. QED BY <1>2, <1>3, <1>5 DEF TaskInv

\* A step in which tasks S go from one place to another, both before they are run.
LEMMA TasksMove ==
  ASSUME TypeOK, TaskInv,
         UNCHANGED <<shape, submitters, runs, finished, loopStop, freed, next>>,
         pc'[Main] = pc[Main],
         \A w \in Workers :
           /\ pc'[w] = "complete" <=> pc[w] = "complete"
           /\ pc'[w] = "enqueue" <=> pc[w] = "enqueue"
           /\ pc'[w] = "count" => pc[w] = "count" /\ task'[w] = task[w],
         NEW S \in SUBSET Tasks,
         NEW k0 \in Kinds \ {"counting"}, NEW t0 \in Threads, NEW w0 \in Workers,
         NEW k1 \in Kinds \ {"counting"}, NEW t1 \in Threads, NEW w1 \in Workers,
         Moved(S, k0, t0, w0, k1, t1, w1),
         Number(k1, w1)' = Number(k0, w0),
         \A a \in Agents, k \in Kinds, t \in Threads, w \in Workers :
           At(a, k, t, w) /\ At(a, k, t, w)' => Number(k, w)' = Number(k, w)
  PROVE  TaskInv'
<1>0. Tasks' = Tasks /\ Agents' = Agents /\ Agents \subseteq Tasks /\ "counting" \in Kinds
  BY ShapeStays, Required DEF TypeOK, Kinds
<1>1. OnePlace' /\ \A id \in Tasks : Alive(id)' <=> Alive(id)
  <2>1. OnePlace /\ k0 \in Kinds /\ k1 \in Kinds
    BY DEF TaskInv
  <2>2. QED BY <2>1, Moves
<1>2. OwnQueue'
  <2>1. ASSUME NEW a \in Agents, NEW k \in Kinds, NEW t \in Threads, NEW w \in Workers, At(a, k, t, w)'
        PROVE  Number(k, w)' = a
    <3>1. a \in Tasks
      BY <1>0
    <3>2. CASE At(a, k, t, w)
      BY <2>1, <3>2 DEF OwnQueue, TaskInv
    <3>3. CASE ~At(a, k, t, w)
      <4>1. At(a, k0, t0, w0) /\ k = k1 /\ w = w1
        BY <2>1, <3>1, <3>3 DEF Moved
      <4>2. QED BY <4>1 DEF OwnQueue, TaskInv
    <3>4. QED BY <3>2, <3>3
  <2>2. QED BY <1>0, <2>1 DEF OwnQueue, TaskInv
<1>3. \A id \in Tasks : Queued(id)' <=> Queued(id)
  BY DEF Queued, Moved
<1>4. Ordering' /\ OneEnqueuer' /\ Completing' /\ RunOnce'
  BY <1>1, <1>3, TaskFrame DEF TaskInv
<1>5. QED BY <1>1, <1>2, <1>4 DEF TaskInv

taskVars == <<shape, task, submitters, remote, local, fetched, runs, finished, loopStop, freed, next>>

LEMMA WorkerNoTask ==
  ASSUME TypeOK, TaskInv, UNCHANGED taskVars,
         NEW w \in Workers, NEW l, Goto(w, l),
         pc[w] \in {"stolen", "execute"} <=> l \in {"stolen", "execute"},
         pc[w] \notin {"count", "complete"} /\ l \notin {"count", "complete", "enqueue"},
         pc[w] = "enqueue" => next[w] = num_agents_required
  PROVE  TaskInv'
<1>1. pc'[w] = l /\ (\A u \in Threads \ {w} : pc'[u] = pc[u]) /\ pc'[Main] = pc[Main]
  BY GoesTo, Ids
<1>2. \A v \in Workers :
           /\ Holding(v)' <=> Holding(v)
           /\ pc'[v] = "count" <=> pc[v] = "count"
           /\ pc'[v] = "complete" <=> pc[v] = "complete"
           /\ pc'[v] = "enqueue" => pc[v] = "enqueue"
           /\ pc[v] = "enqueue" => pc'[v] = "enqueue" \/ next[v] = num_agents_required
  BY <1>1, Ids DEF Holding
<1>3. UNCHANGED <<shape, task, submitters, remote, local, fetched, runs, finished, loopStop>>
      /\ freed' = freed /\ next' = next
  BY DEF taskVars
<1>4. QED BY <1>1, <1>2, <1>3, NoTask

LEMMA OthersNoTask ==
  ASSUME TypeOK, TaskInv,
         UNCHANGED <<shape, task, submitters, remote, local, fetched, runs, finished, loopStop>>,
         freed' => freed \/ loopStop,
         pc'[Main] \in {"spawn", "submit"} => pc[Main] \in {"spawn", "submit"},
         \A w \in Workers : next'[w] = next[w],
         \A w \in Workers : pc'[w] = pc[w] \/ (pc[w] = "unborn" /\ pc'[w] = "pop")
  PROVE  TaskInv'
<1>1. \A v \in Workers :
           /\ Holding(v)' <=> Holding(v)
           /\ pc'[v] = "count" <=> pc[v] = "count"
           /\ pc'[v] = "complete" <=> pc[v] = "complete"
           /\ pc'[v] = "enqueue" => pc[v] = "enqueue"
           /\ pc[v] = "enqueue" => pc'[v] = "enqueue" \/ next[v] = num_agents_required
  BY DEF Holding
<1>2. QED BY <1>1, NoTask

\* The steps of a worker that touch no task.
LEMMA WorkerKeepsTasks ==
  ASSUME TypeOK, TaskInv, NEW w \in Workers,
         \/ PopEmpty(w) \/ ScanNothing(w) \/ StealNothing(w) \/ clear_stealing(w)
         \/ LockAndCheck(w) \/ TryToSleep(w) \/ NoSleep(w) \/ Sleep(w) \/ WakeUp(w) \/ Awake(w)
         \/ Enqueued(w)
  PROVE  TaskInv'
<1> USE DEF taskVars, queueVars, sleepVars, notifyVars, bulkVars
<1>1. CASE PopEmpty(w)
  <2>1. UNCHANGED taskVars /\ Goto(w, "scan")
    BY <1>1 DEF PopEmpty
  <2>2. QED BY <1>1, <2>1, WorkerNoTask DEF PopEmpty
<1>2. CASE ScanNothing(w)
  <2>1. UNCHANGED taskVars /\ Goto(w, "steal")
    BY <1>2 DEF ScanNothing
  <2>2. QED BY <1>2, <2>1, WorkerNoTask DEF ScanNothing
<1>3. CASE StealNothing(w)
  <2>1. UNCHANGED taskVars /\ Goto(w, "unstolen")
    BY <1>3 DEF StealNothing
  <2>2. QED BY <1>3, <2>1, WorkerNoTask DEF StealNothing
<1>4. CASE clear_stealing(w)
  <2>1. UNCHANGED taskVars /\ Goto(w, IF pc[w] = "stolen" THEN "execute" ELSE "lock")
    BY <1>4 DEF clear_stealing
  <2>2. QED BY <1>4, <2>1, WorkerNoTask DEF clear_stealing
<1>5. CASE LockAndCheck(w)
  <2>1. UNCHANGED taskVars /\ Goto(w, IF stopRequested[w] THEN "gone" ELSE "locked")
    BY <1>5 DEF LockAndCheck
  <2>2. QED BY <1>5, <2>1, WorkerNoTask DEF LockAndCheck
<1>6. CASE TryToSleep(w)
  <2>1. UNCHANGED taskVars /\ Goto(w, "scan locked")
    BY <1>6 DEF TryToSleep
  <2>2. QED BY <1>6, <2>1, WorkerNoTask DEF TryToSleep
<1>7. CASE NoSleep(w)
  <2>1. UNCHANGED taskVars /\ Goto(w, "pop")
    BY <1>7 DEF NoSleep
  <2>2. QED BY <1>7, <2>1, WorkerNoTask DEF NoSleep
<1>8. CASE Sleep(w)
  <2>1. UNCHANGED taskVars /\ Goto(w, "wait")
    BY <1>8 DEF Sleep
  <2>2. QED BY <1>8, <2>1, WorkerNoTask DEF Sleep
<1>9. CASE WakeUp(w)
  <2>1. UNCHANGED taskVars /\ Goto(w, "awake")
    BY <1>9 DEF WakeUp
  <2>2. QED BY <1>9, <2>1, WorkerNoTask DEF WakeUp
<1>10. CASE Awake(w)
  <2>1. UNCHANGED taskVars /\ Goto(w, "pop")
    BY <1>10 DEF Awake
  <2>2. QED BY <1>10, <2>1, WorkerNoTask DEF Awake
<1>11. CASE Enqueued(w)
  <2>1. UNCHANGED taskVars /\ Goto(w, "pop")
    BY <1>11 DEF Enqueued
  <2>2. QED BY <1>11, <2>1, WorkerNoTask DEF Enqueued
<1>. QED
  BY <1>1, <1>2, <1>3, <1>4, <1>5, <1>6, <1>7, <1>8, <1>9, <1>10, <1>11

\* Notifying and waking, and the steps of main that touch no task.
LEMMA OthersKeepTasks ==
  ASSUME TypeOK, Loops, TaskInv,
         \/ \E t \in Threads : NotifyExchange(t) \/ NotifySignal(t)
         \/ \E w \in Workers : SpuriousWakeup(w)
         \/ Spawn \/ SpawnFails \/ SyncWaitReturns \/ StopWorker \/ StopSignal \/ Join
         \/ UNCHANGED vars
  PROVE  TaskInv'
<1> USE DEF queueVars, sleepVars, notifyVars, bulkVars
<1>a. pc \in [Threads -> WorkerPlaces \cup MainPlaces] /\ next \in [Threads -> 0 .. Parallelism]
  BY DEF TypeOK
<1>1. ASSUME NEW t \in Threads, NotifyExchange(t) PROVE TaskInv'
  BY <1>1, OthersNoTask DEF NotifyExchange
<1>2. ASSUME NEW t \in Threads, NotifySignal(t) PROVE TaskInv'
  BY <1>2, OthersNoTask DEF NotifySignal
<1>3. ASSUME NEW w \in Workers, SpuriousWakeup(w) PROVE TaskInv'
  BY <1>3, OthersNoTask DEF SpuriousWakeup
<1>4. CASE UNCHANGED vars
  BY <1>4, OthersNoTask DEF vars
<1>5. CASE Spawn
  <2>1. \A v \in Workers : next'[v] = next[v]
    BY <1>5, <1>a, Ids DEF Spawn
  <2>2. \A v \in Workers : pc'[v] = pc[v] \/ (pc[v] = "unborn" /\ pc'[v] = "pop")
    <3>1. CASE next[Main] < Parallelism /\ Goto(next[Main], "pop")
      <4>1. next[Main] \in Workers
        BY <3>1, <1>a, Ids, PoolAssumption DEF Workers
      <4>2. pc[next[Main]] = "unborn"
        BY <1>5, <4>1, PoolAssumption DEF Loops, Spawn, Workers
      <4>3. QED BY <3>1, <4>1, <4>2, <1>a, Ids DEF Goto
    <3>2. CASE Goto(Main, "submit")
      BY <3>2, <1>a, Ids DEF Goto
    <3>3. QED BY <1>5, <3>1, <3>2 DEF Spawn
  <2>3. pc'[Main] \in {"spawn", "submit"} => pc[Main] \in {"spawn", "submit"}
    BY <1>5, <1>a, Ids DEF Spawn, Goto
  <2>4. QED BY <1>5, <2>1, <2>2, <2>3, OthersNoTask DEF Spawn
<1>6. CASE SpawnFails
  <2>1. \A v \in Workers : next'[v] = next[v]
    BY <1>6, <1>a, Ids DEF SpawnFails
  <2>2. \A v \in Workers : pc'[v] = pc[v]
    BY <1>6, <1>a, Ids DEF SpawnFails, Goto
  <2>3. pc'[Main] \in {"spawn", "submit"} => pc[Main] \in {"spawn", "submit"}
    BY <1>6, <1>a, Ids DEF SpawnFails, Goto
  <2>4. QED BY <1>6, <2>1, <2>2, <2>3, OthersNoTask DEF SpawnFails
<1>7. CASE SyncWaitReturns
  <2>1. \A v \in Workers : next'[v] = next[v]
    BY <1>7, <1>a, Ids DEF SyncWaitReturns
  <2>2. \A v \in Workers : pc'[v] = pc[v]
    BY <1>7, <1>a, Ids DEF SyncWaitReturns, Goto
  <2>3. pc'[Main] \in {"spawn", "submit"} => pc[Main] \in {"spawn", "submit"}
    BY <1>7, <1>a, Ids DEF SyncWaitReturns, Goto
  <2>4. QED BY <1>7, <2>1, <2>2, <2>3, OthersNoTask DEF SyncWaitReturns
<1>8. CASE StopWorker
  <2>1. \A v \in Workers : next'[v] = next[v]
    BY <1>8, <1>a, Ids DEF StopWorker
  <2>2. \A v \in Workers : pc'[v] = pc[v]
    BY <1>8, <1>a, Ids DEF StopWorker, Goto
  <2>3. pc'[Main] \in {"spawn", "submit"} => pc[Main] \in {"spawn", "submit"}
    BY <1>8, <1>a, Ids DEF StopWorker, Goto
  <2>4. QED BY <1>8, <2>1, <2>2, <2>3, OthersNoTask DEF StopWorker
<1>9. CASE StopSignal
  <2>1. \A v \in Workers : next'[v] = next[v]
    BY <1>9, <1>a, Ids DEF StopSignal
  <2>2. \A v \in Workers : pc'[v] = pc[v]
    BY <1>9, <1>a, Ids DEF StopSignal, Goto
  <2>3. pc'[Main] \in {"spawn", "submit"} => pc[Main] \in {"spawn", "submit"}
    BY <1>9, <1>a, Ids DEF StopSignal, Goto
  <2>4. QED BY <1>9, <2>1, <2>2, <2>3, OthersNoTask DEF StopSignal
<1>10. CASE Join
  <2>1. \A v \in Workers : next'[v] = next[v]
    BY <1>10, <1>a, Ids DEF Join
  <2>2. \A v \in Workers : pc'[v] = pc[v]
    BY <1>10, <1>a, Ids DEF Join, Goto
  <2>3. pc'[Main] \in {"spawn", "submit"} => pc[Main] \in {"spawn", "submit"}
    BY <1>10, <1>a, Ids DEF Join, Goto
  <2>4. QED BY <1>10, <2>1, <2>2, <2>3, OthersNoTask DEF Join
<1>. QED
  BY <1>1, <1>2, <1>3, <1>4, <1>5, <1>6, <1>7, <1>8, <1>9, <1>10

\* The steps that take a task from a queue.
LEMMA ScanQueueTasks ==
  ASSUME TypeOK, TaskInv, NEW w \in Workers, ScanQueue(w)
  PROVE  TaskInv'
<1> DEFINE t0 == Head(scan[w])
<1> USE DEF sleepVars, notifyVars, bulkVars
<1>a. /\ remote \in [Threads -> [Workers -> SUBSET Tasks]] /\ scan \in [Workers -> Seq(Threads)]
      /\ fetched \in [Workers -> SUBSET Tasks]
  BY DEF TypeOK
<1>1. t0 \in Threads
  <2>1. scan[w] \in Seq(Threads) /\ scan[w] # <<>>
    BY <1>a DEF ScanQueue
  <2>2. QED BY <2>1, HeadTailProperties
<1>2. UNCHANGED <<shape, pc, task, submitters, local, next, runs, finished, loopStop, freed>>
  BY DEF ScanQueue
<1>3. \A t \in Threads, v \in Workers : remote'[t][v] = IF t = t0 /\ v = w THEN {} ELSE remote[t][v]
  BY <1>a, <1>1 DEF ScanQueue
<1>4. \A v \in Workers : fetched'[v] = IF v = w THEN fetched[w] \cup remote[t0][w] ELSE fetched[v]
  BY <1>a, <1>1 DEF ScanQueue
<1> HIDE DEF t0
<1>5. Moved(Tasks, "remote", t0, w, "fetched", w, w)
  <2> SUFFICES ASSUME NEW id \in Tasks, NEW k \in Kinds, NEW t \in Threads, NEW v \in Workers
               PROVE  At(id, k, t, v)' <=>
                        \/ At(id, k, t, v) /\ ~(id \in Tasks /\ k = "remote" /\ t = t0 /\ v = w)
                        \/ id \in Tasks /\ At(id, "remote", t0, w) /\ k = "fetched" /\ t = w /\ v = w
    BY DEF Moved
  <2>1. QED BY <1>1, <1>2, <1>3, <1>4 DEF At, Holding, Kinds
<1>6. Number("fetched", w)' = Number("remote", w)
      /\ \A k \in Kinds, v \in Workers : Number(k, v)' = Number(k, v)
  BY <1>2 DEF Number
<1>7. "remote" \in Kinds \ {"counting"} /\ "fetched" \in Kinds \ {"counting"} /\ w \in Threads
  BY Ids DEF Kinds
<1>8. QED BY <1>1, <1>2, <1>5, <1>6, <1>7, TasksMove

LEMMA ScanMoveTasks ==
  ASSUME TypeOK, TaskInv, NEW w \in Workers, ScanMove(w)
  PROVE  TaskInv'
<1> USE DEF sleepVars, notifyVars, bulkVars
<1>a. local \in [Workers -> SUBSET Tasks] /\ fetched \in [Workers -> SUBSET Tasks]
  BY DEF TypeOK
<1>2. UNCHANGED <<shape, pc, task, submitters, remote, next, runs, finished, loopStop, freed>>
  BY DEF ScanMove
<1>3. \A v \in Workers : fetched'[v] = IF v = w THEN {} ELSE fetched[v]
  BY <1>a DEF ScanMove
<1>4. \A v \in Workers : local'[v] = IF v = w THEN local[w] \cup fetched[w] ELSE local[v]
  BY <1>a DEF ScanMove
<1>5. Moved(Tasks, "fetched", w, w, "local", w, w)
  <2> SUFFICES ASSUME NEW id \in Tasks, NEW k \in Kinds, NEW t \in Threads, NEW v \in Workers
               PROVE  At(id, k, t, v)' <=>
                        \/ At(id, k, t, v) /\ ~(id \in Tasks /\ k = "fetched" /\ t = w /\ v = w)
                        \/ id \in Tasks /\ At(id, "fetched", w, w) /\ k = "local" /\ t = w /\ v = w
    BY DEF Moved
  <2>1. QED BY <1>2, <1>3, <1>4 DEF At, Holding, Kinds
<1>6. Number("local", w)' = Number("fetched", w)
      /\ \A k \in Kinds, v \in Workers : Number(k, v)' = Number(k, v)
  BY <1>2 DEF Number
<1>7. "local" \in Kinds \ {"counting"} /\ "fetched" \in Kinds \ {"counting"} /\ w \in Threads
  BY Ids DEF Kinds
<1>8. QED BY <1>2, <1>5, <1>6, <1>7, TasksMove

\* Popped or stolen.
LEMMA TakeTask ==
  ASSUME TypeOK, TaskInv, NEW w \in Workers, NEW v \in Workers, NEW id \in local[v],
         NEW l \in {"stolen", "execute"}, Goto(w, l),
         pc[w] \notin {"stolen", "execute", "count", "complete", "enqueue"},
         local' = [local EXCEPT ![v] = @ \ {id}],
         task' = [task EXCEPT ![w] = [id |-> id, queue |-> v]],
         UNCHANGED <<shape, submitters, remote, fetched, next, runs, finished, loopStop, freed>>
  PROVE  TaskInv'
<1>a. local \in [Workers -> SUBSET Tasks] /\ task \in [Workers -> [id : Tasks, queue : Workers]]
  BY DEF TypeOK
<1>1. id \in Tasks
  BY <1>a
<1>2. pc'[w] = l /\ (\A u \in Workers \ {w} : pc'[u] = pc[u]) /\ pc'[Main] = pc[Main]
  BY GoesTo, Ids
<1>3. \A u \in Workers : local'[u] = IF u = v THEN local[v] \ {id} ELSE local[u]
  BY <1>a
<1>4. task'[w].id = id /\ task'[w].queue = v /\ \A u \in Workers \ {w} : task'[u] = task[u]
  BY <1>a
<1>5. Moved({id}, "local", v, v, "held", w, w)
  <2> SUFFICES ASSUME NEW x \in Tasks, NEW k \in Kinds, NEW t \in Threads, NEW u \in Workers
               PROVE  At(x, k, t, u)' <=>
                        \/ At(x, k, t, u) /\ ~(x \in {id} /\ k = "local" /\ t = v /\ u = v)
                        \/ x \in {id} /\ At(x, "local", v, v) /\ k = "held" /\ t = w /\ u = w
    BY DEF Moved
  <2>1. QED BY <1>1, <1>2, <1>3, <1>4 DEF At, Holding, Kinds
<1>6. Number("held", w)' = Number("local", v)
  BY <1>4 DEF Number
<1>7. \A a \in Agents, k \in Kinds, t \in Threads, u \in Workers :
        At(a, k, t, u) /\ At(a, k, t, u)' => Number(k, u)' = Number(k, u)
  BY <1>2, <1>4 DEF Number, At, Holding, Kinds
<1>8. \A u \in Workers :
        /\ pc'[u] = "complete" <=> pc[u] = "complete"
        /\ pc'[u] = "enqueue" <=> pc[u] = "enqueue"
        /\ pc'[u] = "count" => pc[u] = "count" /\ task'[u] = task[u]
  BY <1>2, <1>4
<1>9. "local" \in Kinds \ {"counting"} /\ "held" \in Kinds \ {"counting"}
      /\ w \in Threads /\ v \in Threads /\ {id} \in SUBSET Tasks
  BY <1>1, Ids DEF Kinds
<1>10. QED BY <1>2, <1>5, <1>6, <1>7, <1>8, <1>9, TasksMove

LEMMA ScanFoundTasks ==
  ASSUME TypeOK, TaskInv, NEW w \in Workers, ScanFound(w)
  PROVE  TaskInv'
<1>1. PICK id \in local[w] : /\ local' = [local EXCEPT ![w] = @ \ {id}]
                             /\ task' = [task EXCEPT ![w] = [id |-> id, queue |-> w]]
  BY DEF ScanFound
<1>2. Goto(w, "execute") /\ pc[w] \notin {"stolen", "execute", "count", "complete", "enqueue"}
      /\ UNCHANGED <<shape, submitters, remote, fetched, next, runs, finished, loopStop, freed>>
  BY DEF ScanFound, bulkVars
<1>3. QED BY <1>1, <1>2, TakeTask

LEMMA StealTasks ==
  ASSUME TypeOK, TaskInv, NEW w \in Workers, Steal(w)
  PROVE  TaskInv'
<1>1. PICK v \in Workers \ {w} : \E id \in local[v] :
        /\ local' = [local EXCEPT ![v] = @ \ {id}]
        /\ task' = [task EXCEPT ![w] = [id |-> id, queue |-> v]]
  BY DEF Steal
<1>2. Goto(w, "stolen") /\ pc[w] \notin {"stolen", "execute", "count", "complete", "enqueue"}
      /\ UNCHANGED <<shape, submitters, remote, fetched, next, runs, finished, loopStop, freed>>
  BY DEF Steal, bulkVars
<1>3. QED BY <1>1, <1>2, TakeTask

\* The task a worker is about to run, or has run.
LEMMA InHand ==
  ASSUME TypeOK, NEW w \in Workers
  PROVE  /\ task[w].id \in Tasks
         /\ pc[w] \in {"stolen", "execute"} =>
              At(task[w].id, "held", w, w) /\ Queued(task[w].id) /\ Alive(task[w].id)
         /\ pc[w] = "count" => At(task[w].id, "counting", w, w) /\ Alive(task[w].id)
<1>1. task[w].id \in Tasks
  BY DEF TypeOK
<1>2. w \in Threads /\ "held" \in Kinds /\ "counting" \in Kinds /\ "held" # "counting"
  BY Ids DEF Kinds
<1>3. pc[w] \in {"stolen", "execute"} => At(task[w].id, "held", w, w)
  BY DEF At, Holding
<1>4. pc[w] = "count" => At(task[w].id, "counting", w, w)
  BY DEF At
<1>5. \A id : At(id, "held", w, w) => Queued(id) /\ Alive(id)
  BY <1>2 DEF Queued, Alive
<1>6. \A id : At(id, "counting", w, w) => Alive(id)
  BY <1>2 DEF Alive
<1>7. QED BY <1>1, <1>3, <1>4, <1>5, <1>6

\* The schedule operation is run before anything else happened.
LEMMA StartBulkTasks ==
  ASSUME TypeOK, TaskInv, NEW w \in Workers, StartBulk(w)
  PROVE  TaskInv'
<1> USE DEF sleepVars, notifyVars, bulkVars
<1>0. Tasks' = Tasks /\ Agents' = Agents /\ num_agents_required' = num_agents_required
      /\ Agents \subseteq Tasks /\ Sched \in Tasks /\ Sched \notin Agents
      /\ \A a \in Agents : a \in Tasks /\ a # Sched
  BY ShapeStays, Required DEF TypeOK, StartBulk
<1>a. next \in [Threads -> 0 .. Parallelism] /\ submitters \in Seq(Threads)
  BY DEF TypeOK
<1>1. pc[w] = "execute" /\ task[w].id = Sched
      /\ UNCHANGED <<shape, task, remote, local, fetched, runs, finished, loopStop, freed>>
  BY DEF StartBulk
<1>2. Alive(Sched) /\ At(Sched, "held", w, w) /\ ~Started
  BY <1>1, InHand DEF Started
<1>3. submitters # <<>> /\ ~loopStop /\ \A v \in Workers : next[v] = 0 /\ pc[v] \notin {"enqueue", "complete"}
  BY <1>2 DEF Ordering, TaskInv
<1>4. /\ submitters' # <<>>
      /\ pc'[Main] = pc[Main] /\ \A v \in Workers \ {w} : pc'[v] = pc[v]
      /\ pc'[w] = IF shape = 0 THEN "complete" ELSE "enqueue"
      /\ \A v \in Workers : next'[v] = 0
  <2>1. CASE shape = 0
    <3>1. Goto(w, "complete") /\ UNCHANGED <<submitters, next>>
      BY <2>1 DEF StartBulk
    <3>2. QED BY <2>1, <3>1, <1>3, GoesTo, Ids
  <2>2. CASE shape # 0
    <3>1. Goto(w, "enqueue") /\ submitters' = <<w>> \o submitters /\ next' = [next EXCEPT ![w] = 0]
      BY <2>2, Required DEF StartBulk, TypeOK
    <3>2. <<w>> \o submitters # <<>>
      BY <1>a, Ids
    <3>3. \A v \in Workers : next'[v] = 0
      BY <3>1, <1>3, <1>a, Ids
    <3>4. QED BY <2>2, <3>1, <3>2, <3>3, GoesTo, Ids
  <2>3. QED BY <2>1, <2>2
<1>5. Gone(Sched, "held", w, w)
  <2> SUFFICES ASSUME NEW id \in Tasks, NEW k \in Kinds, NEW t \in Threads, NEW v \in Workers
               PROVE  At(id, k, t, v)' <=>
                        At(id, k, t, v) /\ ~(id = Sched /\ k = "held" /\ t = w /\ v = w)
    BY DEF Gone
  <2>1. QED BY <1>1, <1>4 DEF At, Holding, Kinds
<1>6. OnePlace' /\ \A id \in Tasks : Alive(id)' <=> Alive(id) /\ id # Sched
  <2>1. OnePlace /\ "held" \in Kinds /\ w \in Threads
    BY Ids DEF TaskInv, Kinds
  <2>2. QED BY <1>0, <1>1, <1>2, <1>5, <2>1, Goes
<1>7. OwnQueue'
  <2>1. \A a \in Agents, k \in Kinds, t \in Threads, v \in Workers : At(a, k, t, v)' => At(a, k, t, v)
    BY <1>0, <1>5 DEF Gone
  <2>2. \A k \in Kinds, v \in Workers : Number(k, v)' = Number(k, v)
    BY <1>1 DEF Number
  <2>3. \A v \in Workers : pc'[v] = "count" => pc[v] = "count" /\ task'[v] = task[v]
    BY <1>1, <1>4
  <2>4. QED BY <1>0, <2>1, <2>2, <2>3 DEF OwnQueue, TaskInv
<1>8. \A a : ~Enqueued_(a)' \/ ~(a \in Agents)
  BY <1>4 DEF Enqueued_, Agents
<1>9. \A a : ~Enqueued_(a) \/ ~(a \in Agents)
  BY <1>3 DEF Enqueued_, Agents
<1>10. \A a \in Agents : ~Alive(a)
  BY <1>9 DEF Ordering, TaskInv
<1>11. Done = {} /\ Done' = {}
  BY <1>0, <1>8, <1>9 DEF Done
<1>12. Started'
  BY <1>0, <1>4, <1>6 DEF Started
<1>13. Ordering'
  <2>1. pc[Main] \notin {"spawn", "submit"}
    BY <1>3 DEF Ordering, TaskInv
  <2>2. QED BY <1>0, <1>4, <1>6, <1>10, <1>12, <2>1 DEF Ordering
<1>14. OneEnqueuer'
  BY <1>3, <1>4 DEF OneEnqueuer, Enqueuing
<1>15. Completing'
  <2>1. shape = 0 => Agents = {}
    BY PoolAssumption DEF Agents, num_agents_required
  <2>2. shape = 0 => Over'
    BY <1>0, <1>11, <1>12, <2>1 DEF Over
  <2>3. finished' = Cardinality(Done)'
    BY <1>1, <1>11 DEF Completing, TaskInv
  <2>4. loopStop' = loopStop /\ freed' = freed /\ ~freed
    BY <1>1, <1>3 DEF Completing, TaskInv
  <2>5. \A v \in Workers : pc'[v] = "complete" => shape = 0 /\ v = w
    BY <1>3, <1>4
  <2>6. QED BY <1>3, <2>2, <2>3, <2>4, <2>5 DEF Completing
<1>16. RunOnce'
  <2>1. \A a \in Agents : ~Ran(a) /\ ~Ran(a)'
    BY <1>8, <1>9 DEF Ran
  <2>2. QED BY <1>0, <1>1, <2>1 DEF RunOnce, TaskInv
<1>17. QED BY <1>6, <1>7, <1>13, <1>14, <1>15, <1>16 DEF TaskInv

\* The next agent goes to the worker with its number, and is there once.
LEMMA EnqueueAgentTasks ==
  ASSUME TypeOK, TaskInv, NEW w \in Workers, EnqueueAgent(w)
  PROVE  TaskInv'
<1> USE DEF sleepVars, notifyVars, bulkVars
<1>0. Tasks' = Tasks /\ Agents' = Agents /\ num_agents_required' = num_agents_required
      /\ num_agents_required \in 0 .. Parallelism
      /\ Agents \subseteq Tasks /\ Sched \in Tasks /\ Sched \notin Agents /\ Agents \subseteq Workers
  BY ShapeStays, Required DEF TypeOK, EnqueueAgent
<1>a. /\ next \in [Threads -> 0 .. Parallelism] /\ remote \in [Threads -> [Workers -> SUBSET Tasks]]
      /\ \A v \in Workers : next[v] \in 0 .. num_agents_required
  <2>1. /\ next \in [Threads -> 0 .. Parallelism] /\ remote \in [Threads -> [Workers -> SUBSET Tasks]]
        /\ \A v \in Workers : next[v] <= num_agents_required
    BY DEF TypeOK
  <2>2. \A v \in Workers : next[v] \in 0 .. Parallelism
    BY Ids, <2>1
  <2>3. QED BY <1>0, <2>1, <2>2
<1>b. PICK a \in 0 .. Parallelism : a = next[w]
  BY <1>a, Ids
<1>1. pc[w] = "enqueue" /\ a < num_agents_required
      /\ UNCHANGED <<shape, pc, task, submitters, local, fetched, runs, finished, loopStop, freed>>
  BY <1>b DEF EnqueueAgent
<1>2. a \in Agents /\ a \in Workers /\ a \in Tasks /\ a # Sched /\ a \in Nat
  BY <1>0, <1>1, <1>a DEF Agents
<1>3. a % Parallelism = a
  BY <1>2, PoolAssumption DEF Workers
<1>4. \A t \in Threads, v \in Workers :
        remote'[t][v] = IF t = w /\ v = a THEN remote[w][a] \cup {a} ELSE remote[t][v]
  BY <1>2, <1>3, <1>a, <1>b, Ids DEF EnqueueAgent
<1>5. \A v \in Workers : next'[v] = IF v = w THEN a + 1 ELSE next[v]
  BY <1>a, <1>b, Ids DEF EnqueueAgent
<1>6. \A v \in Workers \ {w} : next[v] = 0
  <2>1. Enqueuing(w)
    BY <1>1 DEF Enqueuing
  <2>2. \A v \in Workers \ {w} : ~(next[v] > 0)
    BY <2>1 DEF OneEnqueuer, Enqueuing, TaskInv
  <2>3. QED BY <2>2, <1>a
<1>7. \A b \in Agents : /\ Enqueued_(b) <=> b < a
                        /\ Enqueued_(b)' <=> b < a + 1
  <2> SUFFICES ASSUME NEW b \in Agents PROVE (Enqueued_(b) <=> b < a) /\ (Enqueued_(b)' <=> b < a + 1)
    OBVIOUS
  <2>1. b \in Nat
    BY DEF Agents
  <2>2. QED BY <2>1, <1>2, <1>5, <1>6, <1>b DEF Enqueued_
<1>8. ~Alive(a) /\ a \notin Done /\ ~Over
  <2>1. ~Enqueued_(a)
    BY <1>2, <1>7
  <2>2. QED BY <2>1, <1>2 DEF Ordering, TaskInv, Done, Over
<1>9. Came(a, "remote", w, a)
  <2> SUFFICES ASSUME NEW id \in Tasks, NEW k \in Kinds, NEW t \in Threads, NEW v \in Workers
               PROVE  At(id, k, t, v)' <=>
                        At(id, k, t, v) \/ (id = a /\ k = "remote" /\ t = w /\ v = a)
    BY DEF Came
  <2>1. QED BY <1>1, <1>4 DEF At, Holding, Kinds
<1>10. OnePlace' /\ \A id \in Tasks : Alive(id)' <=> Alive(id) \/ id = a
  <2>1. OnePlace /\ "remote" \in Kinds /\ w \in Threads
    BY Ids DEF TaskInv, Kinds
  <2>2. QED BY <1>1, <1>2, <1>8, <1>9, <2>1, Comes
<1>11. OwnQueue'
  <2>1. ASSUME NEW b \in Agents, NEW k \in Kinds, NEW t \in Threads, NEW v \in Workers, At(b, k, t, v)'
        PROVE  Number(k, v)' = b
    <3>1. b \in Tasks
      BY <1>0
    <3>2. CASE At(b, k, t, v)
      BY <3>2, <1>1 DEF OwnQueue, Number, TaskInv
    <3>3. CASE ~At(b, k, t, v)
      <4>1. b = a /\ k = "remote" /\ v = a
        BY <2>1, <3>1, <3>3, <1>9 DEF Came
      <4>2. QED BY <4>1 DEF Number
    <3>4. QED BY <3>2, <3>3
  <2>2. QED BY <1>0, <1>1, <2>1 DEF OwnQueue, TaskInv
<1>12. Started /\ Started'
  <2>1. Started
    BY <1>1 DEF Ordering, TaskInv
  <2>2. QED BY <2>1, <1>0, <1>1, <1>2, <1>10 DEF Started
<1>13. \A b \in Agents : /\ Alive(b) => Enqueued_(b)
                         /\ Alive(b)' => Enqueued_(b)'
                         /\ Enqueued_(b)' <=> Enqueued_(b) \/ b = a
  <2> SUFFICES ASSUME NEW b \in Agents
               PROVE  /\ Alive(b) => Enqueued_(b)
                      /\ Alive(b)' => Enqueued_(b)'
                      /\ Enqueued_(b)' <=> Enqueued_(b) \/ b = a
    OBVIOUS
  <2>1. b \in Nat /\ b \in Tasks
    BY <1>0 DEF Agents
  <2>2. Alive(b) => Enqueued_(b)
    BY DEF Ordering, TaskInv
  <2>3. Enqueued_(b)' <=> Enqueued_(b) \/ b = a
    BY <2>1, <1>2, <1>7
  <2>4. QED BY <2>1, <2>2, <2>3, <1>10
<1>14. Done' = Done
  <2>1. ASSUME NEW b \in Agents PROVE (Enqueued_(b)' /\ ~Alive(b)') <=> (Enqueued_(b) /\ ~Alive(b))
    <3>1. b \in Tasks
      BY <1>0
    <3>2. CASE b = a
      BY <3>1, <3>2, <1>2, <1>7, <1>10
    <3>3. CASE b # a
      BY <3>1, <3>3, <1>10, <1>13
    <3>4. QED BY <3>2, <3>3
  <2>2. QED BY <1>0, <2>1 DEF Done
<1>15. Ordering'
  <2>1. pc[Main] \in {"spawn", "submit"} => submitters = <<>>
    BY DEF Ordering, TaskInv
  <2>2. QED BY <1>0, <1>1, <1>12, <1>13, <2>1 DEF Ordering, Started
<1>16. OneEnqueuer'
  <2>1. \A v \in Workers : Enqueuing(v)' => v = w
    <3> SUFFICES ASSUME NEW v \in Workers, v # w PROVE ~Enqueuing(v)'
      OBVIOUS
    <3>1. next'[v] = 0 /\ ~Enqueuing(v)
      BY <1>1, <1>5, <1>6 DEF OneEnqueuer, Enqueuing, TaskInv
    <3>2. QED BY <3>1, <1>1 DEF Enqueuing
  <2>2. \A v \in Workers : next'[v] > 0 => pc'[v] = "enqueue"
    BY <1>1, <1>5, <1>6
  <2>3. QED BY <2>1, <2>2 DEF OneEnqueuer
<1>17. Completing'
  <2>1. finished' = Cardinality(Done)' /\ ~loopStop' /\ ~freed' /\ \A v \in Workers : pc'[v] # "complete"
    BY <1>1, <1>8, <1>14 DEF Completing, TaskInv
  <2>2. QED BY <2>1 DEF Completing
<1>18. RunOnce'
  <2>1. ASSUME NEW b \in Agents PROVE Ran(b)' <=> Ran(b)
    <3>1. CASE b = a
      <4>1. ~Ran(a)
        BY <1>2, <1>7 DEF Ran
      <4>2. At(a, "remote", w, a)'
        <5>1. a \in Tasks /\ a \in Workers /\ w \in Threads /\ "remote" \in Kinds
          BY <1>2, Ids DEF Kinds
        <5>2. QED BY <5>1, <1>9 DEF Came
      <4>3. Queued(a)'
        <5>1. a \in Workers /\ w \in Threads /\ "remote" \in Kinds \ {"counting"}
          BY <1>2, Ids DEF Kinds
        <5>2. QED BY <5>1, <4>2 DEF Queued
      <4>4. ~Ran(a)'
        BY <4>3 DEF Ran
      <4>5. QED BY <3>1, <4>1, <4>4
    <3>2. CASE b # a
      <4>1. b \in Tasks
        BY <1>0
      <4>2. \A k \in Kinds, t \in Threads, v \in Workers : At(b, k, t, v)' <=> At(b, k, t, v)
        BY <3>2, <4>1, <1>9 DEF Came
      <4>3. Queued(b)' <=> Queued(b)
        BY <4>2 DEF Queued
      <4>4. QED BY <3>2, <4>3, <1>13 DEF Ran
    <3>3. QED BY <3>1, <3>2
  <2>2. QED BY <1>0, <1>1, <2>1 DEF RunOnce, TaskInv
<1>19. QED BY <1>10, <1>11, <1>15, <1>16, <1>17, <1>18 DEF TaskInv

\* An agent runs its share: nobody has run it, and it will not run again.
LEMMA RunAgentTasks ==
  ASSUME TypeOK, TaskInv, NEW w \in Workers, RunAgent(w)
  PROVE  TaskInv'
<1> USE DEF queueVars, sleepVars, notifyVars
<1>0. Tasks' = Tasks /\ Agents' = Agents /\ num_agents_required' = num_agents_required
      /\ num_agents_required \in 0 .. Parallelism /\ num_agents_required <= shape /\ shape \in 0 .. M - 1
      /\ Agents \subseteq Tasks /\ Sched \in Tasks /\ Sched \notin Agents /\ Agents \subseteq Workers
      /\ \A id \in Tasks : id = Sched \/ id \in Agents
  BY ShapeStays, Required DEF TypeOK, RunAgent
<1>1. pc[w] = "execute" /\ task[w].id # Sched /\ Goto(w, "count")
      /\ UNCHANGED <<shape, task, submitters, remote, local, fetched, next, finished, loopStop, freed>>
  BY DEF RunAgent
<1>b. PICK a \in Tasks : a = task[w].id
  BY InHand
<1>2. a \in Agents /\ At(a, "held", w, w) /\ Queued(a) /\ Alive(a)
  BY <1>0, <1>1, <1>b, InHand
<1>3. task[w].queue = a
  <2>1. Number("held", w) = a
    <3>1. "held" \in Kinds /\ w \in Threads
      BY Ids DEF Kinds
    <3>2. QED BY <3>1, <1>2 DEF OwnQueue, TaskInv
  <2>2. QED BY <2>1 DEF Number
<1>4. pc'[w] = "count" /\ (\A v \in Workers \ {w} : pc'[v] = pc[v]) /\ pc'[Main] = pc[Main]
  BY <1>1, GoesTo, Ids
<1>5. Moved({a}, "held", w, w, "counting", w, w)
  <2> SUFFICES ASSUME NEW id \in Tasks, NEW k \in Kinds, NEW t \in Threads, NEW v \in Workers
               PROVE  At(id, k, t, v)' <=>
                        \/ At(id, k, t, v) /\ ~(id \in {a} /\ k = "held" /\ t = w /\ v = w)
                        \/ id \in {a} /\ At(id, "held", w, w) /\ k = "counting" /\ t = w /\ v = w
    BY DEF Moved
  <2>1. QED BY <1>1, <1>4, <1>b DEF At, Holding, Kinds
<1>6. OnePlace' /\ \A id \in Tasks : Alive(id)' <=> Alive(id)
  <2>1. OnePlace /\ "held" \in Kinds /\ "counting" \in Kinds /\ w \in Threads /\ {a} \in SUBSET Tasks
    BY Ids DEF TaskInv, Kinds
  <2>2. QED BY <1>1, <1>5, <2>1, Moves
<1>7. OwnQueue'
  <2>1. ASSUME NEW b \in Agents, NEW k \in Kinds, NEW t \in Threads, NEW v \in Workers, At(b, k, t, v)'
        PROVE  Number(k, v)' = b
    <3>1. b \in Tasks
      BY <1>0
    <3>2. CASE At(b, k, t, v)
      BY <3>2, <1>1 DEF OwnQueue, Number, TaskInv
    <3>3. CASE ~At(b, k, t, v)
      <4>1. b = a /\ k = "counting" /\ v = w
        BY <2>1, <3>1, <3>3, <1>5 DEF Moved
      <4>2. QED BY <4>1, <1>1, <1>3 DEF Number
    <3>4. QED BY <3>2, <3>3
  <2>2. \A v \in Workers : pc'[v] = "count" => task'[v].id # Sched
    BY <1>1, <1>4 DEF OwnQueue, TaskInv
  <2>3. QED BY <1>0, <2>1, <2>2 DEF OwnQueue
<1>8. \A b \in Agents : Enqueued_(b)' <=> Enqueued_(b)
  BY <1>1 DEF Enqueued_
<1>9. Done' = Done /\ (Started' <=> Started)
  BY <1>0, <1>1, <1>6, <1>8 DEF Done, Started
<1>10. Ordering'
  BY <1>0, <1>1, <1>4, <1>6, <1>8, <1>9 DEF Ordering, TaskInv
<1>11. OneEnqueuer'
  BY <1>0, <1>1, <1>4 DEF OneEnqueuer, Enqueuing, TaskInv
<1>12. Completing'
  <2>1. Over' <=> Over
    BY <1>0, <1>9 DEF Over
  <2>2. QED BY <1>1, <1>4, <1>9, <2>1 DEF Completing, TaskInv
<1>13. ~Ran(a) /\ Ran(a)'
  <2>1. Enqueued_(a)
    BY <1>2 DEF Ordering, TaskInv
  <2>2. ~Queued(a)'
    <3> SUFFICES ASSUME NEW k \in Kinds \ {"counting"}, NEW t \in Threads, NEW v \in Workers, At(a, k, t, v)'
                 PROVE  FALSE
      BY DEF Queued
    <3>1. At(a, k, t, v) /\ ~(k = "held" /\ t = w /\ v = w)
      BY <1>5 DEF Moved
    <3>2. "held" \in Kinds /\ w \in Threads
      BY Ids DEF Kinds
    <3>3. QED BY <3>1, <3>2, <1>2 DEF OnePlace, TaskInv
  <2>3. QED BY <1>2, <1>8, <2>1, <2>2 DEF Ran
<1>14. \A b \in Agents \ {a} : Ran(b)' <=> Ran(b)
  <2> SUFFICES ASSUME NEW b \in Agents \ {a} PROVE Ran(b)' <=> Ran(b)
    OBVIOUS
  <2>1. b \in Tasks
    BY <1>0
  <2>2. \A k \in Kinds, t \in Threads, v \in Workers : At(b, k, t, v)' <=> At(b, k, t, v)
    BY <2>1, <1>5 DEF Moved
  <2>3. Queued(b)' <=> Queued(b)
    BY <2>2 DEF Queued
  <2>4. QED BY <2>3, <1>8 DEF Ran
<1>15. RunOnce'
  <2> SUFFICES ASSUME NEW i \in 0 .. shape - 1, NEW b \in Agents,
                      i \in even_share(shape, b, num_agents_required)
               PROVE  runs'[i] = IF Ran(b)' THEN 1 ELSE 0
    BY <1>0, <1>1 DEF RunOnce
  <2>1. runs[i] = IF Ran(b) THEN 1 ELSE 0
    BY DEF RunOnce, TaskInv
  <2>2. runs' = [j \in 0 .. shape - 1 |-> IF j \in even_share(shape, task[w].queue, num_agents_required)
                                          THEN runs[j] + 1 ELSE runs[j]]
    BY DEF RunAgent
  <2>3. runs'[i] = IF i \in even_share(shape, a, num_agents_required) THEN runs[i] + 1 ELSE runs[i]
    BY <2>2, <1>3
  <2>4. CASE b = a
    BY <2>1, <2>3, <2>4, <1>13
  <2>5. CASE b # a
    <3>1. i \notin even_share(shape, a, num_agents_required)
      <4>1. num_agents_required \in 1 .. M - 1 /\ a \in 0 .. num_agents_required - 1
            /\ b \in 0 .. num_agents_required - 1
        BY <1>0, <1>2, WidthAssumption, PoolAssumption DEF Agents
      <4>2. QED BY <4>1, <1>0, <2>5, EvenShareIsPartition
    <3>2. QED BY <2>1, <2>3, <2>5, <3>1, <1>14
  <2>6. QED BY <2>4, <2>5
<1>16. QED BY <1>6, <1>7, <1>10, <1>11, <1>12, <1>15 DEF TaskInv

\* There are as many agents as are required.
LEMMA CountAgents ==
  ASSUME TypeOK
  PROVE  /\ IsFiniteSet(Agents) /\ Cardinality(Agents) = num_agents_required
         /\ Done \subseteq Agents /\ IsFiniteSet(Done) /\ Cardinality(Done) \in 0 .. num_agents_required
         /\ Cardinality(Done) = num_agents_required => Done = Agents
<1>1. num_agents_required \in Nat
  BY Required, PoolAssumption DEF TypeOK
<1>2. IsFiniteSet(Agents) /\ Cardinality(Agents) = num_agents_required
  <2>1. 0 \in Int /\ num_agents_required - 1 \in Int
    BY <1>1
  <2>2. /\ IsFiniteSet(0 .. num_agents_required - 1)
        /\ Cardinality(0 .. num_agents_required - 1) =
             IF 0 > num_agents_required - 1 THEN 0 ELSE num_agents_required - 1 - 0 + 1
    BY <2>1, FS_Interval
  <2>3. QED BY <1>1, <2>2 DEF Agents
<1>3. Done \in SUBSET Agents
  BY DEF Done
<1>4. IsFiniteSet(Done) /\ Cardinality(Done) <= Cardinality(Agents)
      /\ (Cardinality(Agents) = Cardinality(Done) => Agents = Done)
  BY <1>2, <1>3, FS_Subset
<1>5. Cardinality(Done) \in Nat
  BY <1>4, FS_CardinalityType
<1>6. QED BY <1>1, <1>2, <1>3, <1>4, <1>5

\* An agent is counted once; whoever counts the last one completes.
LEMMA FinishAgentTasks ==
  ASSUME TypeOK, TaskInv, NEW w \in Workers, FinishAgent(w)
  PROVE  TaskInv' /\ finished' \in 0 .. num_agents_required
<1> USE DEF queueVars, sleepVars, notifyVars
<1>0. Tasks' = Tasks /\ Agents' = Agents /\ num_agents_required' = num_agents_required
      /\ num_agents_required \in 0 .. Parallelism /\ num_agents_required \in Nat
      /\ Agents \subseteq Tasks /\ Sched \in Tasks /\ Sched \notin Agents /\ Agents \subseteq Workers
      /\ \A id \in Tasks : id = Sched \/ id \in Agents
  BY ShapeStays, Required, PoolAssumption DEF TypeOK, FinishAgent
<1>1. pc[w] = "count" /\ finished' = finished + 1
      /\ Goto(w, IF finished = num_agents_required - 1 THEN "complete" ELSE "pop")
      /\ UNCHANGED <<shape, task, submitters, remote, local, fetched, next, runs, loopStop, freed>>
  BY DEF FinishAgent
<1>b. PICK a \in Tasks : a = task[w].id
  BY InHand
<1>2. a \in Agents /\ At(a, "counting", w, w) /\ Alive(a) /\ a # Sched
  <2>1. task[w].id # Sched
    BY <1>1 DEF OwnQueue, TaskInv
  <2>2. QED BY <2>1, <1>0, <1>1, <1>b, InHand
<1>3. Enqueued_(a) /\ Started
  <2>1. Enqueued_(a)
    BY <1>2 DEF Ordering, TaskInv
  <2>2. PICK v \in Workers : a < next[v]
    BY <2>1 DEF Enqueued_
  <2>3. next[v] # 0
    BY <1>2, <2>2 DEF Agents
  <2>4. QED BY <2>1, <2>3 DEF Ordering, TaskInv
<1>4. /\ pc'[w] = IF finished = num_agents_required - 1 THEN "complete" ELSE "pop"
      /\ (\A v \in Workers \ {w} : pc'[v] = pc[v]) /\ pc'[Main] = pc[Main]
  BY <1>1, GoesTo, Ids
<1>5. Gone(a, "counting", w, w)
  <2> SUFFICES ASSUME NEW id \in Tasks, NEW k \in Kinds, NEW t \in Threads, NEW v \in Workers
               PROVE  At(id, k, t, v)' <=>
                        At(id, k, t, v) /\ ~(id = a /\ k = "counting" /\ t = w /\ v = w)
    BY DEF Gone
  <2>1. QED BY <1>1, <1>4, <1>b DEF At, Holding, Kinds
<1>6. OnePlace' /\ \A id \in Tasks : Alive(id)' <=> Alive(id) /\ id # a
  <2>1. OnePlace /\ "counting" \in Kinds /\ w \in Threads
    BY Ids DEF TaskInv, Kinds
  <2>2. QED BY <1>1, <1>2, <1>5, <2>1, Goes
<1>7. OwnQueue'
  <2>1. \A b \in Agents, k \in Kinds, t \in Threads, v \in Workers : At(b, k, t, v)' => At(b, k, t, v)
    BY <1>0, <1>5 DEF Gone
  <2>2. \A k \in Kinds, v \in Workers : Number(k, v)' = Number(k, v)
    BY <1>1 DEF Number
  <2>3. \A v \in Workers : pc'[v] = "count" => pc[v] = "count" /\ task'[v] = task[v]
    BY <1>1, <1>4
  <2>4. QED BY <1>0, <2>1, <2>2, <2>3 DEF OwnQueue, TaskInv
<1>8. \A b \in Agents : Enqueued_(b)' <=> Enqueued_(b)
  BY <1>1 DEF Enqueued_
<1>9. Started'
  BY <1>0, <1>1, <1>3, <1>6 DEF Started
<1>10. a \notin Done /\ Done' = Done \cup {a}
  <2>1. a \notin Done
    BY <1>2 DEF Done
  <2>2. ASSUME NEW b \in Agents
        PROVE  (Enqueued_(b)' /\ ~Alive(b)') <=> ((Enqueued_(b) /\ ~Alive(b)) \/ b = a)
    <3>1. b \in Tasks
      BY <1>0
    <3>2. QED BY <3>1, <1>3, <1>6, <1>8
  <2>3. QED BY <1>0, <1>2, <2>1, <2>2 DEF Done
<1>11. Cardinality(Done') = Cardinality(Done) + 1
  <2>1. IsFiniteSet(Done)
    BY CountAgents
  <2>2. QED BY <1>10, <2>1, FS_AddElement
<1>12. finished = Cardinality(Done) /\ finished' = Cardinality(Done')
  BY <1>1, <1>11 DEF Completing, TaskInv
<1>13. finished' \in 0 .. num_agents_required /\ (finished' = num_agents_required => Done' = Agents)
  <2>1. Done' \in SUBSET Agents
    BY <1>2, <1>10 DEF Done
  <2>2. IsFiniteSet(Agents) /\ Cardinality(Agents) = num_agents_required
    BY CountAgents
  <2>3. IsFiniteSet(Done') /\ Cardinality(Done') <= num_agents_required
        /\ (num_agents_required = Cardinality(Done') => Agents = Done')
    BY <2>1, <2>2, FS_Subset
  <2>4. Cardinality(Done') \in Nat
    BY <2>3, FS_CardinalityType
  <2>5. QED BY <1>0, <1>12, <2>3, <2>4
<1>14. ~Over /\ ~loopStop /\ ~freed /\ \A v \in Workers : pc[v] # "complete"
  <2>1. ~Over
    BY <1>2, <1>10 DEF Over
  <2>2. QED BY <2>1 DEF Completing, TaskInv
<1>15. Ordering'
  <2>1. submitters # <<>> /\ pc[Main] \notin {"spawn", "submit"}
    BY <1>3 DEF Ordering, Started, TaskInv
  <2>2. \A b \in Agents : Alive(b)' => Enqueued_(b)'
    BY <1>0, <1>6, <1>8 DEF Ordering, TaskInv
  <2>3. QED BY <1>0, <1>1, <1>4, <1>9, <2>1, <2>2 DEF Ordering
<1>16. OneEnqueuer'
  BY <1>0, <1>1, <1>4 DEF OneEnqueuer, Enqueuing, TaskInv
<1>17. Completing'
  <2>1. pc'[w] = "complete" => Over'
    <3>1. finished \in Nat
      BY <1>12, CountAgents, FS_CardinalityType
    <3>2. finished = num_agents_required - 1 => Done' = Agents'
      BY <3>1, <1>0, <1>1, <1>13
    <3>3. QED BY <3>2, <1>4, <1>9 DEF Over
  <2>2. \A v \in Workers : pc'[v] = "complete" => v = w
    BY <1>4, <1>14
  <2>3. QED BY <1>1, <1>12, <1>14, <2>1, <2>2 DEF Completing
<1>18. RunOnce'
  <2>1. \A b \in Agents : Queued(b)' <=> Queued(b)
    <3> SUFFICES ASSUME NEW b \in Agents PROVE Queued(b)' <=> Queued(b)
      OBVIOUS
    <3>1. b \in Tasks
      BY <1>0
    <3>2. \A k \in Kinds \ {"counting"}, t \in Threads, v \in Workers : At(b, k, t, v)' <=> At(b, k, t, v)
      BY <3>1, <1>5 DEF Gone
    <3>3. QED BY <3>2 DEF Queued
  <2>2. \A b \in Agents : Ran(b)' <=> Ran(b)
    BY <1>8, <2>1 DEF Ran
  <2>3. QED BY <1>0, <1>1, <2>2 DEF RunOnce, TaskInv
<1>19. QED BY <1>6, <1>7, <1>13, <1>15, <1>16, <1>17, <1>18 DEF TaskInv

LEMMA CompleteBulkTasks ==
  ASSUME TypeOK, TaskInv, NEW w \in Workers, CompleteBulk(w)
  PROVE  TaskInv'
<1> USE DEF queueVars, sleepVars, notifyVars
<1>1. pc[w] = "complete" /\ loopStop' = TRUE /\ Goto(w, "pop")
      /\ UNCHANGED <<shape, task, submitters, remote, local, fetched, next, runs, finished, freed>>
  BY DEF CompleteBulk
<1>2. pc'[w] = "pop" /\ (\A v \in Workers \ {w} : pc'[v] = pc[v]) /\ pc'[Main] = pc[Main]
  BY <1>1, GoesTo, Ids
<1>3. Over /\ ~loopStop /\ \A v \in Workers \ {w} : pc[v] # "complete"
  BY <1>1 DEF Completing, TaskInv
<1>0. Tasks' = Tasks /\ Agents' = Agents /\ Agents \subseteq Tasks /\ Sched \in Tasks
      /\ num_agents_required' = num_agents_required
  BY <1>1, ShapeStays, Required DEF TypeOK
<1>4. \A id \in Tasks, k \in Kinds, t \in Threads, v \in Workers :
        At(id, k, t, v)' <=> At(id, k, t, v)
  BY <1>1, <1>2 DEF At, Holding
<1>5. OnePlace' /\ OwnQueue'
  BY <1>0, <1>1, <1>2, <1>4 DEF OnePlace, OwnQueue, Number, TaskInv
<1>6. \A id \in Tasks : (Alive(id)' <=> Alive(id)) /\ (Queued(id)' <=> Queued(id))
  BY <1>4 DEF Alive, Queued
<1>7. \A a \in Agents : (Enqueued_(a)' <=> Enqueued_(a)) /\ (Ran(a)' <=> Ran(a))
  BY <1>0, <1>1, <1>6 DEF Enqueued_, Ran
<1>8. Done' = Done /\ (Started' <=> Started)
  BY <1>0, <1>1, <1>6, <1>7 DEF Done, Started
<1>9. Over'
  BY <1>0, <1>3, <1>8 DEF Over
<1>10. Ordering'
  BY <1>0, <1>1, <1>2, <1>6, <1>7, <1>8, <1>3 DEF Ordering, TaskInv, Over
<1>11. OneEnqueuer'
  BY <1>0, <1>1, <1>2 DEF OneEnqueuer, Enqueuing, TaskInv
<1>12. Completing'
  BY <1>1, <1>2, <1>3, <1>8, <1>9 DEF Completing, TaskInv
<1>13. RunOnce'
  BY <1>0, <1>1, <1>7 DEF RunOnce, TaskInv
<1>14. QED BY <1>5, <1>10, <1>11, <1>12, <1>13 DEF TaskInv

\* Main submits the schedule operation first of all.
LEMMA SubmitTasks ==
  ASSUME TypeOK, TaskInv, Submit
  PROVE  TaskInv'
<1> USE DEF sleepVars, notifyVars, bulkVars
<1>a. remote \in [Threads -> [Workers -> SUBSET Tasks]] /\ submitters \in Seq(Threads)
  BY DEF TypeOK
<1>0. Tasks' = Tasks /\ Agents' = Agents /\ num_agents_required' = num_agents_required
      /\ Agents \subseteq Tasks /\ Sched \in Tasks /\ Sched \notin Agents
      /\ \A a \in Agents : a \in Tasks /\ a # Sched
  BY ShapeStays, Required DEF TypeOK, Submit
<1>1. pc[Main] = "submit" /\ Goto(Main, "sync_wait") /\ submitters' = <<Main>> \o submitters
      /\ UNCHANGED <<shape, task, local, fetched, next, runs, finished, loopStop, freed>>
  BY DEF Submit
<1>2. PICK r \in Workers : remote' = [remote EXCEPT ![Main][r] = @ \cup {Sched}]
  BY DEF Submit
<1>3. submitters = <<>> /\ ~Alive(Sched) /\ ~Started
  BY <1>1 DEF Ordering, Started, TaskInv
<1>4. ~loopStop /\ ~freed /\ \A w \in Workers : next[w] = 0 /\ pc[w] \notin {"enqueue", "complete"}
  BY <1>3 DEF Ordering, Completing, TaskInv
<1>5. pc'[Main] = "sync_wait" /\ \A w \in Workers : pc'[w] = pc[w]
  BY <1>1, GoesTo, Ids
<1>6. \A t \in Threads, v \in Workers :
        remote'[t][v] = IF t = Main /\ v = r THEN remote[Main][r] \cup {Sched} ELSE remote[t][v]
  BY <1>2, <1>a, Ids
<1>7. Came(Sched, "remote", Main, r)
  <2> SUFFICES ASSUME NEW id \in Tasks, NEW k \in Kinds, NEW t \in Threads, NEW v \in Workers
               PROVE  At(id, k, t, v)' <=>
                        At(id, k, t, v) \/ (id = Sched /\ k = "remote" /\ t = Main /\ v = r)
    BY DEF Came
  <2>1. QED BY <1>1, <1>5, <1>6 DEF At, Holding, Kinds
<1>8. OnePlace' /\ \A id \in Tasks : Alive(id)' <=> Alive(id) \/ id = Sched
  <2>1. OnePlace /\ "remote" \in Kinds
    BY DEF TaskInv, Kinds
  <2>2. QED BY <1>0, <1>1, <1>3, <1>7, <2>1, Comes, Ids
<1>9. OwnQueue'
  <2>1. \A b \in Agents, k \in Kinds, t \in Threads, v \in Workers : At(b, k, t, v)' => At(b, k, t, v)
    BY <1>0, <1>7 DEF Came
  <2>2. \A k \in Kinds, v \in Workers : Number(k, v)' = Number(k, v)
    BY <1>1 DEF Number
  <2>3. QED BY <1>0, <1>1, <1>5, <2>1, <2>2 DEF OwnQueue, TaskInv
<1>10. \A a \in Agents : (Enqueued_(a)' <=> Enqueued_(a)) /\ (Alive(a)' <=> Alive(a)) /\ ~Enqueued_(a)
  <2>1. \A a \in Agents : ~Enqueued_(a)
    BY <1>4 DEF Enqueued_, Agents
  <2>2. QED BY <2>1, <1>0, <1>1, <1>8 DEF Enqueued_
<1>11. Done' = Done
  BY <1>0, <1>10 DEF Done
<1>12. submitters' # <<>>
  BY <1>1, <1>3
<1>13. Ordering'
  BY <1>0, <1>1, <1>4, <1>5, <1>10, <1>12 DEF Ordering, TaskInv
<1>14. OneEnqueuer'
  BY <1>1, <1>4, <1>5 DEF OneEnqueuer, Enqueuing
<1>15. Completing'
  BY <1>1, <1>4, <1>5, <1>11 DEF Completing, TaskInv
<1>16. RunOnce'
  <2>1. \A a \in Agents : ~Ran(a) /\ ~Ran(a)'
    BY <1>10 DEF Ran
  <2>2. QED BY <1>0, <1>1, <2>1 DEF RunOnce, TaskInv
<1>17. QED BY <1>8, <1>9, <1>13, <1>14, <1>15, <1>16 DEF TaskInv

-----------------------------------------------------------------------------
(***************************************************************************)
(* The first inductive invariant, and what follows from it.                *)
(***************************************************************************)
PoolInv == TypeOK /\ Loops /\ TaskInv

LEMMA InitTypes == Init => TypeOK /\ Loops
<1> SUFFICES ASSUME Init PROVE TypeOK /\ Loops
  OBVIOUS
<1>1. shape \in Shapes /\ Sched \in Tasks /\ num_agents_required \in 0 .. Parallelism
  BY Required DEF Init
<1>2. Parallelism * Lo \in 0 .. Lo * Lo - 1
  <2>1. Lo \in Nat \ {0} /\ Parallelism + 1 \in Nat /\ Parallelism + 1 <= Lo /\ Parallelism \in Nat
    BY PoolAssumption
  <2>2. Lo * (Parallelism + 1) <= Lo * Lo /\ Lo * Parallelism >= 0
    BY <2>1, MulMono
  <2>3. Lo * (Parallelism + 1) = Parallelism * Lo + Lo /\ Lo * Parallelism = Parallelism * Lo
        /\ Parallelism * Lo \in Int /\ Lo * Lo \in Int
    BY <2>1
  <2>4. QED BY <2>1, <2>2, <2>3
<1>3. <<>> \in Seq(Threads) /\ <<>> \in Seq(Workers)
  OBVIOUS
<1>4. Placed /\ Loops
  BY Ids DEF Init, Placed, Loops, WorkerPlaces, MainPlaces
<1>5. /\ task \in [Workers -> [id : Tasks, queue : Workers]]
      /\ submitters \in Seq(Threads) /\ scan \in [Workers -> Seq(Threads)]
      /\ ring \in [Threads -> Seq(Workers)] /\ signal \in [Threads -> Workers \cup {None}]
  BY <1>1, <1>3 DEF Init
<1>6. /\ remote \in [Threads -> [Workers -> SUBSET Tasks]]
      /\ local \in [Workers -> SUBSET Tasks] /\ fetched \in [Workers -> SUBSET Tasks]
  BY DEF Init
<1>7. /\ state \in [Workers -> {"running", "sleeping", "notified"}]
      /\ waiting \in [Workers -> {"no", "waiting", "woken"}]
      /\ stopRequested \in [Workers -> BOOLEAN]
  BY DEF Init
<1>8. /\ next \in [Threads -> 0 .. Parallelism] /\ \A w \in Workers : next[w] <= num_agents_required
      /\ finished \in 0 .. num_agents_required
  <2>1. 0 \in 0 .. Parallelism /\ 0 \in 0 .. num_agents_required /\ 0 <= num_agents_required
    BY <1>1, PoolAssumption
  <2>2. QED BY <2>1, Ids DEF Init
<1>a. /\ runs \in [0 .. shape - 1 -> Nat]
      /\ loopStop \in BOOLEAN /\ freed \in BOOLEAN /\ numActive \in 0 .. Lo * Lo - 1
  BY <1>2 DEF Init
<1>9. QED BY <1>1, <1>4, <1>5, <1>6, <1>7, <1>8, <1>a DEF TypeOK, Placed

LEMMA InitTasks == Init => TaskInv
<1> SUFFICES ASSUME Init PROVE TaskInv
  OBVIOUS
<1>0. TypeOK
  BY InitTypes
<1>1. \A w \in Workers : pc[w] = "unborn" /\ next[w] = 0
  BY Ids DEF Init
<1>2. \A id \in Tasks, k \in Kinds, t \in Threads, w \in Workers : ~At(id, k, t, w)
  BY <1>1 DEF Init, At, Holding
<1>a. Sched \in Tasks /\ Agents \subseteq Tasks
  BY <1>0, Required DEF TypeOK
<1>3. \A id \in Tasks : ~Alive(id) /\ ~Queued(id)
  BY <1>2 DEF Alive, Queued
<1>4. \A a \in Agents : ~Enqueued_(a) /\ ~Ran(a)
  BY <1>1 DEF Agents, Enqueued_, Ran
<1>5. Done = {}
  BY <1>4 DEF Done
<1>6. OnePlace /\ OwnQueue
  BY <1>1, <1>2, <1>a DEF OnePlace, OwnQueue
<1>7. Ordering /\ OneEnqueuer
  <2>1. submitters = <<>> /\ ~loopStop
    BY DEF Init
  <2>2. \A a \in Agents : ~Alive(a)
    BY <1>3, <1>a
  <2>3. Ordering
    BY <1>1, <1>3, <1>a, <2>1, <2>2 DEF Ordering
  <2>4. OneEnqueuer
    BY <1>1 DEF OneEnqueuer, Enqueuing
  <2>5. QED BY <2>3, <2>4
<1>8. Completing
  BY <1>1, <1>5, FS_EmptySet DEF Init, Completing
<1>9. RunOnce
  BY <1>4 DEF Init, RunOnce
<1>10. QED BY <1>6, <1>7, <1>8, <1>9 DEF TaskInv

LEMMA PoolStep ==
  ASSUME PoolInv, [Next]_vars
  PROVE  PoolInv'
<1> USE DEF PoolInv
<1>1. ASSUME NEW w \in Workers, WorkerStep(w) PROVE TaskInv'
  BY <1>1, WorkerKeepsTasks, ScanQueueTasks, ScanMoveTasks, ScanFoundTasks, StealTasks, StartBulkTasks,
     EnqueueAgentTasks, RunAgentTasks, FinishAgentTasks, CompleteBulkTasks DEF WorkerStep
<1>2. TaskInv'
  BY <1>1, OthersKeepTasks, SubmitTasks DEF Next, ThreadStep, MainStep, Terminated
<1>3. finished' \in 0 .. num_agents_required
  <2>1. finished \in 0 .. num_agents_required
    BY DEF TypeOK
  <2>2. CASE \E w \in Workers : FinishAgent(w)
    BY <2>2, FinishAgentTasks
  <2>3. CASE UNCHANGED finished
    BY <2>1, <2>3
  <2>4. (\E w \in Workers : FinishAgent(w)) \/ UNCHANGED finished
    <3>1. ASSUME NEW w \in Workers, WorkerStep(w) PROVE FinishAgent(w) \/ UNCHANGED finished
      BY <3>1 DEF WorkerStep, bulkVars, PopEmpty, ScanQueue, ScanMove, ScanFound, ScanNothing, Steal,
                  StealNothing, clear_stealing, LockAndCheck, TryToSleep, NoSleep, Sleep, WakeUp, Awake,
                  StartBulk, EnqueueAgent, Enqueued, RunAgent, CompleteBulk
    <3>2. ASSUME MainStep PROVE UNCHANGED finished
      BY <3>2 DEF MainStep, bulkVars, Spawn, SpawnFails, Submit, SyncWaitReturns, StopWorker, StopSignal, Join
    <3>3. ASSUME NEW t \in Threads, NotifyExchange(t) \/ NotifySignal(t) PROVE UNCHANGED finished
      BY <3>3 DEF NotifyExchange, NotifySignal, bulkVars
    <3>4. ASSUME NEW w \in Workers, SpuriousWakeup(w) PROVE UNCHANGED finished
      BY <3>4 DEF SpuriousWakeup, bulkVars
    <3>5. QED BY <3>1, <3>2, <3>3, <3>4 DEF Next, ThreadStep, Terminated, vars, bulkVars
  <2>5. QED BY <2>2, <2>3, <2>4
<1>4. TypeOK' /\ Loops'
  BY <1>3, TypeStep, LoopsStep
<1>5. QED BY <1>2, <1>4

LEMMA PoolInvariant == Spec => []PoolInv
<1>1. Init => PoolInv
  BY InitTypes, InitTasks DEF PoolInv
<1>2. PoolInv /\ [Next]_vars => PoolInv'
  BY PoolStep
<1>3. QED BY <1>1, <1>2, PTL DEF Spec

\* Types of the pool: in particular each agent is counted at most once.
THEOREM PoolTypes == Spec => []TypeOK
<1>1. PoolInv => TypeOK
  BY DEF PoolInv
<1>2. QED BY <1>1, PoolInvariant, PTL

\* Every index belongs to one agent.
LEMMA OneAgent ==
  ASSUME TypeOK, NEW i \in 0 .. shape - 1
  PROVE  \E a \in Agents : i \in even_share(shape, a, num_agents_required)
<1>1. shape \in 0 .. M - 1 /\ num_agents_required \in 1 .. M - 1
  BY Required, PoolAssumption, WidthAssumption DEF TypeOK
<1>2. PICK a \in 0 .. num_agents_required - 1 : i \in even_share(shape, a, num_agents_required)
  BY <1>1, EvenShareIsPartition
<1>3. QED BY <1>2 DEF Agents

\* No index of a bulk is run twice, for any number of workers and indices,
\* whoever steals which agent.
THEOREM NoIndexRunTwice == Spec => []NoIndexTwice
<1>1. PoolInv => NoIndexTwice
  <2> SUFFICES ASSUME PoolInv, NEW i \in 0 .. shape - 1 PROVE runs[i] <= 1
    BY DEF NoIndexTwice
  <2>2. PICK a \in Agents : i \in even_share(shape, a, num_agents_required)
    BY OneAgent DEF PoolInv
  <2>3. runs[i] = IF Ran(a) THEN 1 ELSE 0
    BY <2>2 DEF PoolInv, TaskInv, RunOnce
  <2>4. QED BY <2>3
<1>2. QED BY <1>1, PoolInvariant, PTL

\* Once main may have freed the operation state, no worker has a task that
\* lives in it, nor is about to enqueue one.
THEOREM FreedIsUnused == Spec => []NothingUsedAfterFree
<1>1. PoolInv => NothingUsedAfterFree
  <2> SUFFICES ASSUME PoolInv, freed PROVE NothingUsedAfterFree
    BY DEF NothingUsedAfterFree
  <2>0. TypeOK /\ Agents \subseteq Tasks /\ num_agents_required \in 0 .. Parallelism
        /\ \A id \in Tasks : id = Sched \/ id \in Agents
    BY Required DEF PoolInv, TypeOK
  <2>1. loopStop /\ Over
    BY DEF PoolInv, TaskInv, Completing
  <2>2. \A id \in Tasks : ~Alive(id)
    BY <2>0, <2>1 DEF Over, Started, Done
  <2>3. \A w \in Workers : pc[w] \notin {"execute", "stolen", "count", "complete"}
    BY <2>0, <2>1, <2>2, InHand DEF PoolInv, TaskInv, Completing
  <2>4. \A id \in Tasks, k \in Kinds, t \in Threads, w \in Workers : ~At(id, k, t, w)
    BY <2>2 DEF Alive
  <2>5. \A t \in Threads, w \in Workers : remote[t][w] = {}
    <3> SUFFICES ASSUME NEW t \in Threads, NEW w \in Workers, NEW id \in remote[t][w] PROVE FALSE
      OBVIOUS
    <3>1. id \in Tasks
      BY DEF PoolInv, TypeOK
    <3>2. At(id, "remote", t, w) /\ "remote" \in Kinds
      BY DEF At, Kinds
    <3>3. QED BY <3>1, <3>2, <2>4
  <2>6. \A w \in Workers : local[w] = {} /\ fetched[w] = {}
    <3> SUFFICES ASSUME NEW w \in Workers, NEW id \in local[w] \cup fetched[w] PROVE FALSE
      OBVIOUS
    <3>1. id \in Tasks /\ w \in Threads
      BY Ids DEF PoolInv, TypeOK
    <3>2. At(id, "local", w, w) \/ At(id, "fetched", w, w)
      BY DEF At
    <3>3. "local" \in Kinds /\ "fetched" \in Kinds
      BY DEF Kinds
    <3>4. QED BY <3>1, <3>2, <3>3, <2>4
  <2>7. ASSUME NEW w \in Workers, pc[w] = "enqueue" PROVE next[w] = num_agents_required
    <3>1. next[w] \in 0 .. num_agents_required /\ num_agents_required \in Nat
      BY <2>0, Ids, PoolAssumption DEF TypeOK
    <3>2. CASE num_agents_required = 0
      BY <3>1, <3>2
    <3>3. CASE num_agents_required > 0
      <4>1. num_agents_required - 1 \in Agents
        BY <3>1, <3>3 DEF Agents
      <4>2. PICK v \in Workers : num_agents_required - 1 < next[v]
        BY <4>1, <2>1 DEF Over, Done, Enqueued_
      <4>3. next[v] \in 0 .. num_agents_required
        BY <2>0, Ids DEF TypeOK
      <4>4. next[v] > 0
        BY <3>1, <4>2, <4>3, <3>3
      <4>5. v = w
        BY <2>7, <4>4 DEF PoolInv, TaskInv, OneEnqueuer, Enqueuing
      <4>6. QED BY <3>1, <4>2, <4>3, <4>5
    <3>4. QED BY <3>1, <3>2, <3>3
  <2>8. QED BY <2>3, <2>5, <2>6, <2>7 DEF NothingUsedAfterFree
<1>2. QED BY <1>1, PoolInvariant, PTL

Todo == {i \in 0 .. shape - 1 : runs[i] = 0}

\* An agent runs a share nobody has run, before the operation completes.
LEMMA RunAgentRuns ==
  ASSUME TypeOK, TaskInv, NEW w \in Workers, RunAgent(w)
  PROVE  /\ UNCHANGED loopStop
         /\ \/ UNCHANGED Todo
            \/ ~loopStop /\ \E S \in SUBSET Todo : S # {} /\ Todo' = Todo \ S
<1>0. num_agents_required \in 0 .. Parallelism /\ Agents \subseteq Tasks
      /\ \A id \in Tasks : id = Sched \/ id \in Agents
  BY Required DEF TypeOK
<1>1. pc[w] = "execute" /\ task[w].id # Sched /\ UNCHANGED <<shape, loopStop>>
  BY DEF RunAgent
<1>b. PICK a \in Tasks : a = task[w].id
  BY InHand
<1>2. a \in Agents /\ At(a, "held", w, w) /\ Queued(a) /\ Alive(a)
  BY <1>0, <1>1, <1>b, InHand
<1>3. task[w].queue = a
  <2>1. "held" \in Kinds /\ w \in Threads
    BY Ids DEF Kinds
  <2>2. QED BY <2>1, <1>2 DEF OwnQueue, Number, TaskInv
<1>4. ~loopStop
  BY <1>2 DEF Completing, Over, Done, TaskInv
<1> DEFINE S == even_share(shape, a, num_agents_required)
<1>5. S \subseteq Todo
  <2> SUFFICES ASSUME NEW i \in S PROVE i \in Todo
    OBVIOUS
  <2>1. i \in 0 .. shape - 1
    BY DEF even_share
  <2>2. ~Ran(a)
    BY <1>2 DEF Ran
  <2>3. runs[i] = 0
    BY <1>2, <2>1, <2>2 DEF RunOnce, TaskInv
  <2>4. QED BY <2>1, <2>3 DEF Todo
<1>6. Todo' = Todo \ S
  <2>1. runs' = [i \in 0 .. shape - 1 |-> IF i \in S THEN runs[i] + 1 ELSE runs[i]]
    BY <1>3 DEF RunAgent
  <2>2. \A i \in 0 .. shape - 1 : runs[i] \in Nat
    BY DEF TypeOK
  <2>3. ASSUME NEW i \in 0 .. shape - 1 PROVE runs'[i] = 0 <=> runs[i] = 0 /\ i \notin S
    BY <2>1, <2>2
  <2>4. QED BY <2>3, <1>1 DEF Todo
<1>7. QED BY <1>1, <1>4, <1>5, <1>6

\* The operation completes once every index has been run.
LEMMA CompleteBulkCompletes ==
  ASSUME TypeOK, TaskInv, NEW w \in Workers, CompleteBulk(w)
  PROVE  ~loopStop /\ loopStop' /\ Todo = {} /\ UNCHANGED Todo
<1>1. pc[w] = "complete" /\ loopStop' = TRUE /\ UNCHANGED <<shape, runs>>
  BY DEF CompleteBulk
<1>2. Over /\ ~loopStop
  BY <1>1 DEF Completing, TaskInv
<1>3. ASSUME NEW i \in 0 .. shape - 1 PROVE runs[i] # 0
  <2>1. PICK a \in Agents : i \in even_share(shape, a, num_agents_required)
    BY OneAgent
  <2>2. Enqueued_(a) /\ ~Alive(a)
    BY <1>2 DEF Over, Done
  <2>3. ~Queued(a)
    BY <2>2 DEF Alive, Queued
  <2>4. runs[i] = 1
    BY <2>1, <2>2, <2>3 DEF RunOnce, Ran, TaskInv
  <2>5. QED BY <2>4
<1>4. QED BY <1>1, <1>2, <1>3 DEF Todo

\* Each step of the pool is a step of the bulk it promises: a share of what is
\* left is run, or the operation completes when nothing is left.
THEOREM PoolImplementsBulk == Spec => BulkIsRun
<1>1. Init => Promise!BulkInit
  BY DEF Init, Promise!BulkInit
<1>2. PoolInv /\ [Next]_vars => [Promise!BulkNext]_(Promise!bulkVars)
  <2> SUFFICES ASSUME PoolInv, [Next]_vars PROVE [Promise!BulkNext]_(Promise!bulkVars)
    OBVIOUS
  <2>1. CASE UNCHANGED <<shape, runs, loopStop>>
    BY <2>1 DEF Promise!bulkVars
  <2>2. ASSUME NEW w \in Workers, RunAgent(w) PROVE [Promise!BulkNext]_(Promise!bulkVars)
    BY <2>2, RunAgentRuns
       DEF PoolInv, Todo, Promise!BulkNext, Promise!RunShare, Promise!bulkVars
  <2>3. ASSUME NEW w \in Workers, CompleteBulk(w) PROVE [Promise!BulkNext]_(Promise!bulkVars)
    BY <2>3, CompleteBulkCompletes
       DEF PoolInv, Todo, Promise!BulkNext, Promise!Complete, Promise!bulkVars
  <2>4. \/ UNCHANGED <<shape, runs, loopStop>>
        \/ \E w \in Workers : RunAgent(w) \/ CompleteBulk(w)
    <3>1. ASSUME NEW w \in Workers, WorkerStep(w)
          PROVE  UNCHANGED <<shape, runs, loopStop>> \/ RunAgent(w) \/ CompleteBulk(w)
      BY <3>1 DEF WorkerStep, bulkVars, PopEmpty, ScanQueue, ScanMove, ScanFound, ScanNothing,
           Steal, StealNothing, clear_stealing, LockAndCheck, TryToSleep, NoSleep, Sleep, WakeUp, Awake,
           StartBulk, EnqueueAgent, Enqueued, FinishAgent
    <3>2. ASSUME MainStep PROVE UNCHANGED <<shape, runs, loopStop>>
      BY <3>2 DEF MainStep, bulkVars, Spawn, SpawnFails, Submit, SyncWaitReturns, StopWorker, StopSignal, Join
    <3>3. ASSUME NEW t \in Threads, NotifyExchange(t) \/ NotifySignal(t)
          PROVE  UNCHANGED <<shape, runs, loopStop>>
      BY <3>3 DEF bulkVars, NotifyExchange, NotifySignal
    <3>4. ASSUME NEW w \in Workers, SpuriousWakeup(w) PROVE UNCHANGED <<shape, runs, loopStop>>
      BY <3>4 DEF bulkVars, SpuriousWakeup
    <3>5. ASSUME UNCHANGED vars PROVE UNCHANGED <<shape, runs, loopStop>>
      BY <3>5 DEF vars, bulkVars
    <3>6. QED BY <3>1, <3>2, <3>3, <3>4, <3>5 DEF Next, ThreadStep, Terminated
  <2>5. QED BY <2>1, <2>2, <2>3, <2>4
<1>3. QED
  BY <1>1, <1>2, PoolInvariant, PTL DEF Spec, BulkIsRun, Promise!BulkSpec
=============================================================================
