----------------------------- MODULE RunLoopProofs -----------------------------
(***************************************************************************)
(* sync_wait and its run_loop for any number of shares and pushes: proofs  *)
(* about RunLoop.                                                          *)
(***************************************************************************)
EXTENDS RunLoop, SequenceTheorems, TLAPS

\* A task is in the list once, and while its share is being or has been pushed.
Listed ==
  /\ \A i, j \in 1 .. Len(queue) : queue[i] = queue[j] => i = j
  /\ \A i \in 1 .. Len(queue) : place[queue[i]] \in {"linked", "queued"}

\* A thread between taking and releasing the mutex holds it.
Holding ==
  \A s \in Shares : place[s] \in {"linked", "notify"} => mutex = s

\* The stop flag is set by the last share to end, after it has completed the
\* receiver; then no other share is anywhere.
Ending ==
  /\ stop => completed # "no"
  /\ \A s \in Shares : place[s] \in {"finish", "notify"} => completed # "no"
  /\ completed # "no" =>
       /\ \A s \in Shares : place[s] \in {"finish", "notify", "ended"}
       /\ \A s, t \in Shares : place[s] # "ended" /\ place[t] # "ended" => s = t
  /\ stop => \A s \in Shares : place[s] # "finish"

\* What the receiver has left is what the sender completed with.
Left ==
  /\ completed = "no"    => result = "empty" /\ eptr = "null"
  /\ completed = "value" => result = "value" /\ eptr = "null"
  /\ completed = "empty" => result = "empty" /\ eptr = "null"
  /\ completed = "error" => eptr = "set"

After == main = "returned" => /\ stop /\ mutex = Free
                              /\ \A s \in Shares : place[s] = "ended"

LoopInv == TypeOK /\ ListIsFifo /\ Listed /\ Holding /\ Ending /\ Left
           /\ After /\ OutcomeIsDelivered
-----------------------------------------------------------------------------
\* The initial states satisfy the inductive invariant.
LEMMA InitEstablishesInv == Init => LoopInv
<1> SUFFICES ASSUME Init PROVE LoopInv
  OBVIOUS
<1> USE LoopAssumption DEF Init
<1>1. TypeOK
  <2>1. next \in [Nodes -> Nodes] /\ tail \in Nodes
    BY DEF Nodes
  <2>2. queue \in Seq(Shares) /\ pushes \in 0 .. MaxPushes
    OBVIOUS
  <2>3. place \in [Shares -> Places]
    BY DEF Places
  <2>4. QED BY <2>1, <2>2, <2>3 DEF TypeOK
<1>2. ListIsFifo
  <2>1. Len(queue) = 0 /\ \A i \in 0 .. 1 : Node(queue, i) = head_
    BY DEF Node
  <2>2. next[head_] = head_
    BY DEF Nodes
  <2>3. QED BY <2>1, <2>2 DEF ListIsFifo
<1>3. Listed /\ Holding /\ Ending /\ Left /\ After /\ OutcomeIsDelivered
  BY DEF Listed, Holding, Ending, Left, After, OutcomeIsDelivered
<1>4. QED BY <1>1, <1>2, <1>3 DEF LoopInv

\* Where the list stands before a step: its nodes, by number, and its ends.
LEMMA ListFacts ==
  ASSUME TypeOK, ListIsFifo
  PROVE  /\ Len(queue) \in Nat
         /\ \A i \in 1 .. Len(queue) : queue[i] \in Shares /\ queue[i] # head_
         /\ next[head_] = Node(queue, 1) /\ tail = Node(queue, Len(queue))
         /\ next[head_] = head_ <=> queue = <<>>
<1>1. Len(queue) \in Nat /\ \A i \in 1 .. Len(queue) : queue[i] \in Shares /\ queue[i] # head_
  BY LoopAssumption DEF TypeOK
<1>2. next[Node(queue, 0)] = Node(queue, 1) /\ Node(queue, 0) = head_
  BY <1>1 DEF ListIsFifo, Node
<1>3. CASE queue = <<>>
  BY <1>1, <1>2, <1>3 DEF ListIsFifo, Node
<1>4. CASE queue # <<>>
  <2>1. Len(queue) >= 1
    BY <1>1, <1>4 DEF TypeOK
  <2>2. QED BY <1>1, <1>2, <1>4, <2>1 DEF ListIsFifo, Node
<1>5. QED BY <1>3, <1>4

\* A share that runs is not in the list: __push_back_ never links a task twice.
LEMMA RunningNotListed ==
  ASSUME TypeOK, Listed, NEW s \in Shares, Running(s)
  PROVE  \A i \in 1 .. Len(queue) : queue[i] # s
  BY DEF Listed, Running, TypeOK

\* __push_back_ links the task behind the last.
LEMMA LinkStep ==
  ASSUME LoopInv, NEW s \in Shares, Link(s)
  PROVE  TypeOK' /\ ListIsFifo' /\ Listed'
<1> USE LoopAssumption DEF LoopInv, Link, Running, MoveTo
<1>1. TypeOK'
  BY DEF TypeOK, Nodes, Places, outcome
<1>2. /\ queue' = Append(queue, s) /\ Len(queue') = Len(queue) + 1
      /\ queue'[Len(queue) + 1] = s
      /\ \A i \in 1 .. Len(queue) : queue'[i] = queue[i]
      /\ Len(queue) \in Nat
  BY DEF TypeOK
<1>3. \A i \in 1 .. Len(queue) : queue[i] # s /\ queue[i] # head_
  BY ListFacts, RunningNotListed
<1>4. \A i \in 0 .. Len(queue) : Node(queue', i) = Node(queue, i) /\ Node(queue, i) # s
  BY <1>2, <1>3 DEF Node
<1>5. Node(queue', Len(queue) + 1) = s /\ Node(queue', Len(queue) + 2) = head_
  BY <1>2 DEF Node
<1>6. \A i, j \in 0 .. Len(queue) : Node(queue, i) = Node(queue, j) => i = j
  BY <1>2, <1>3 DEF Node, Listed
<1>7. \A i \in 0 .. Len(queue) : Node(queue, i) \in Nodes
  BY DEF Node, Nodes, TypeOK
<1>8. /\ next'[s] = head_ /\ next'[tail] = s
      /\ \A n \in Nodes \ {s, tail} : next'[n] = next[n]
  BY <1>2, <1>4, <1>7 DEF TypeOK, Nodes, ListIsFifo
<1>9. ListIsFifo'
  <2>1. tail = Node(queue, Len(queue))
    BY DEF ListIsFifo
  <2>2. \A i \in 0 .. Len(queue) - 1 : next'[Node(queue', i)] = Node(queue', i + 1)
    <3> TAKE i \in 0 .. Len(queue) - 1
    <3>1. i \in 0 .. Len(queue) /\ i + 1 \in 0 .. Len(queue) /\ i # Len(queue)
          /\ Len(queue) \in 0 .. Len(queue)
      BY <1>2
    <3>2. next[Node(queue, i)] = Node(queue, i + 1)
      BY <3>1 DEF ListIsFifo
    <3>3. Node(queue, i) # tail
      BY <3>1, <1>6, <2>1
    <3>4. QED BY <1>4, <1>7, <1>8, <3>1, <3>2, <3>3
  <2>3. next'[Node(queue', Len(queue))] = Node(queue', Len(queue) + 1)
    BY <1>2, <1>4, <1>5, <1>8, <2>1
  <2>4. next'[Node(queue', Len(queue) + 1)] = Node(queue', Len(queue) + 2)
    BY <1>5, <1>8
  <2>5. tail' = Node(queue', Len(queue'))
    BY <1>2, <1>5
  <2>6. \A i \in 0 .. Len(queue') : next'[Node(queue', i)] = Node(queue', i + 1)
    <3> TAKE i \in 0 .. Len(queue')
    <3>1. i \in 0 .. Len(queue) - 1 \/ i = Len(queue) \/ i = Len(queue) + 1
      BY <1>2
    <3>2. Len(queue) + 1 + 1 = Len(queue) + 2
      BY <1>2
    <3>3. QED BY <2>2, <2>3, <2>4, <3>1, <3>2
  <2>7. QED BY <2>5, <2>6 DEF ListIsFifo
<1>10. Listed'
  <2>1. \A i \in 1 .. Len(queue) : place'[queue[i]] = place[queue[i]]
    BY <1>3 DEF TypeOK
  <2>2. place'[s] = "linked"
    BY DEF TypeOK
  <2>3. QED BY <1>2, <1>3, <2>1, <2>2 DEF Listed
<1>11. QED BY <1>1, <1>9, <1>10

\* __pop_front_ unlinks the first task, and resets __tail_ when it was the last.
LEMMA PopStep ==
  ASSUME LoopInv, Pop
  PROVE  TypeOK' /\ ListIsFifo' /\ Listed'
<1> USE LoopAssumption DEF LoopInv, Pop, MoveTo
<1> DEFINE n == Len(queue)
<1>1. /\ n \in Nat /\ n >= 1 /\ queue # <<>>
      /\ \A i \in 1 .. n : queue[i] \in Shares /\ queue[i] # head_
  BY ListFacts DEF TypeOK
<1>2. next[head_] = queue[1] /\ queue[1] \in Shares
  BY <1>1, ListFacts DEF Node
<1>3. /\ queue' = Tail(queue) /\ Len(queue') = n - 1
      /\ \A i \in 1 .. n - 1 : queue'[i] = queue[i + 1]
      /\ queue' \in Seq(Shares)
  BY <1>1 DEF TypeOK
<1>4. TypeOK'
  BY <1>2, <1>3 DEF TypeOK, Nodes, Places, outcome
<1>5. \A i \in 1 .. n + 1 : Node(queue', i) = IF i <= n THEN Node(queue, i + 1) ELSE head_
  BY <1>1, <1>3 DEF Node
<1>6. Node(queue', 0) = head_ /\ Node(queue, 1) = queue[1]
  BY <1>1, <1>3 DEF Node
<1>7. /\ next'[head_] = next[queue[1]]
      /\ \A s \in Shares : next'[s] = next[s]
  BY <1>2 DEF TypeOK, Nodes
<1>8. next[queue[1]] = Node(queue, 2)
  BY <1>1, <1>6 DEF ListIsFifo
<1>9. ListIsFifo'
  <2>1. next'[Node(queue', 0)] = Node(queue', 1)
    BY <1>1, <1>5, <1>6, <1>7, <1>8
  <2>2. \A i \in 1 .. n - 1 : next'[Node(queue', i)] = Node(queue', i + 1)
    <3> TAKE i \in 1 .. n - 1
    <3>1. i + 1 \in 1 .. n /\ i \in 1 .. n + 1 /\ i <= n /\ i + 1 <= n /\ i + 1 \in 0 .. n
      BY <1>1
    <3>2. Node(queue', i) = Node(queue, i + 1) /\ Node(queue', i + 1) = Node(queue, i + 1 + 1)
      BY <1>5, <3>1
    <3>3. Node(queue, i + 1) = queue[i + 1] /\ queue[i + 1] \in Shares
      BY <1>1, <3>1 DEF Node
    <3>4. next[Node(queue, i + 1)] = Node(queue, i + 1 + 1)
      BY <3>1 DEF ListIsFifo
    <3>5. QED BY <1>7, <3>2, <3>3, <3>4
  <2>3. tail' = Node(queue', n - 1)
    <3>1. CASE n = 1
      BY <1>2, <1>6, <3>1, ListFacts DEF Node
    <3>2. CASE n # 1
      <4>1. tail = queue[n] /\ n \in 1 .. n /\ 1 \in 1 .. n /\ n - 1 \in 1 .. n - 1
        <5>1. n \in Nat /\ n >= 1
          BY <1>1
        <5>2. n \in 1 .. n /\ 1 \in 1 .. n /\ n - 1 \in 1 .. n - 1
          <6>1. \A k \in Nat : k >= 1 /\ k # 1 => k \in 1 .. k /\ 1 \in 1 .. k /\ k - 1 \in 1 .. k - 1
            OBVIOUS
          <6>2. QED BY ONLY <6>1, <3>2, <5>1
        <5>3. tail = Node(queue, n)
          BY ListFacts
        <5>4. QED BY ONLY <5>2, <5>3 DEF Node
      <4>2. queue[n] # queue[1]
        <5>1. Listed
          OBVIOUS
        <5>2. QED BY ONLY <3>2, <4>1, <5>1 DEF Listed
      <4>3. Node(queue', n - 1) = queue[n]
        <5>1. n - 1 \in 1 .. n + 1 /\ n - 1 <= n /\ n - 1 + 1 = n
          BY <1>1, <4>1
        <5>2. Node(queue', n - 1) = Node(queue, n)
          BY <1>5, <5>1
        <5>3. QED BY <4>1, <5>2 DEF Node
      <4>4. QED BY <1>2, <4>1, <4>2, <4>3
    <3>3. QED BY ONLY <3>1, <3>2
  <2>4. \A i \in 0 .. n - 1 : next'[Node(queue', i)] = Node(queue', i + 1)
    <3> TAKE i \in 0 .. n - 1
    <3>1. i = 0 \/ i \in 1 .. n - 1
      BY <1>1
    <3>2. 0 + 1 = 1
      OBVIOUS
    <3>3. QED BY <2>1, <2>2, <3>1, <3>2
  <2>5. QED BY <1>3, <2>3, <2>4 DEF ListIsFifo
<1>10. Listed'
  <2>1. \A i \in 1 .. n - 1 : i + 1 \in 1 .. n /\ queue[i + 1] # queue[1]
    <3> TAKE i \in 1 .. n - 1
    <3>1. i + 1 \in 1 .. n /\ 1 \in 1 .. n /\ i + 1 # 1
      BY <1>1
    <3>2. QED BY <3>1 DEF Listed
  <2>2. \A i \in 1 .. n - 1 : place'[queue'[i]] \in {"linked", "queued"}
    BY <1>1, <1>2, <1>3, <2>1 DEF Listed, TypeOK
  <2>3. \A i, j \in 1 .. n - 1 : queue'[i] = queue'[j] => i = j
    BY <1>1, <1>3, <2>1 DEF Listed
  <2>4. QED BY <1>3, <2>2, <2>3 DEF Listed
<1>11. QED BY <1>4, <1>9, <1>10

\* The steps that leave the list alone keep its invariant, whatever share they
\* move, as long as the share is not in the list or stays there.
LEMMA ListKept ==
  ASSUME LoopInv, UNCHANGED list,
         \A s \in Shares : place[s] \in {"linked", "queued"} => place'[s] \in {"linked", "queued"}
  PROVE  ListIsFifo' /\ Listed'
<1>1. ListIsFifo'
  BY DEF LoopInv, list, ListIsFifo
<1>2. Listed'
  BY DEF LoopInv, TypeOK, list, Listed
<1>3. QED BY <1>1, <1>2

\* Every other step keeps the types and the list.
LEMMA TypeAndListStep ==
  ASSUME LoopInv, [Next]_vars
  PROVE  TypeOK' /\ ListIsFifo' /\ Listed'
<1> USE LoopAssumption DEF LoopInv, MoveTo, Notify, Running
<1>1. ASSUME NEW s \in Shares, NotifyOne(s) PROVE TypeOK' /\ ListIsFifo' /\ Listed'
  BY <1>1, ListKept DEF NotifyOne, TypeOK, Places, list, outcome
<1>2. CASE Wait \/ SpuriousWakeup
  BY <1>2, ListKept DEF Wait, SpuriousWakeup, TypeOK, list, outcome
<1>3. CASE Executed
  BY <1>3, ListKept DEF Executed, TypeOK, Places, list, outcome
<1>4. CASE Return
  BY <1>4, ListKept DEF Return, TypeOK, list, outcome
<1>5. ASSUME NEW s \in Shares, EndShare(s) PROVE TypeOK' /\ ListIsFifo' /\ Listed'
  BY <1>5, ListKept DEF EndShare, Complete, TypeOK, Places, list, outcome
<1>6. ASSUME NEW s \in Shares, SetStop(s) \/ NotifyAll(s) PROVE TypeOK' /\ ListIsFifo' /\ Listed'
  BY <1>6, ListKept DEF SetStop, NotifyAll, TypeOK, Places, list, outcome
<1>7. CASE UNCHANGED vars \/ Done
  BY <1>7, ListKept DEF Done, vars, TypeOK, list, outcome
<1>8. QED BY <1>1, <1>2, <1>3, <1>4, <1>5, <1>6, <1>7, LinkStep, PopStep
      DEF Next, MainStep, ShareStep

\* Every step keeps who holds the mutex, how the sender ends and what is left.
LEMMA EndStep ==
  ASSUME LoopInv, [Next]_vars
  PROVE  Holding' /\ Ending' /\ Left' /\ After' /\ OutcomeIsDelivered'
<1> DEFINE Rest == Holding /\ Ending /\ Left /\ After /\ OutcomeIsDelivered
<1> USE LoopAssumption DEF LoopInv, TypeOK, MoveTo, Notify, Running, list, outcome,
        Holding, Ending, Left, After, OutcomeIsDelivered, Places
<1>1. ASSUME NEW s \in Shares, Link(s) PROVE Rest'
  BY <1>1 DEF Link
<1>2. ASSUME NEW s \in Shares, NotifyOne(s) PROVE Rest'
  BY <1>2 DEF NotifyOne
<1>3. CASE Wait \/ SpuriousWakeup
  BY <1>3 DEF Wait, SpuriousWakeup
<1>4. CASE Pop
  <2>1. next[head_] \in Shares /\ place[next[head_]] \in {"linked", "queued"}
    BY <1>4, ListFacts DEF Pop, Listed, Node, ListIsFifo
  <2>2. QED BY <1>4, <2>1 DEF Pop
<1>5. CASE Executed
  BY <1>5 DEF Executed
<1>6. CASE Return
  BY <1>6 DEF Return
<1>7. ASSUME NEW s \in Shares, EndShare(s) PROVE Rest'
  BY <1>7 DEF EndShare, Complete
<1>8. ASSUME NEW s \in Shares, SetStop(s) PROVE Rest'
  <2>1. completed # "no" /\ \A t \in Shares \ {s} : place[t] = "ended"
    BY <1>8 DEF SetStop
  <2>2. \A t \in Shares : place'[t] = IF t = s THEN "notify" ELSE "ended"
    BY <1>8, <2>1 DEF SetStop
  <2>3. Holding' /\ Ending'
    BY <1>8, <2>1, <2>2 DEF SetStop
  <2>4. Left' /\ After' /\ OutcomeIsDelivered'
    BY <1>8, <2>1 DEF SetStop
  <2>5. QED BY <2>3, <2>4
<1>9. ASSUME NEW s \in Shares, NotifyAll(s) PROVE Rest'
  BY <1>9 DEF NotifyAll
<1>10. CASE UNCHANGED vars \/ Done
  BY <1>10 DEF Done, vars
<1>11. QED BY <1>1, <1>2, <1>3, <1>4, <1>5, <1>6, <1>7, <1>8, <1>9, <1>10
       DEF Next, MainStep, ShareStep

\* The invariant holds in every reachable state.
LEMMA Invariance == Spec => []LoopInv
<1>1. LoopInv /\ [Next]_vars => LoopInv'
  BY TypeAndListStep, EndStep DEF LoopInv
<1>2. QED BY <1>1, InitEstablishesInv, PTL DEF Spec

-----------------------------------------------------------------------------
\* Type correctness.
THEOREM TypeCorrect == Spec => []TypeOK
<1>1. LoopInv => TypeOK BY DEF LoopInv
<1>2. QED BY <1>1, Invariance, PTL

\* The circular list of __run_loop.hpp:213-226 is a queue, for any number of
\* threads that push.
THEOREM LoopIsFifo == Spec => []ListIsFifo
<1>1. LoopInv => ListIsFifo BY DEF LoopInv
<1>2. QED BY <1>1, Invariance, PTL

\* Nobody is in the loop or in the list when sync_wait returns.
THEOREM NobodyIsLeft == Spec => []NothingAfterReturn
<1>1. ASSUME LoopInv PROVE NothingAfterReturn
  <2> SUFFICES ASSUME main = "returned"
               PROVE  queue = <<>> /\ mutex = Free /\ \A s \in Shares : place[s] = "ended"
    BY DEF NothingAfterReturn
  <2>1. mutex = Free /\ \A s \in Shares : place[s] = "ended"
    BY <1>1 DEF LoopInv, After
  <2>2. Len(queue) = 0
    <3>1. Len(queue) \in Nat /\ \A i \in 1 .. Len(queue) : queue[i] \in Shares
      BY <1>1, ListFacts DEF LoopInv
    <3>2. SUFFICES ASSUME 1 \in 1 .. Len(queue) PROVE FALSE
      BY <3>1
    <3>3. QED BY <1>1, <2>1, <3>1, <3>2 DEF LoopInv, Listed
  <2>3. QED BY <1>1, <2>1, <2>2 DEF LoopInv, TypeOK
<1>2. QED BY <1>1, Invariance, PTL

\* sync_wait returns what the sender completed with, and not before.
THEOREM OutcomeIsRight == Spec => []OutcomeIsDelivered
<1>1. LoopInv => OutcomeIsDelivered BY DEF LoopInv
<1>2. QED BY <1>1, Invariance, PTL
=============================================================================
