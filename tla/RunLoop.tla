-------------------------------- MODULE RunLoop --------------------------------
(***************************************************************************)
(* stdexec::sync_wait and the run_loop it drives.  The sender is a number  *)
(* of shares that run at the same time; a share runs on a thread of its    *)
(* own or, after scheduling itself on the loop, on the main thread.  The   *)
(* last share to end completes the receiver, which ends the loop.          *)
(*                                                                         *)
(* The loop's tasks are a circular list through head_.  What a thread does *)
(* with the mutex held and without notifying is one step.                  *)
(***************************************************************************)
EXTENDS Naturals, Sequences

CONSTANTS Shares,
          head_,       \* the loop's own node of the list
          Free,        \* no thread holds the mutex
          MaxPushes    \* bound: how often shares schedule themselves

ASSUME LoopAssumption == /\ head_ \notin Shares /\ Free \notin Shares
                         /\ {"pop", "waiting", "returned"} \cap Shares = {}
                         /\ MaxPushes \in Nat

VARIABLES
  next, tail,       \* __next_ of every node and __tail_ of head_
  mutex, stop,
  main,             \* where the main thread is, or the share it executes
  place,            \* where each share is
  result, eptr,     \* what the receiver has left for sync_wait
  returned,         \* how sync_wait ended: a value, no value, an exception
  queue,            \* history: the shares pushed and not popped, in order
  completed,        \* history: how the sender completed
  pushes

list == <<next, tail, queue>>
outcome == <<result, eptr, completed>>
vars == <<list, mutex, stop, main, place, outcome, returned, pushes>>

Nodes == Shares \cup {head_}

Places == {"away", "main", "linked", "queued", "finish", "notify", "ended"}

TypeOK ==
  /\ next \in [Nodes -> Nodes] /\ tail \in Nodes
  /\ mutex \in Shares \cup {Free} /\ stop \in BOOLEAN
  /\ main \in {"pop", "waiting", "returned"} \cup Shares
  /\ place \in [Shares -> Places]
  /\ result \in {"empty", "value"} /\ eptr \in {"null", "set"}
  /\ returned \in {"no", "value", "empty", "error"}
  /\ queue \in Seq(Shares)
  /\ completed \in {"no", "value", "empty", "error"}
  /\ pushes \in 0 .. MaxPushes

\* start has handed each share to its thread; run is about to be called.
Init ==
  /\ next = [n \in Nodes |-> n] /\ tail = head_ /\ queue = <<>>
  /\ mutex = Free /\ stop = FALSE
  /\ main = "pop"
  /\ place = [s \in Shares |-> "away"]
  /\ result = "empty" /\ eptr = "null" /\ completed = "no"
  /\ returned = "no"
  /\ pushes = 0

Running(s) == place[s] \in {"away", "main"}
MoveTo(s, p) == place' = [place EXCEPT ![s] = p]
Notify == main' = IF main = "waiting" THEN "pop" ELSE main
-----------------------------------------------------------------------------
(***************************************************************************)
(* A share schedules itself on the loop: __operation::start, __push_back_. *)
(***************************************************************************)
Link(s) ==
  /\ Running(s) /\ pushes < MaxPushes
  /\ mutex = Free
  /\ mutex' = s
  /\ next' = [next EXCEPT ![s] = head_, ![tail] = s]
  /\ tail' = s
  /\ queue' = Append(queue, s)
  /\ pushes' = pushes + 1
  /\ MoveTo(s, "linked")
  /\ UNCHANGED <<stop, main, outcome, returned>>

NotifyOne(s) ==
  /\ place[s] = "linked"
  /\ Notify
  /\ mutex' = Free
  /\ MoveTo(s, "queued")
  /\ UNCHANGED <<list, stop, outcome, returned, pushes>>
-----------------------------------------------------------------------------
(***************************************************************************)
(* The main thread: run, __pop_front_ and the end of sync_wait.            *)
(***************************************************************************)
Wait ==
  /\ main = "pop" /\ mutex = Free
  /\ next[head_] = head_ /\ ~stop
  /\ main' = "waiting"
  /\ UNCHANGED <<list, mutex, stop, place, outcome, returned, pushes>>

SpuriousWakeup ==
  /\ main = "waiting"
  /\ main' = "pop"
  /\ UNCHANGED <<list, mutex, stop, place, outcome, returned, pushes>>

\* Bug: __tail_ keeps pointing at a task that has left the list.
MutPop ==
  /\ main = "pop" /\ mutex = Free
  /\ next[head_] # head_
  /\ next' = [next EXCEPT ![head_] = next[next[head_]]]
  /\ queue' = Tail(queue)
  /\ main' = next[head_]
  /\ MoveTo(next[head_], "main")
  /\ UNCHANGED <<tail, mutex, stop, outcome, returned, pushes>>

Pop ==
  /\ main = "pop" /\ mutex = Free
  /\ next[head_] # head_
  /\ tail' = IF tail = next[head_] THEN head_ ELSE tail
  /\ next' = [next EXCEPT ![head_] = next[next[head_]]]
  /\ queue' = Tail(queue)
  /\ main' = next[head_]
  /\ MoveTo(next[head_], "main")
  /\ UNCHANGED <<mutex, stop, outcome, returned, pushes>>

\* The task's function returns: its share goes on elsewhere, or is done with.
Executed ==
  /\ main \in Shares /\ place[main] \in {"main", "queued", "ended"}
  /\ main' = "pop"
  /\ place' = [place EXCEPT ![main] = IF @ = "main" THEN "away" ELSE @]
  /\ UNCHANGED <<list, mutex, stop, outcome, returned, pushes>>

\* Bug: the exception is not looked at.
MutReturn ==
  /\ main = "pop" /\ mutex = Free
  /\ next[head_] = head_ /\ stop
  /\ returned' = result
  /\ main' = "returned"
  /\ UNCHANGED <<list, mutex, stop, place, outcome, pushes>>

\* An empty list with the stop flag set pops head_, the sign to leave run.
Return ==
  /\ main = "pop" /\ mutex = Free
  /\ next[head_] = head_ /\ stop
  /\ returned' = IF eptr = "set" THEN "error" ELSE result
  /\ main' = "returned"
  /\ UNCHANGED <<list, mutex, stop, place, outcome, pushes>>
-----------------------------------------------------------------------------
(***************************************************************************)
(* The receiver, and run_loop::finish.                                     *)
(***************************************************************************)
\* A value whose copy throws is an error.
Complete(c) ==
  /\ completed' = c
  /\ result' = IF c = "value" THEN "value" ELSE result
  /\ eptr' = IF c = "error" THEN "set" ELSE eptr

EndShare(s) ==
  /\ Running(s)
  /\ IF \A t \in Shares \ {s} : place[t] = "ended"
     THEN MoveTo(s, "finish") /\ \E c \in {"value", "empty", "error"} : Complete(c)
     ELSE MoveTo(s, "ended") /\ UNCHANGED outcome
  /\ UNCHANGED <<list, mutex, stop, main, returned, pushes>>

\* Bug: the flag is set without the mutex.
MutSetStop(s) ==
  /\ place[s] = "finish"
  /\ stop' = TRUE
  /\ MoveTo(s, "notify")
  /\ UNCHANGED <<list, mutex, main, outcome, returned, pushes>>

SetStop(s) ==
  /\ place[s] = "finish" /\ mutex = Free
  /\ mutex' = s /\ stop' = TRUE
  /\ MoveTo(s, "notify")
  /\ UNCHANGED <<list, main, outcome, returned, pushes>>

\* Bug: nobody is woken.
MutNotifyAll(s) ==
  /\ place[s] = "notify"
  /\ mutex' = Free
  /\ MoveTo(s, "ended")
  /\ UNCHANGED <<list, stop, main, outcome, returned, pushes>>

NotifyAll(s) ==
  /\ place[s] = "notify"
  /\ Notify
  /\ mutex' = Free
  /\ MoveTo(s, "ended")
  /\ UNCHANGED <<list, stop, outcome, returned, pushes>>
-----------------------------------------------------------------------------
ShareStep(s) == Link(s) \/ NotifyOne(s) \/ EndShare(s) \/ SetStop(s) \/ NotifyAll(s)

MainStep == Wait \/ Pop \/ Executed \/ Return

Done == main = "returned" /\ UNCHANGED vars

Next == MainStep \/ SpuriousWakeup \/ Done \/ \E s \in Shares : ShareStep(s)

\* Each thread runs; the waiting thread is owed no spurious wakeup.
Spec == /\ Init /\ [][Next]_vars
        /\ WF_vars(MainStep) /\ \A s \in Shares : WF_vars(ShareStep(s))
-----------------------------------------------------------------------------
(***************************************************************************)
(* Properties.                                                             *)
(***************************************************************************)
\* The circular list holds the tasks that were pushed and not yet popped, in
\* the order of the pushes, and __tail_ is the last (lines 213-226).
Node(q, i) == IF i \in 1 .. Len(q) THEN q[i] ELSE head_

ListIsFifo ==
  /\ \A i \in 0 .. Len(queue) : next[Node(queue, i)] = Node(queue, i + 1)
  /\ tail = Node(queue, Len(queue))

\* When sync_wait has returned, and the loop with its mutex and the operation
\* state are gone, no task is left in the list and no thread is inside
\* __push_back_ or finish or has a share to run (__sync_wait.hpp 276-293).
NothingAfterReturn ==
  main = "returned" => queue = <<>> /\ mutex = Free /\ \A s \in Shares : place[s] = "ended"

\* sync_wait returns the values, nothing or the exception, whichever the
\* sender completed with, and not before it did (__sync_wait.hpp 104-129, 289-293).
OutcomeIsDelivered == returned = "no" \/ returned = completed

\* sync_wait returns: no push and no finish is missed by the waiting thread.
SyncWaitEnds == <>(main = "returned")
=============================================================================
