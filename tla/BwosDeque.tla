------------------------------- MODULE BwosDeque -------------------------------
(***************************************************************************)
(* exec::bwos::lifo_queue, the local queue of a worker: a ring of blocks.  *)
(* The owner pushes and pops at the back of its block; thieves take from   *)
(* the front of blocks the owner has granted.  owner_block_ and            *)
(* thief_block_ count blocks without wrapping; their remainder is a block. *)
(* In a block, head and tail are the owner's; steal_tail is the next entry *)
(* to claim, BlockSize when none may be; steal_head counts the entries     *)
(* thieves have finished reading; full are the entries that hold a value   *)
(* not yet read out.                                                       *)
(*                                                                         *)
(* A step is one access to memory the other side writes, with the private  *)
(* accesses next to it; atomics are sequentially consistent.  Any          *)
(* operation may be called at any time its thread is in none; a push of a  *)
(* single value is a push of a range of one.  The counters are integers;   *)
(* only their differences and remainders matter, which wrapping keeps.     *)
(***************************************************************************)
EXTENDS Integers, FiniteSets

CONSTANTS NumBlocks, BlockSize, Thieves,
          MaxRange,     \* bound: the longest range of one push_back
          MaxCounter    \* bound: no push_back begins beyond this block counter

ASSUME DequeAssumption == /\ NumBlocks \in Nat \ {0, 1}
                          /\ BlockSize \in Nat \ {0}
                          /\ MaxRange \in Nat \ {0} /\ MaxCounter \in Nat
                          /\ IsFiniteSet(Thieves)

Blocks == 0 .. NumBlocks - 1
Slots  == 0 .. BlockSize - 1

VARIABLES
  owner_block, thief_block,
  block,      \* the blocks: head, tail, steal_head, steal_tail, full
  op,         \* where the owner is in push_back or pop_back
  rest,       \* how many values the push_back at work has still to write
  at,         \* each thief: where it is in steal_front, the block counter it
              \* read, the entry it is after
  stale       \* history: thief_block_ went to a block no longer stealable

ownerVars == <<owner_block, op, rest>>
vars == <<thief_block, block, ownerVars, at, stale>>

Index(counter) == counter % NumBlocks     \* counter & mask_
Current        == Index(owner_block)

Idle == [pc |-> "idle", thief |-> 0, spos |-> 0]

TypeOK ==
  /\ owner_block \in Int /\ thief_block \in Int
  /\ block \in [Blocks -> [head: 0 .. BlockSize, tail: 0 .. BlockSize, steal_head: 0 .. BlockSize,
                           steal_tail: 0 .. BlockSize, full: SUBSET Slots]]
  /\ op \in {"idle", "put", "advance put", "reclaim", "get", "takeover", "compare thief",
             "store thief"}
  /\ rest \in 0 .. MaxRange
  /\ at \in [Thieves -> [pc: {"idle", "steal tail", "tail", "claim", "read", "finish", "advance",
                              "advance thief"}, thief: Int, spos: 0 .. BlockSize]]
  /\ stale \in BOOLEAN

\* The blocks as their constructor leaves them; the reclaim of block 1, the
\* first the owner uses, changes nothing.
Init ==
  /\ owner_block = 1 /\ thief_block = 0
  /\ block = [b \in Blocks |-> [head |-> 0, tail |-> 0, steal_head |-> 0,
                                steal_tail |-> BlockSize, full |-> {}]]
  /\ op = "idle" /\ rest = 0
  /\ at = [t \in Thieves |-> Idle]
  /\ stale = FALSE

is_writable(b)  == block[b].steal_tail = BlockSize
is_stealable(b) == block[b].steal_tail # BlockSize

\* The first entry of a block that nobody has claimed.
First(b) == IF is_stealable(b) THEN block[b].steal_tail ELSE block[b].head
-----------------------------------------------------------------------------
(***************************************************************************)
(* The owner: push_back.                                                   *)
(***************************************************************************)
bulk_put(n) ==
  /\ LET back   == block[Current].tail
         fitting == IF n < BlockSize - back THEN n ELSE BlockSize - back
     IN  /\ block' = [block EXCEPT ![Current].full = @ \cup (back .. back + fitting - 1),
                                   ![Current].tail = back + fitting]
         /\ rest' = n - fitting
         /\ op' = IF fitting = n THEN "idle" ELSE "advance put"
  /\ UNCHANGED <<thief_block, owner_block, at, stale>>

push_back ==
  \/ /\ op = "idle" /\ owner_block <= MaxCounter
     /\ \E n \in 1 .. MaxRange : bulk_put(n)
  \/ op = "put" /\ bulk_put(rest)

\* Bug: one block more is kept free than there has to be.
MutAdvancePut ==
  /\ op = "advance put"
  /\ LET next == owner_block + 1
     IN  IF next - thief_block \notin 0 .. NumBlocks - 2 \/ ~is_writable(Index(next))
         THEN op' = "idle" /\ rest' = 0 /\ UNCHANGED <<block, owner_block>>
         ELSE /\ block' = [block EXCEPT ![Current].head = BlockSize,
                                        ![Current].steal_tail = block[Current].head]
              /\ owner_block' = next
              /\ op' = "reclaim"
              /\ UNCHANGED rest
  /\ UNCHANGED <<thief_block, at, stale>>

\* thief_block_ can only grow before the grant, so reading it at the grant
\* allows no more than reading it before.  A negative difference wraps around
\* to a large one.
advance_put_index ==
  /\ op = "advance put"
  /\ LET next == owner_block + 1
     IN  IF next - thief_block \notin 0 .. NumBlocks - 1 \/ ~is_writable(Index(next))
         THEN op' = "idle" /\ rest' = 0 /\ UNCHANGED <<block, owner_block>>
         ELSE /\ block' = [block EXCEPT ![Current].head = BlockSize,
                                        ![Current].steal_tail = block[Current].head]
              /\ owner_block' = next
              /\ op' = "reclaim"
              /\ UNCHANGED rest
  /\ UNCHANGED <<thief_block, at, stale>>

\* Bug: the block is reused without waiting for its readers.
MutReclaim ==
  /\ op = "reclaim"
  /\ block' = [block EXCEPT ![Current] = [@ EXCEPT !.head = 0, !.tail = 0, !.steal_head = 0,
                                                   !.steal_tail = BlockSize]]
  /\ op' = "put"
  /\ UNCHANGED <<thief_block, owner_block, rest, at, stale>>

\* Spins until the thieves of the block's last use have read their entries.
reclaim ==
  /\ op = "reclaim"
  /\ block[Current].steal_head = block[Current].tail
  /\ block' = [block EXCEPT ![Current] = [@ EXCEPT !.head = 0, !.tail = 0, !.steal_head = 0,
                                                   !.steal_tail = BlockSize]]
  /\ op' = "put"
  /\ UNCHANGED <<thief_block, owner_block, rest, at, stale>>
-----------------------------------------------------------------------------
(***************************************************************************)
(* The owner: pop_back.                                                    *)
(***************************************************************************)
get ==
  /\ op \in {"idle", "get"}
  /\ LET front == block[Current].head
         back  == block[Current].tail
     IN  IF front \in {back, BlockSize}
         THEN op' = (IF front = BlockSize THEN "idle" ELSE "takeover") /\ UNCHANGED block
         ELSE /\ block' = [block EXCEPT ![Current].full = @ \ {back - 1},
                                        ![Current].tail = back - 1]
              /\ op' = "idle"
  /\ UNCHANGED <<thief_block, owner_block, rest, at, stale>>

Predecessor == owner_block - 1

\* Bug: a block with one entry left is taken for an empty one.
MutTakeover ==
  /\ op = "takeover"
  /\ LET b     == Index(Predecessor)
         front == First(b)
     IN  /\ block' = [block EXCEPT ![b].steal_tail = BlockSize, ![b].head = front]
         /\ op' = IF front + 1 >= block[b].tail THEN "idle" ELSE "compare thief"
  /\ UNCHANGED <<thief_block, owner_block, rest, at, stale>>

takeover ==
  /\ op = "takeover"
  /\ LET b     == Index(Predecessor)
         front == First(b)
     IN  /\ block' = [block EXCEPT ![b].steal_tail = BlockSize, ![b].head = front]
         /\ op' = IF front = block[b].tail THEN "idle" ELSE "compare thief"
  /\ UNCHANGED <<thief_block, owner_block, rest, at, stale>>

advance_get_index ==
  /\ \/ /\ op = "compare thief"
        /\ IF thief_block = Predecessor
           THEN op' = "store thief" /\ UNCHANGED owner_block
           ELSE op' = "get" /\ owner_block' = Predecessor
        /\ UNCHANGED thief_block
     \/ /\ op = "store thief"
        /\ thief_block' = Predecessor + NumBlocks - 1
        /\ owner_block' = Predecessor + NumBlocks
        /\ op' = "get"
  /\ UNCHANGED <<block, rest, at, stale>>
-----------------------------------------------------------------------------
(***************************************************************************)
(* A thief: steal_front.                                                   *)
(***************************************************************************)
Victim(t) == Index(at[t].thief)
Goto(t, label) == at' = [at EXCEPT ![t].pc = label]
Return(t) == at' = [at EXCEPT ![t] = Idle]

\* The loop of steal_front begins, and begins again.
steal_front(t) ==
  /\ at[t] = Idle
  /\ at' = [at EXCEPT ![t].thief = thief_block, ![t].pc = "steal tail"]
  /\ UNCHANGED <<thief_block, block, ownerVars, stale>>

ReadStealTail(t) ==
  /\ at[t].pc = "steal tail"
  /\ IF is_stealable(Victim(t))
     THEN at' = [at EXCEPT ![t].spos = block[Victim(t)].steal_tail, ![t].pc = "tail"]
     ELSE Goto(t, "advance")
  /\ UNCHANGED <<thief_block, block, ownerVars, stale>>

ReadTail(t) ==
  /\ at[t].pc = "tail"
  /\ IF at[t].spos = block[Victim(t)].tail THEN Return(t) ELSE Goto(t, "claim")
  /\ UNCHANGED <<thief_block, block, ownerVars, stale>>

\* Bug: steal_tail_ is incremented without comparing it.
MutClaim(t) ==
  /\ at[t].pc = "claim" /\ is_stealable(Victim(t))
  /\ block' = [block EXCEPT ![Victim(t)].steal_tail = @ + 1]
  /\ Goto(t, "read")
  /\ UNCHANGED <<thief_block, ownerVars, stale>>

\* compare_exchange_strong of steal_tail_; after a conflict it tries again.
Claim(t) ==
  /\ at[t].pc = "claim"
  /\ IF block[Victim(t)].steal_tail = at[t].spos
     THEN /\ block' = [block EXCEPT ![Victim(t)].steal_tail = @ + 1]
          /\ stale' = (stale \/ thief_block # at[t].thief)
          /\ Goto(t, "read")
     ELSE /\ at' = [at EXCEPT ![t].pc = "steal tail", ![t].spos = 0]
          /\ UNCHANGED <<block, stale>>
  /\ UNCHANGED <<thief_block, ownerVars>>

ReadEntry(t) ==
  /\ at[t].pc = "read"
  /\ block' = [block EXCEPT ![Victim(t)].full = @ \ {at[t].spos}]
  /\ Goto(t, "finish")
  /\ UNCHANGED <<thief_block, ownerVars, stale>>

\* Bug: the entry is read and not counted as read.
MutFinishSteal(t) ==
  /\ at[t].pc = "finish"
  /\ Return(t)
  /\ UNCHANGED <<thief_block, block, ownerVars, stale>>

FinishSteal(t) ==
  /\ at[t].pc = "finish"
  /\ block' = [block EXCEPT ![Victim(t)].steal_head = @ + 1]
  /\ Return(t)
  /\ UNCHANGED <<thief_block, ownerVars, stale>>

\* The next block is stealable, or steal_front ends: without a value, or by
\* beginning again when thief_block_ has moved.
advance_steal_index(t) ==
  /\ \/ /\ at[t].pc = "advance"
        /\ IF is_stealable(Index(at[t].thief + 1)) THEN Goto(t, "advance thief") ELSE Return(t)
        /\ UNCHANGED <<thief_block, stale>>
     \/ /\ at[t].pc = "advance thief"
        /\ IF thief_block = at[t].thief
           THEN /\ thief_block' = thief_block + 1
                /\ stale' = (stale \/ ~is_stealable(Index(thief_block + 1)))
           ELSE UNCHANGED <<thief_block, stale>>
        /\ Return(t)
  /\ UNCHANGED <<block, ownerVars>>
-----------------------------------------------------------------------------
OwnerStep ==
  \/ push_back \/ advance_put_index \/ reclaim
  \/ get \/ takeover \/ advance_get_index

StealStep(t) ==
  \/ ReadStealTail(t) \/ ReadTail(t) \/ Claim(t) \/ ReadEntry(t) \/ FinishSteal(t)
  \/ advance_steal_index(t)

Next == OwnerStep \/ \E t \in Thieves : steal_front(t) \/ StealStep(t)

Spec == Init /\ [][Next]_vars
-----------------------------------------------------------------------------
(***************************************************************************)
(* Properties.                                                             *)
(***************************************************************************)
\* The entries nobody has claimed and those a thief has claimed and not read.
Unclaimed == {e \in Blocks \X Slots : e[2] \in First(e[1]) .. block[e[1]].tail - 1}
Reading   == {t \in Thieves : at[t].pc = "read"}
Claimed   == {<<Victim(t), at[t].spos>> : t \in Reading}

\* No value is lost or given out twice: the entries that hold a value are
\* those unclaimed and those claimed by one thief, and no entry is both; an
\* entry is not reused under a thief that is about to read it (lines 377-464).
AccountedFor ==
  /\ {e \in Blocks \X Slots : e[2] \in block[e[1]].full} = Unclaimed \cup Claimed
  /\ Unclaimed \cap Claimed = {}
  /\ \A t, u \in Reading : Victim(t) = Victim(u) /\ at[t].spos = at[u].spos => t = u

\* The assertion of advance_put_index (line 269).
OwnerIsAhead == op = "advance put" => thief_block < owner_block + 1

get_free_capacity ==
  (BlockSize - block[Current].tail) + (NumBlocks - (owner_block - thief_block) - 1) * BlockSize

\* push_back refuses a value only when get_free_capacity is 0: the block that
\* the counters say is free is writable (lines 218-227, 270-277).
FullMeansFull == [][op = "advance put" /\ op' = "idle" /\ ~stale => get_free_capacity = 0]_vars

\* pop_back returns without a value only when no value is left for anyone to
\* claim, although it looks at two blocks only (lines 157-171, 245-262).
EmptyMeansEmpty ==
  [][op' = "idle" /\ op \in {"get", "takeover"} /\ Unclaimed' = Unclaimed /\ ~stale
       => Unclaimed = {}]_vars

\* push_back and pop_back return.  reclaim spins only while a thief has yet to
\* finish reading from the block, which takes that thief two steps of its own;
\* and the round of pop_back's loop that follows a takeover finds a value, so
\* the owner does not go round the ring (lines 158-171, 251-259, 443-447).
NoEndlessSpin ==
  /\ op = "reclaim" /\ block[Current].steal_head # block[Current].tail
       => \E t \in Thieves : Victim(t) = Current /\ at[t].pc \in {"read", "finish"}
  /\ op = "get" => block[Current].head \notin {block[Current].tail, BlockSize}

\* The deque is the bag of tasks the pool takes it for.
Promise == INSTANCE WorkBag WITH Items <- Blocks \X Slots, bag <- Unclaimed, claimed <- Claimed

DequeIsBag == Promise!BagSpec
=============================================================================
