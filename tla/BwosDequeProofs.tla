---------------------------- MODULE BwosDequeProofs ----------------------------
(***************************************************************************)
(* The deque neither loses a value nor gives one out twice, for any number *)
(* of blocks, entries and thieves, whatever the counters of blocks do:     *)
(* proofs about BwosDeque.                                                 *)
(***************************************************************************)
EXTENDS BwosDeque, FiniteSetTheorems, TLAPS

\* The entries of a block are ordered: claimed, unclaimed, empty.  Only a full
\* block is granted, and it counts as headless until it is taken over.
Ordered(b) ==
  /\ First(b) <= block[b].tail
  /\ is_stealable(b) => block[b].head = BlockSize /\ block[b].tail = BlockSize

\* The block the owner is about to move back to, once it has taken it over.
TakenOver(b) == op \in {"compare thief", "store thief"} /\ b = Index(Predecessor)

\* The owner's block is not granted and is full when the owner moves on; every
\* other block that is not granted is empty, or taken over a moment ago.
Owned ==
  /\ is_writable(Current)
  /\ op = "advance put" => block[Current].tail = BlockSize
  /\ op \in {"reclaim", "takeover", "compare thief", "store thief"} =>
       block[Current].head = block[Current].tail
  /\ op = "get" => block[Current].head # block[Current].tail
  /\ \A b \in Blocks : TakenOver(b) => is_writable(b) /\ block[b].head # block[b].tail
  /\ \A b \in Blocks : b # Current /\ is_writable(b) /\ ~TakenOver(b) =>
       block[b].head = block[b].tail

Inside(t) == at[t].pc \in {"read", "finish"}
Readers(b) == {t \in Thieves : Victim(t) = b /\ Inside(t)}

\* A thief is after an entry below the limit, and has claimed it for itself.
Stealing ==
  /\ \A t \in Thieves : at[t].pc \in {"tail", "claim", "read", "finish"} => at[t].spos < BlockSize
  /\ \A t \in Reading : at[t].spos < First(Victim(t))
  /\ \A t, u \in Reading : Victim(t) = Victim(u) /\ at[t].spos = at[u].spos => t = u

\* The claimed entries of a block are those read and those being read.
Counted(b) == block[b].steal_head + Cardinality(Readers(b)) = First(b)

\* A block holds the values nobody has claimed and those claimed and not read.
ClaimedIn(b) == {at[t].spos : t \in {u \in Reading : Victim(u) = b}}
Filled(b) == block[b].full = (First(b) .. block[b].tail - 1) \cup ClaimedIn(b)

DequeInv ==
  /\ TypeOK /\ Owned /\ Stealing
  /\ \A b \in Blocks : Ordered(b) /\ Counted(b) /\ Filled(b)
-----------------------------------------------------------------------------
(***************************************************************************)
(* Counters and blocks.                                                    *)
(***************************************************************************)
\* A product that is smaller than its factor is 0.
LEMMA SmallProduct ==
  ASSUME NEW n \in Nat \ {0}, NEW d \in Int, -n < n * d, n * d < n
  PROVE  d = 0
<1>1. CASE d >= 1
  <2>1. PICK k \in Nat : d = k + 1
    BY <1>1
  <2>2. n * k >= 0
    BY <2>1
  <2>3. n * d = n * k + n
    BY <2>1
  <2>4. QED BY <2>2, <2>3
<1>2. CASE d <= -1
  <2>1. PICK k \in Nat : d = -1 - k
    BY <1>2
  <2>2. n * k >= 0
    BY <2>1
  <2>3. n * d = -n - n * k
    BY <2>1
  <2>4. QED BY <2>2, <2>3
<1>3. QED BY <1>1, <1>2

LEMMA DivMod ==
  ASSUME NEW c \in Int, NEW n \in Nat \ {0}
  PROVE  c % n \in 0 .. n - 1 /\ \E q \in Int : c = n * q + (c % n)
<1>1. c \div n \in Int /\ c % n \in 0 .. n - 1 /\ c = n * (c \div n) + (c % n)
  OBVIOUS
<1>2. QED BY <1>1

\* Two counters with the same remainder are whole rounds apart.
LEMMA SameRemainder ==
  ASSUME NEW n \in Nat \ {0}, NEW c \in Int, NEW d \in Int, c % n = d % n
  PROVE  \E q \in Int : c - d = n * q
<1>1. PICK q \in Int : c = n * q + (c % n)
  BY DivMod
<1>2. PICK r \in Int : d = n * r + (d % n)
  BY DivMod
<1>3. n * (q - r) = n * q - n * r
  OBVIOUS
<1>4. c % n \in Int
  BY DivMod
<1>5. c - d = n * (q - r)
  BY <1>1, <1>2, <1>3, <1>4
<1>6. QED BY <1>5

\* A whole round changes no remainder.
LEMMA RoundLater ==
  ASSUME NEW n \in Nat \ {0}, NEW c \in Int
  PROVE  (c + n) % n = c % n
<1>1. ASSUME NEW q \in Int, NEW r \in Int, NEW x \in 0 .. n - 1, NEW y \in 0 .. n - 1,
             c = n * q + x, c + n = n * r + y
      PROVE  x = y
  <2>1. n * (q + 1 - r) = n * q + n - n * r
    OBVIOUS
  <2>2. n * q \in Int /\ n * r \in Int
    OBVIOUS
  <2>3. n * (q + 1 - r) = y - x
    BY <1>1, <2>1, <2>2
  <2>4. q + 1 - r = 0
    BY <2>3, SmallProduct
  <2>5. n * 0 = 0
    OBVIOUS
  <2>6. QED BY <2>3, <2>4, <2>5
<1>2. PICK q \in Int : c = n * q + (c % n)
  BY DivMod
<1>3. c + n \in Int
  OBVIOUS
<1>4. PICK r \in Int : c + n = n * r + ((c + n) % n)
  BY <1>3, DivMod
<1>5. c % n \in 0 .. n - 1 /\ (c + n) % n \in 0 .. n - 1
  BY <1>3, DivMod
<1>6. QED BY <1>1, <1>2, <1>4, <1>5

\* The ring has more than one block: neighbours have different remainders.
LEMMA NeighboursDiffer ==
  ASSUME NEW n \in Nat \ {0, 1}, NEW c \in Int
  PROVE  (c + 1) % n # c % n
<1> SUFFICES ASSUME (c + 1) % n = c % n PROVE FALSE
  OBVIOUS
<1>1. PICK q \in Int : (c + 1) - c = n * q
  BY SameRemainder, c + 1 \in Int
<1>2. n * q = 1
  BY <1>1
<1>3. q = 0
  BY <1>2, SmallProduct
<1>4. n * 0 = 0
  OBVIOUS
<1>5. QED BY <1>2, <1>3, <1>4

\* A counter names a block, neighbours name different ones, and a whole round
\* of the ring leads back.
LEMMA Ring ==
  ASSUME NEW c \in Int
  PROVE  /\ Index(c) \in Blocks
         /\ Index(c + 1) # Index(c)
         /\ Index(c - 1) # Index(c)
         /\ Index(c + NumBlocks) = Index(c)
<1>1. NumBlocks \in Nat \ {0, 1}
  BY DequeAssumption
<1>2. Index(c) \in Blocks
  BY <1>1, DivMod DEF Index, Blocks
<1>3. Index(c + 1) # Index(c)
  BY <1>1, NeighboursDiffer DEF Index
<1>4. Index(c - 1) # Index(c)
  <2>1. c - 1 \in Int /\ (c - 1) + 1 = c
    OBVIOUS
  <2>2. ((c - 1) + 1) % NumBlocks # (c - 1) % NumBlocks
    BY <1>1, <2>1, NeighboursDiffer
  <2>3. QED BY <2>1, <2>2 DEF Index
<1>5. Index(c + NumBlocks) = Index(c)
  BY <1>1, RoundLater DEF Index
<1>6. QED BY <1>2, <1>3, <1>4, <1>5
-----------------------------------------------------------------------------
(***************************************************************************)
(* What a step writes into one block.                                      *)
(***************************************************************************)
BlockRec == [head: 0 .. BlockSize, tail: 0 .. BlockSize, steal_head: 0 .. BlockSize,
                           steal_tail: 0 .. BlockSize, full: SUBSET Slots]
\* Block b of C has these fields, and every other block is as in B.
Becomes(B, C, b, head, tail, steal_head, steal_tail, full) ==
  /\ \A c \in Blocks \ {b} : C[c] = B[c]
  /\ C[b].head = head /\ C[b].tail = tail
  /\ C[b].steal_head = steal_head /\ C[b].steal_tail = steal_tail /\ C[b].full = full
  /\ head \in 0 .. BlockSize /\ tail \in 0 .. BlockSize /\ steal_head \in 0 .. BlockSize
     /\ steal_tail \in 0 .. BlockSize /\ full \subseteq Slots
     => C \in [Blocks -> BlockRec]

\* A push or a pop of the owner.
LEMMA EntriesUpdate ==
  ASSUME NEW B \in [Blocks -> BlockRec], NEW b \in Blocks, NEW f, NEW t
  PROVE  Becomes(B, [B EXCEPT ![b].full = f, ![b].tail = t], b,
                 B[b].head, t, B[b].steal_head, B[b].steal_tail, f)
  BY DEF BlockRec, Becomes

\* A grant, and a takeover.
LEMMA GrantUpdate ==
  ASSUME NEW B \in [Blocks -> BlockRec], NEW b \in Blocks, NEW h, NEW s
  PROVE  /\ Becomes(B, [B EXCEPT ![b].head = h, ![b].steal_tail = s], b,
                    h, B[b].tail, B[b].steal_head, s, B[b].full)
         /\ Becomes(B, [B EXCEPT ![b].steal_tail = s, ![b].head = h], b,
                    h, B[b].tail, B[b].steal_head, s, B[b].full)
  BY DEF BlockRec, Becomes

\* A reclaim.
LEMMA ReclaimUpdate ==
  ASSUME NEW B \in [Blocks -> BlockRec], NEW b \in Blocks
  PROVE  Becomes(B, [B EXCEPT ![b] = [@ EXCEPT !.head = 0, !.tail = 0, !.steal_head = 0,
                                                   !.steal_tail = BlockSize]], b,
                 0, 0, 0, BlockSize, B[b].full)
  BY DEF BlockRec, Becomes

\* The claim, the end and the read of a thief.
LEMMA StealUpdate ==
  ASSUME NEW B \in [Blocks -> BlockRec], NEW b \in Blocks, NEW x
  PROVE  /\ Becomes(B, [B EXCEPT ![b].steal_tail = x], b,
                    B[b].head, B[b].tail, B[b].steal_head, x, B[b].full)
         /\ Becomes(B, [B EXCEPT ![b].steal_head = x], b,
                    B[b].head, B[b].tail, x, B[b].steal_tail, B[b].full)
         /\ Becomes(B, [B EXCEPT ![b].full = x], b,
                    B[b].head, B[b].tail, B[b].steal_head, B[b].steal_tail, x)
  BY DEF BlockRec, Becomes
-----------------------------------------------------------------------------
(***************************************************************************)
(* Readers.                                                                *)
(***************************************************************************)
LEMMA ReadersFinite ==
  ASSUME NEW b \in Blocks
  PROVE  IsFiniteSet(Readers(b)) /\ Cardinality(Readers(b)) \in Nat
<1>1. Readers(b) \subseteq Thieves
  BY DEF Readers
<1>2. IsFiniteSet(Readers(b))
  BY <1>1, DequeAssumption, FS_Subset
<1>3. QED BY <1>2, FS_CardinalityType

\* A block is not the owner's next or last: neighbours on the ring differ.
LEMMA Neighbours ==
  ASSUME TypeOK
  PROVE  /\ owner_block \in Int /\ Current \in Blocks
         /\ Index(owner_block + 1) \in Blocks /\ Index(owner_block + 1) # Current
         /\ Index(Predecessor) \in Blocks /\ Index(Predecessor) # Current
         /\ Predecessor \in Int /\ Index(Predecessor + NumBlocks) = Index(Predecessor)
<1>0. owner_block \in Int
  BY DEF TypeOK
<1>1. owner_block \in Int /\ owner_block + 1 \in Int /\ owner_block - 1 \in Int
  BY <1>0
<1>2. Index(owner_block) \in Blocks
  BY <1>1, Ring
<1>3. Index(owner_block + 1) \in Blocks /\ Index(owner_block + 1) # Index(owner_block)
  BY <1>1, Ring
<1>4. /\ Index(owner_block - 1) \in Blocks /\ Index(owner_block - 1) # Index(owner_block)
      /\ Index((owner_block - 1) + NumBlocks) = Index(owner_block - 1)
  BY <1>1, Ring
<1>5. QED BY <1>1, <1>2, <1>3, <1>4 DEF Current, Predecessor

\* The numbers of a block are between its ends.
LEMMA BlockType ==
  ASSUME TypeOK, NEW b \in Blocks
  PROVE  /\ block[b].head \in 0 .. BlockSize /\ block[b].tail \in 0 .. BlockSize
         /\ block[b].steal_head \in 0 .. BlockSize /\ block[b].steal_tail \in 0 .. BlockSize
         /\ block[b].full \subseteq Slots /\ First(b) \in 0 .. BlockSize
         /\ BlockSize \in Nat \ {0}
  BY DequeAssumption DEF TypeOK, First

\* A block that is neither granted nor the owner's is empty.
LEMMA OthersAreEmpty ==
  ASSUME DequeInv, NEW c \in Blocks, c # Current, is_writable(c), ~TakenOver(c)
  PROVE  block[c].head = block[c].tail
  BY Zenon DEF DequeInv, Owned

\* A thief that is about to read is after an entry of a block that is claimed.
LEMMA ReaderIsBelow ==
  ASSUME DequeInv, NEW t \in Reading
  PROVE  /\ t \in Thieves /\ Victim(t) \in Blocks /\ at[t].spos < First(Victim(t))
         /\ at[t].spos \in 0 .. BlockSize
<1>1. t \in Thieves
  BY DEF Reading
<1>2. at[t].thief \in Int /\ at[t].spos \in 0 .. BlockSize
  BY <1>1 DEF DequeInv, TypeOK
<1>3. QED BY <1>1, <1>2, Ring DEF DequeInv, Stealing, Victim

\* What a block says is kept by a step that leaves it and its readers alone.
LEMMA BlockKept ==
  ASSUME NEW b \in Blocks, block'[b] = block[b],
         Readers(b)' = Readers(b), ClaimedIn(b)' = ClaimedIn(b),
         Ordered(b), Counted(b), Filled(b)
  PROVE  Ordered(b)' /\ Counted(b)' /\ Filled(b)'
  BY DEF Ordered, Counted, Filled, First, is_stealable

\* The initial states satisfy the inductive invariant.
LEMMA InitEstablishesInv == Init => DequeInv
<1> SUFFICES ASSUME Init PROVE DequeInv
  OBVIOUS
<1> USE DequeAssumption DEF Init, Idle
<1>1. TypeOK
  <2>1. block \in [Blocks -> [head: 0 .. BlockSize, tail: 0 .. BlockSize, steal_head: 0 .. BlockSize,
                              steal_tail: 0 .. BlockSize, full: SUBSET Slots]]
    OBVIOUS
  <2>2. at \in [Thieves -> [pc: {"idle", "steal tail", "tail", "claim", "read", "finish", "advance",
                                "advance thief"}, thief: Int, spos: 0 .. BlockSize]]
    OBVIOUS
  <2>3. rest \in 0 .. MaxRange /\ owner_block \in Int /\ thief_block \in Int
        /\ op = "idle" /\ stale = FALSE
    OBVIOUS
  <2>4. QED BY ONLY <2>1, <2>2, <2>3 DEF TypeOK
<1>2. Owned
  BY <1>1, Neighbours DEF Owned, is_writable, TakenOver
<1>3. Stealing
  BY DEF Stealing, Reading
<1>4. \A b \in Blocks : Ordered(b) /\ Counted(b) /\ Filled(b)
  <2> TAKE b \in Blocks
  <2>1. First(b) = 0
    BY DEF First, is_stealable
  <2>2. Readers(b) = {} /\ ClaimedIn(b) = {}
    BY DEF Readers, Inside, ClaimedIn, Reading
  <2>3. Ordered(b)
    BY <2>1 DEF Ordered, is_stealable
  <2>4. Counted(b)
    BY <2>1, <2>2, FS_EmptySet DEF Counted
  <2>5. Filled(b)
    <3>1. block[b].full = {} /\ block[b].tail = 0
      OBVIOUS
    <3>2. 0 .. 0 - 1 = {}
      OBVIOUS
    <3>3. QED BY <2>1, <2>2, <3>1, <3>2 DEF Filled
  <2>6. QED BY <2>3, <2>4, <2>5
<1>5. QED BY <1>1, <1>2, <1>3, <1>4 DEF DequeInv
-----------------------------------------------------------------------------
(***************************************************************************)
(* The owner's steps.                                                      *)
(***************************************************************************)
\* A step of the owner moves no thief.
LEMMA OwnerLeavesReaders ==
  ASSUME at' = at
  PROVE  Reading' = Reading /\ \A b \in Blocks : Readers(b)' = Readers(b) /\ ClaimedIn(b)' = ClaimedIn(b)
<1>1. Reading' = Reading
  BY DEF Reading
<1>2. ASSUME NEW b \in Blocks PROVE Readers(b)' = Readers(b) /\ ClaimedIn(b)' = ClaimedIn(b)
  BY <1>1 DEF Readers, ClaimedIn, Inside, Victim
<1>3. QED BY <1>1, <1>2

\* What the rest of the pool sees of a step: nothing.
Unseen == Unclaimed' = Unclaimed /\ Claimed' = Claimed

\* The values that nobody has claimed depend on where they begin and end.
LEMMA SameEnds ==
  ASSUME \A b \in Blocks : First(b)' = First(b) /\ block'[b].tail = block[b].tail
  PROVE  Unclaimed' = Unclaimed
<1>1. ASSUME NEW e \in Blocks \X Slots
      PROVE  First(e[1])' .. block'[e[1]].tail - 1 = First(e[1]) .. block[e[1]].tail - 1
  <2>1. PICK b \in Blocks : b = e[1]
    OBVIOUS
  <2>2. First(b)' .. block'[b].tail - 1 = First(b) .. block[b].tail - 1
    OBVIOUS
  <2>3. QED BY <2>1, <2>2 DEF First, is_stealable
<1>2. QED BY <1>1 DEF Unclaimed, First, is_stealable

LEMMA SameClaims ==
  ASSUME Reading' = Reading, \A u \in Reading : at'[u].thief = at[u].thief /\ at'[u].spos = at[u].spos
  PROVE  Claimed' = Claimed
  BY DEF Claimed, Victim, Index

\* A step of the owner makes no claim.
LEMMA OwnerClaimsNothing == ASSUME at' = at PROVE Claimed' = Claimed
  BY OwnerLeavesReaders, SameClaims

\* The thieves' part of the invariant survives a step of the owner that moves
\* the first unclaimed entry only of blocks without readers.
LEMMA OwnerKeepsStealing ==
  ASSUME DequeInv, at' = at,
         \A b \in Blocks : First(b)' = First(b) \/ Readers(b) = {}
  PROVE  Stealing'
<1>1. Reading' = Reading
  BY OwnerLeavesReaders
<1>2. ASSUME NEW t \in Reading PROVE at[t].spos < First(Victim(t))'
  <2>1. Victim(t) \in Blocks
    BY Ring DEF Victim, Reading, DequeInv, TypeOK
  <2>2. t \in Readers(Victim(t))
    BY DEF Readers, Inside, Reading
  <2>3. First(Victim(t))' = First(Victim(t))
    BY <2>1, <2>2 DEF First, is_stealable, Victim
  <2>4. QED BY <2>3 DEF DequeInv, Stealing
<1>3. QED BY <1>1, <1>2 DEF DequeInv, Stealing, Victim

\* push_back writes into the owner's block.
LEMMA PutStep ==
  ASSUME DequeInv, op \in {"idle", "put"}, NEW n \in 0 .. MaxRange, bulk_put(n)
  PROVE  /\ DequeInv' /\ at' = at
         /\ \A c \in Blocks : First(c)' = First(c) /\ block[c].tail <= block'[c].tail
<1> DEFINE b    == Current
           back == block[b].tail
           fitting == IF n < BlockSize - back THEN n ELSE BlockSize - back
           full == block[b].full \cup (back .. back + fitting - 1)
<1>1. TypeOK /\ Owned /\ b \in Blocks /\ is_writable(b)
  BY Neighbours DEF DequeInv, Owned
<1>2. /\ back \in 0 .. BlockSize /\ block[b].head \in 0 .. back /\ BlockSize \in Nat \ {0}
      /\ First(b) = block[b].head /\ block[b].full \subseteq Slots
  BY <1>1, BlockType DEF DequeInv, Ordered, First, is_stealable, is_writable
<1>3. fitting \in 0 .. n /\ back + fitting \in back .. BlockSize
      /\ (fitting # n => back + fitting = BlockSize)
  BY <1>2, DequeAssumption
<1>4. Becomes(block, block', b, block[b].head, back + fitting, block[b].steal_head,
              block[b].steal_tail, full)
  BY <1>1, EntriesUpdate DEF bulk_put, TypeOK, BlockRec
<1>5. /\ at' = at /\ owner_block' = owner_block /\ thief_block' = thief_block /\ stale' = stale
      /\ rest' = n - fitting /\ op' \in {"idle", "advance put"}
      /\ (op' = "advance put" => fitting # n) /\ Current' = b
  BY DEF bulk_put, Current, Index
<1>6. TypeOK'
  <2>1. full \subseteq Slots
    BY <1>2, <1>3 DEF Slots
  <2>2. \A m \in Nat : n \in 0 .. m => \A k \in 0 .. n : n - k \in 0 .. m
    OBVIOUS
  <2>3. rest' \in 0 .. MaxRange
    BY <1>3, <1>5, <2>2, DequeAssumption
  <2>4. back + fitting \in 0 .. BlockSize
    BY ONLY <1>2, <1>3
  <2>5. block' \in [Blocks -> BlockRec]
    BY <1>1, <1>4, <2>1, <2>4, BlockType DEF Becomes
  <2>6. QED BY <1>1, <1>5, <2>3, <2>5 DEF TypeOK, BlockRec
<1>7. \A c \in Blocks : First(c)' = First(c)
  BY <1>4 DEF First, is_stealable, Becomes
<1>8. Stealing'
  BY <1>5, <1>7, OwnerKeepsStealing
<1>9. Owned'
  BY <1>1, <1>3, <1>4, <1>5 DEF Owned, TakenOver, is_writable, Becomes
<1>10. ASSUME NEW c \in Blocks PROVE Ordered(c)' /\ Counted(c)' /\ Filled(c)'
  <2>1. Readers(c)' = Readers(c) /\ ClaimedIn(c)' = ClaimedIn(c) /\ First(c)' = First(c)
    BY <1>5, <1>7, OwnerLeavesReaders
  <2>2. CASE c # b
    BY <1>4, <2>1, <2>2, BlockKept DEF DequeInv, Becomes
  <2>3. CASE c = b
    <3>1. First(b) .. (back + fitting) - 1 = (First(b) .. back - 1) \cup (back .. back + fitting - 1)
      BY <1>2, <1>3
    <3>2. Filled(c)'
      <4>1. block'[c].full = full /\ block'[c].tail = back + fitting
        BY <1>4, <2>3 DEF Becomes
      <4>2. block[c].full = (First(c) .. back - 1) \cup ClaimedIn(c)
        BY <2>3 DEF DequeInv, Filled
      <4>3. full = (First(c) .. (back + fitting) - 1) \cup ClaimedIn(c)
        BY <2>3, <3>1, <4>2
      <4>4. QED BY <2>1, <4>1, <4>3 DEF Filled
    <3>3. First(c)' <= block'[c].tail
      <4>1. block[b].head <= back + fitting
        BY ONLY <1>2, <1>3
      <4>2. block'[b].tail = back + fitting
        BY <1>4 DEF Becomes
      <4>3. QED BY <1>2, <2>1, <2>3, <4>1, <4>2
    <3>4. ~is_stealable(c)'
      BY <1>1, <1>4, <2>3 DEF is_stealable, is_writable, Becomes
    <3>5. Ordered(c)'
      BY <3>3, <3>4 DEF Ordered
    <3>6. Counted(c)'
      BY <1>4, <2>1, <2>3 DEF DequeInv, Counted, Becomes
    <3>7. QED BY <3>2, <3>5, <3>6
  <2>4. QED BY <2>2, <2>3
<1>11. ASSUME NEW c \in Blocks PROVE block[c].tail <= block'[c].tail
  <2>1. CASE c = b
    <3>1. block'[c].tail = back + fitting
      BY <1>4, <2>1 DEF Becomes
    <3>2. back <= back + fitting
      BY ONLY <1>2, <1>3
    <3>3. QED BY <2>1, <3>1, <3>2
  <2>2. CASE c # b
    <3>1. block'[c] = block[c]
      BY <1>4, <2>2 DEF Becomes
    <3>2. block[c].tail \in 0 .. BlockSize
      BY <1>1, BlockType
    <3>3. QED BY <1>2, <3>1, <3>2
  <2>3. QED BY <2>1, <2>2
<1>12. DequeInv'
  BY <1>6, <1>8, <1>9, <1>10 DEF DequeInv
<1>13. QED BY <1>5, <1>7, <1>11, <1>12

\* A step that changes no block and no thief needs only its effect on Owned.
LEMMA CountersStep ==
  ASSUME DequeInv, block' = block, at' = at, TypeOK', Owned'
  PROVE  DequeInv' /\ Unseen
<1>1. \A b \in Blocks : First(b)' = First(b)
  BY DEF First, is_stealable
<1>2. Stealing'
  BY <1>1, OwnerKeepsStealing
<1>3. \A b \in Blocks : Ordered(b)' /\ Counted(b)' /\ Filled(b)'
  <2> TAKE b \in Blocks
  <2>1. Readers(b)' = Readers(b) /\ ClaimedIn(b)' = ClaimedIn(b)
    BY OwnerLeavesReaders
  <2>2. QED BY <2>1, BlockKept DEF DequeInv
<1>4. Unseen
  BY <1>1, SameEnds, OwnerClaimsNothing DEF Unseen
<1>5. QED BY <1>2, <1>3, <1>4 DEF DequeInv

\* advance_put_index grants the owner's block and moves to the next, which is
\* empty, or refuses.
LEMMA AdvancePutStep ==
  ASSUME DequeInv, advance_put_index
  PROVE  DequeInv' /\ Unseen
<1>1. PICK b \in Blocks, n \in Blocks : b = Current /\ n = Index(owner_block + 1) /\ n # b
  BY Neighbours DEF DequeInv
<1>2. /\ TypeOK /\ Owned /\ is_writable(b) /\ op = "advance put" /\ block[b].tail = BlockSize
      /\ \A c \in Blocks : ~TakenOver(c)
  BY <1>1 DEF DequeInv, Owned, advance_put_index, TakenOver
<1>3. CASE op' = "idle" /\ rest' = 0 /\ block' = block /\ owner_block' = owner_block
  <2>1. thief_block' = thief_block /\ at' = at /\ stale' = stale /\ Current' = b
    BY <1>1, <1>3 DEF advance_put_index, Current
  <2>2. 0 \in 0 .. MaxRange
    BY DequeAssumption
  <2>3. TypeOK'
    BY <1>2, <1>3, <2>1, <2>2 DEF TypeOK
  <2>4. Owned'
    BY <1>1, <1>2, <1>3, <2>1 DEF Owned, TakenOver, is_writable
  <2>5. QED BY <1>3, <2>1, <2>3, <2>4, CountersStep
<1>4. CASE ~(op' = "idle" /\ rest' = 0 /\ block' = block /\ owner_block' = owner_block)
  <2>1. /\ is_writable(n) /\ owner_block' = owner_block + 1 /\ op' = "reclaim"
        /\ thief_block' = thief_block /\ at' = at /\ stale' = stale /\ rest' = rest
    BY <1>1, <1>4 DEF advance_put_index
  <2>2. Becomes(block, block', b, BlockSize, block[b].tail, block[b].steal_head, block[b].head,
                block[b].full)
    <3>1. block' = [block EXCEPT ![b].head = BlockSize, ![b].steal_tail = block[b].head]
      BY <1>1, <1>4 DEF advance_put_index
    <3>2. QED BY <1>2, <3>1, GrantUpdate DEF TypeOK, BlockRec
  <2>3. Current' = n /\ \A c \in Blocks : ~TakenOver(c)'
    BY <1>1, <2>1 DEF Current, Index, TakenOver
  <2>4. TypeOK'
    <3>1. block' \in [Blocks -> BlockRec]
      BY <1>2, <2>2, BlockType DEF Becomes
    <3>2. /\ owner_block' \in Int /\ op' \in {"reclaim"}
          /\ thief_block' = thief_block /\ at' = at /\ stale' = stale /\ rest' = rest
      <4>1. owner_block \in Int
        BY <1>2 DEF TypeOK
      <4>2. QED BY ONLY <2>1, <4>1
    <3>3. QED BY ONLY <1>2, <3>1, <3>2 DEF TypeOK, BlockRec
  <2>5. \A c \in Blocks : First(c)' = First(c)
    BY <1>2, <2>2 DEF First, is_stealable, is_writable, Becomes
  <2>6. Stealing'
    BY <2>1, <2>5, OwnerKeepsStealing
  <2>7. Owned'
    <3>1. block[n].head = block[n].tail
      BY <1>1, <1>2, <2>1 DEF Owned
    <3>2. is_writable(n)' /\ block'[n] = block[n]
      BY <1>1, <2>1, <2>2 DEF is_writable, Becomes
    <3>3. ASSUME NEW c \in Blocks, c # n, is_writable(c)'
          PROVE  block'[c].head = block'[c].tail
      <4>1. CASE c = b
        BY <1>2, <2>2, <4>1 DEF Becomes
      <4>2. CASE c # b
        <5>1. block'[c] = block[c]
          BY <2>2, <4>2 DEF Becomes
        <5>2. is_writable(c)
          BY <3>3, <5>1 DEF is_writable
        <5>3. block[c].head = block[c].tail
          BY <1>1, <1>2, <4>2, <5>2 DEF Owned
        <5>4. QED BY <5>1, <5>3
      <4>3. QED BY <4>1, <4>2
    <3>4. QED BY <2>1, <2>3, <3>1, <3>2, <3>3 DEF Owned, is_writable
  <2>8. ASSUME NEW c \in Blocks PROVE Ordered(c)' /\ Counted(c)' /\ Filled(c)'
    <3>1. Readers(c)' = Readers(c) /\ ClaimedIn(c)' = ClaimedIn(c) /\ First(c)' = First(c)
      BY <2>1, <2>5, OwnerLeavesReaders
    <3>2. CASE c # b
      BY <2>2, <3>1, <3>2, BlockKept DEF DequeInv, Becomes
    <3>3. CASE c = b
      <4>1. Ordered(c)'
        BY <1>2, <2>2, <3>1, <3>3 DEF DequeInv, Ordered, Becomes
      <4>2. Counted(c)' /\ Filled(c)'
        BY <2>2, <3>1, <3>3 DEF DequeInv, Counted, Filled, Becomes
      <4>3. QED BY <4>1, <4>2
    <3>4. QED BY <3>2, <3>3
  <2>9. Unseen
    <3>1. \A c \in Blocks : First(c)' = First(c) /\ block'[c].tail = block[c].tail
      BY <2>2, <2>5 DEF Becomes
    <3>2. QED BY <2>1, <3>1, SameEnds, OwnerClaimsNothing DEF Unseen
  <2>10. QED BY <2>4, <2>6, <2>7, <2>8, <2>9 DEF DequeInv
<1>5. QED BY <1>3, <1>4

\* reclaim begins the block anew when its readers have left; it is empty.
LEMMA ReclaimStep ==
  ASSUME DequeInv, reclaim
  PROVE  DequeInv' /\ Unseen
<1> DEFINE b == Current
<1>1. /\ TypeOK /\ Owned /\ b \in Blocks /\ is_writable(b)
      /\ block[b].head = block[b].tail /\ block[b].steal_head = block[b].tail
      /\ First(b) = block[b].head
  BY Neighbours DEF DequeInv, Owned, reclaim, First, is_stealable, is_writable
<1>2. Readers(b) = {}
  <2>1. block[b].steal_head + Cardinality(Readers(b)) = block[b].steal_head
    BY <1>1 DEF DequeInv, Counted
  <2>2. block[b].steal_head \in Int /\ Cardinality(Readers(b)) \in Int /\ IsFiniteSet(Readers(b))
    BY <1>1, BlockType, ReadersFinite
  <2>3. Cardinality(Readers(b)) = 0
    BY ONLY <2>1, <2>2
  <2>4. QED BY <2>2, <2>3, FS_EmptySet
<1>3. ClaimedIn(b) = {}
  BY <1>2 DEF ClaimedIn, Readers, Reading, Inside
<1>4. block[b].full = {}
  <2>1. block[b].full = First(b) .. block[b].tail - 1
    BY <1>1, <1>3 DEF DequeInv, Filled
  <2>2. First(b) \in Int /\ block[b].tail = First(b)
    BY <1>1, BlockType
  <2>3. QED BY <2>1, <2>2
<1>5. /\ thief_block' = thief_block /\ owner_block' = owner_block /\ rest' = rest
      /\ at' = at /\ stale' = stale /\ op' = "put" /\ Current' = b
      /\ Becomes(block, block', b, 0, 0, 0, BlockSize, {})
  BY <1>1, <1>4, ReclaimUpdate DEF reclaim, TypeOK, BlockRec, Current, Index
<1>6. TypeOK'
  <2>1. block' \in [Blocks -> BlockRec]
    BY <1>1, <1>5, BlockType DEF Becomes
  <2>2. QED BY <1>1, <1>5, <2>1 DEF TypeOK, BlockRec
<1>7. First(b)' = 0 /\ \A c \in Blocks \ {b} : First(c)' = First(c)
  BY <1>1, <1>5 DEF First, is_stealable, Becomes, Current, Index
<1>8. Stealing'
  BY <1>2, <1>5, <1>7, OwnerKeepsStealing DEF First, is_stealable, Becomes
<1>9. Owned'
  BY <1>1, <1>5 DEF Owned, TakenOver, is_writable, Becomes, reclaim
<1>10. ASSUME NEW c \in Blocks PROVE Ordered(c)' /\ Counted(c)' /\ Filled(c)'
  <2>1. Readers(c)' = Readers(c) /\ ClaimedIn(c)' = ClaimedIn(c)
    BY <1>5, OwnerLeavesReaders
  <2>2. CASE c # b
    BY <1>5, <2>1, <2>2, BlockKept DEF DequeInv, Becomes
  <2>3. CASE c = b
    <3>1. /\ block'[c].head = 0 /\ block'[c].tail = 0 /\ block'[c].steal_head = 0
          /\ block'[c].steal_tail = BlockSize /\ block'[c].full = {}
      BY <1>5, <2>3 DEF Becomes
    <3>2. First(c)' = 0
      BY <3>1 DEF First, is_stealable
    <3>3. Ordered(c)'
      BY <3>1, <3>2 DEF Ordered, is_stealable
    <3>4. Counted(c)'
      BY <1>2, <2>1, <2>3, <3>1, <3>2, FS_EmptySet DEF Counted
    <3>5. Filled(c)'
      <4>1. 0 .. 0 - 1 = {}
        OBVIOUS
      <4>2. QED BY <1>3, <2>1, <2>3, <3>1, <3>2, <4>1 DEF Filled
    <3>6. QED BY <3>3, <3>4, <3>5
  <2>4. QED BY <2>2, <2>3
<1>11. Unseen
  <2>1. ASSUME NEW c \in Blocks
        PROVE  First(c)' .. block'[c].tail - 1 = First(c) .. block[c].tail - 1
    <3>1. CASE c = b
      <4>1. First(c)' = 0 /\ block'[c].tail = 0 /\ block[c].tail = First(c) /\ First(c) \in Int
        BY <1>1, <1>5, <1>7, <3>1, BlockType DEF Becomes, First, is_stealable
      <4>2. QED BY ONLY <4>1
    <3>2. CASE c # b
      BY <1>5, <1>7, <3>2 DEF Becomes
    <3>3. QED BY <3>1, <3>2
  <2>2. Unclaimed' = Unclaimed
    <3>1. ASSUME NEW e \in Blocks \X Slots
          PROVE  First(e[1])' .. block'[e[1]].tail - 1 = First(e[1]) .. block[e[1]].tail - 1
      <4>1. PICK c \in Blocks : c = e[1]
        OBVIOUS
      <4>2. QED BY <2>1, <4>1 DEF First, is_stealable
    <3>2. QED BY <3>1 DEF Unclaimed, First, is_stealable
  <2>3. QED BY <1>5, <2>2, OwnerClaimsNothing DEF Unseen
<1>12. QED BY <1>6, <1>8, <1>9, <1>10, <1>11 DEF DequeInv

\* pop_back takes the last entry of the owner's block, which no thief can have
\* claimed, or finds none there.
LEMMA GetStep ==
  ASSUME DequeInv, get
  PROVE  /\ DequeInv' /\ at' = at
         /\ Unseen \/ \E b \in Blocks :
              /\ block'[b].tail = block[b].tail - 1 /\ First(b) < block[b].tail
              /\ \A c \in Blocks \ {b} : block'[c].tail = block[c].tail
              /\ \A c \in Blocks : First(c)' = First(c)
<1>1. PICK b \in Blocks : b = Current
  BY Neighbours DEF DequeInv
<1>2. /\ TypeOK /\ Owned /\ is_writable(b) /\ op \in {"idle", "get"}
      /\ First(b) = block[b].head /\ Ordered(b)
  BY <1>1 DEF DequeInv, Owned, get, First, is_stealable, is_writable
<1>3. /\ thief_block' = thief_block /\ owner_block' = owner_block /\ rest' = rest
      /\ at' = at /\ stale' = stale /\ Current' = b
  BY <1>1 DEF get, Current
<1>4. \A c \in Blocks : ~TakenOver(c)
  BY <1>2 DEF TakenOver
<1>5. CASE block[b].head \in {block[b].tail, BlockSize}
  <2>1. /\ block' = block /\ op' \in {"idle", "takeover"}
        /\ op' = "takeover" => block[b].head = block[b].tail
    BY <1>1, <1>5 DEF get
  <2>2. TypeOK'
    BY ONLY <1>2, <1>3, <2>1 DEF TypeOK
  <2>3. Owned'
    BY <1>1, <1>2, <1>3, <1>4, <2>1 DEF Owned, TakenOver, is_writable
  <2>4. QED BY <1>3, <2>1, <2>2, <2>3, CountersStep
<1>6. CASE block[b].head \notin {block[b].tail, BlockSize}
  <2> DEFINE back == block[b].tail - 1
             full == block[b].full \ {back}
  <2>1. op' = "idle"
    BY <1>1, <1>6 DEF get
  <2>2. Becomes(block, block', b, block[b].head, back, block[b].steal_head, block[b].steal_tail, full)
    <3>1. block' = [block EXCEPT ![b].full = full, ![b].tail = back]
      BY <1>1, <1>6 DEF get
    <3>2. QED BY <1>2, <3>1, EntriesUpdate DEF TypeOK, BlockRec
  <2>3. /\ block[b].tail \in 0 .. BlockSize /\ block[b].head \in 0 .. back /\ back \in 0 .. BlockSize
        /\ BlockSize \in Nat
    BY <1>2, <1>6, BlockType DEF Ordered
  <2>4. TypeOK'
    <3>1. block' \in [Blocks -> BlockRec]
      BY <1>2, <2>2, <2>3, BlockType DEF Becomes
    <3>2. QED BY ONLY <1>2, <1>3, <2>1, <3>1 DEF TypeOK, BlockRec
  <2>5. \A c \in Blocks : First(c)' = First(c)
    BY <2>2 DEF First, is_stealable, Becomes
  <2>6. Stealing'
    BY <1>3, <2>5, OwnerKeepsStealing
  <2>7. Owned'
    <3>1. is_writable(b)'
      BY <1>2, <2>2 DEF is_writable, Becomes
    <3>2. ASSUME NEW c \in Blocks, c # b, is_writable(c)'
          PROVE  block'[c].head = block'[c].tail
      <4>1. block'[c] = block[c]
        BY <2>2, <3>2 DEF Becomes
      <4>2. is_writable(c)
        BY <3>2, <4>1 DEF is_writable
      <4>3. block[c].head = block[c].tail
        BY <1>1, <1>4, <3>2, <4>2, OthersAreEmpty
      <4>4. QED BY <4>1, <4>3
    <3>3. QED BY <1>3, <2>1, <3>1, <3>2 DEF Owned, TakenOver, is_writable
  <2>8. ASSUME NEW c \in Blocks PROVE Ordered(c)' /\ Counted(c)' /\ Filled(c)'
    <3>1. Readers(c)' = Readers(c) /\ ClaimedIn(c)' = ClaimedIn(c) /\ First(c)' = First(c)
      BY <1>3, <2>5, OwnerLeavesReaders
    <3>2. CASE c # b
      BY <2>2, <3>1, <3>2, BlockKept DEF DequeInv, Becomes
    <3>3. CASE c = b
      <4>1. Ordered(c)'
        <5>1. ~is_stealable(c)'
          BY <1>2, <2>2, <3>3 DEF is_stealable, is_writable, Becomes
        <5>2. block'[c].tail = back
          BY <2>2, <3>3 DEF Becomes
        <5>3. First(c)' <= block'[c].tail
          BY <1>2, <2>3, <3>1, <3>3, <5>2
        <5>4. QED BY <5>1, <5>3 DEF Ordered
      <4>2. Counted(c)'
        BY <2>2, <3>1, <3>3 DEF DequeInv, Counted, Becomes
      <4>3. Filled(c)'
        <5>1. block'[c].full = block[b].full \ {back} /\ block'[c].tail = back
          BY <2>2, <3>3 DEF Becomes
        <5>2. block[b].full = (First(b) .. back) \cup ClaimedIn(b)
          BY DEF DequeInv, Filled
        <5>3. back \notin ClaimedIn(b)
          <6> SUFFICES ASSUME NEW t \in Reading, Victim(t) = b, at[t].spos = back PROVE FALSE
            BY DEF ClaimedIn
          <6>1. back < First(b)
            BY ReaderIsBelow
          <6>2. QED BY ONLY <1>2, <2>3, <6>1
        <5>4. (First(b) .. back) \ {back} = First(b) .. back - 1
          BY <1>2, <2>3
        <5>5. block[b].full \ {back} = (First(b) .. back - 1) \cup ClaimedIn(b)
          BY <5>2, <5>3, <5>4
        <5>6. QED BY <3>1, <3>3, <5>1, <5>5 DEF Filled
      <4>4. QED BY <4>1, <4>2, <4>3
    <3>4. QED BY <3>2, <3>3
  <2>9. /\ block'[b].tail = block[b].tail - 1 /\ First(b) < block[b].tail
        /\ \A c \in Blocks \ {b} : block'[c].tail = block[c].tail
    <3>1. First(b) < block[b].tail
      BY <1>2, <2>3
    <3>2. QED BY <2>2, <3>1 DEF Becomes
  <2>10. DequeInv'
    BY <2>4, <2>6, <2>7, <2>8 DEF DequeInv
  <2>11. QED BY <1>3, <2>5, <2>9, <2>10
<1>7. QED BY <1>5, <1>6

\* takeover takes the unclaimed entries of the block before the owner's back.
LEMMA TakeoverStep ==
  ASSUME DequeInv, takeover
  PROVE  DequeInv' /\ Unseen
<1>1. PICK b \in Blocks, o \in Blocks : b = Index(Predecessor) /\ o = Current /\ o # b
  BY Neighbours DEF DequeInv
<1>2. /\ TypeOK /\ Owned /\ is_writable(o) /\ op = "takeover" /\ block[o].head = block[o].tail
      /\ Ordered(b) /\ \A c \in Blocks : ~TakenOver(c)
  BY <1>1 DEF DequeInv, Owned, takeover, TakenOver
<1>3. /\ thief_block' = thief_block /\ owner_block' = owner_block /\ rest' = rest
      /\ at' = at /\ stale' = stale /\ Current' = o /\ Index(Predecessor)' = b
      /\ op' \in {"idle", "compare thief"}
      /\ op' = "idle" => First(b) = block[b].tail
      /\ op' = "compare thief" => First(b) # block[b].tail
  BY <1>1 DEF takeover, Current, Predecessor, Index
<1>4. Becomes(block, block', b, First(b), block[b].tail, block[b].steal_head, BlockSize, block[b].full)
  <2>1. block' = [block EXCEPT ![b].steal_tail = BlockSize, ![b].head = First(b)]
    BY <1>1 DEF takeover
  <2>2. QED BY <1>2, <2>1, GrantUpdate DEF TypeOK, BlockRec
<1>5. TypeOK'
  <2>1. block' \in [Blocks -> BlockRec]
    BY <1>2, <1>4, BlockType DEF Becomes
  <2>2. QED BY ONLY <1>2, <1>3, <2>1 DEF TypeOK, BlockRec
<1>6. First(b)' = First(b) /\ \A c \in Blocks \ {b} : First(c)' = First(c)
  BY <1>4 DEF First, is_stealable, Becomes
<1>7. Stealing'
  <2>1. \A c \in Blocks : First(c)' = First(c)
    BY <1>4 DEF First, is_stealable, Becomes
  <2>2. QED BY <1>3, <2>1, OwnerKeepsStealing
<1>8. Owned'
  <2>1. is_writable(o)' /\ block'[o] = block[o]
    BY <1>1, <1>2, <1>4 DEF is_writable, Becomes
  <2>2. is_writable(b)' /\ block'[b].head = First(b) /\ block'[b].tail = block[b].tail
    BY <1>4 DEF is_writable, Becomes
  <2>3. ASSUME NEW c \in Blocks, c # o, c # b, is_writable(c)'
        PROVE  block'[c].head = block'[c].tail
    <3>1. block'[c] = block[c]
      BY <1>4, <2>3 DEF Becomes
    <3>2. is_writable(c)
      BY <2>3, <3>1 DEF is_writable
    <3>3. QED BY <1>1, <1>2, <2>3, <3>1, <3>2 DEF Owned
  <2>4. \A c \in Blocks : TakenOver(c)' <=> op' = "compare thief" /\ c = b
    BY <1>3 DEF TakenOver
  <2>5. QED BY <1>1, <1>2, <1>3, <2>1, <2>2, <2>3, <2>4 DEF Owned, is_writable, TakenOver
<1>9. ASSUME NEW c \in Blocks PROVE Ordered(c)' /\ Counted(c)' /\ Filled(c)'
  <2>1. Readers(c)' = Readers(c) /\ ClaimedIn(c)' = ClaimedIn(c) /\ First(c)' = First(c)
    BY <1>3, <1>6, OwnerLeavesReaders
  <2>2. CASE c # b
    BY <1>4, <2>1, <2>2, BlockKept DEF DequeInv, Becomes
  <2>3. CASE c = b
    <3>1. Ordered(c)'
      BY <1>2, <1>4, <2>1, <2>3 DEF Ordered, is_stealable, Becomes
    <3>2. Counted(c)' /\ Filled(c)'
      BY <1>4, <2>1, <2>3 DEF DequeInv, Counted, Filled, Becomes
    <3>3. QED BY <3>1, <3>2
  <2>4. QED BY <2>2, <2>3
<1>10. Unseen
  <2>1. \A c \in Blocks : First(c)' = First(c) /\ block'[c].tail = block[c].tail
    BY <1>4 DEF First, is_stealable, Becomes
  <2>2. QED BY <1>3, <2>1, SameEnds, OwnerClaimsNothing DEF Unseen
<1>11. QED BY <1>5, <1>7, <1>8, <1>9, <1>10 DEF DequeInv

\* The owner moves back to the block it has taken over.
LEMMA AdvanceGetStep ==
  ASSUME DequeInv, advance_get_index
  PROVE  DequeInv' /\ Unseen
<1>1. PICK b \in Blocks, o \in Blocks :
        b = Index(Predecessor) /\ o = Current /\ o # b /\ b = Index(Predecessor + NumBlocks)
  BY Neighbours DEF DequeInv
<1>2. /\ TypeOK /\ Owned /\ is_writable(o) /\ op \in {"compare thief", "store thief"}
      /\ block[o].head = block[o].tail /\ TakenOver(b)
      /\ is_writable(b) /\ block[b].head # block[b].tail
  BY <1>1 DEF DequeInv, Owned, advance_get_index, TakenOver
<1>3. Predecessor \in Int /\ NumBlocks \in Int /\ thief_block \in Int
  <2>1. Predecessor \in Int /\ thief_block \in Int
    BY Neighbours DEF DequeInv, TypeOK
  <2>2. QED BY <2>1, DequeAssumption
<1>4. block' = block /\ rest' = rest /\ at' = at /\ stale' = stale
  BY DEF advance_get_index
<1>5. CASE op' = "store thief"
  <2>1. owner_block' = owner_block /\ thief_block' = thief_block
    BY <1>5 DEF advance_get_index
  <2>2. TypeOK'
    BY ONLY <1>2, <1>4, <1>5, <2>1 DEF TypeOK
  <2>3. Owned'
    BY <1>1, <1>2, <1>4, <1>5, <2>1 DEF Owned, TakenOver, is_writable, Current, Predecessor, Index
  <2>4. QED BY <1>4, <2>2, <2>3, CountersStep
<1>6. CASE op' # "store thief"
  <2>1. /\ op' = "get" /\ owner_block' \in {Predecessor, Predecessor + NumBlocks}
        /\ thief_block' \in {thief_block, Predecessor + NumBlocks - 1}
    BY <1>6 DEF advance_get_index
  <2>2. owner_block' \in Int /\ thief_block' \in Int
    BY ONLY <1>3, <2>1
  <2>3. TypeOK'
    BY ONLY <1>2, <1>4, <2>1, <2>2 DEF TypeOK
  <2>4. Current' = b
    BY <1>1, <2>1 DEF Current, Index
  <2>5. ASSUME NEW c \in Blocks, c # b, is_writable(c) PROVE block[c].head = block[c].tail
    <3>1. ~TakenOver(c)
      BY <1>1, <2>5 DEF TakenOver
    <3>2. QED BY <1>1, <1>2, <2>5, <3>1 DEF Owned
  <2>6. Owned'
    BY <1>2, <1>4, <2>1, <2>4, <2>5 DEF Owned, TakenOver, is_writable
  <2>7. QED BY <1>4, <2>3, <2>6, CountersStep
<1>7. QED BY <1>5, <1>6
-----------------------------------------------------------------------------
(***************************************************************************)
(* The thieves' steps.                                                     *)
(***************************************************************************)
Labels == {"idle", "steal tail", "tail", "claim", "read", "finish", "advance", "advance thief"}
ThiefRec == [pc: Labels, thief: Int, spos: 0 .. BlockSize]

\* Thief t of C is there, and every other thief is where it is in A.
Moves(A, C, t, pc, thief, spos) ==
  /\ \A u \in Thieves \ {t} : C[u] = A[u]
  /\ C[t].pc = pc /\ C[t].thief = thief /\ C[t].spos = spos
  /\ pc \in Labels /\ thief \in Int /\ spos \in 0 .. BlockSize => C \in [Thieves -> ThiefRec]

LEMMA ThiefUpdate ==
  ASSUME NEW A \in [Thieves -> ThiefRec], NEW t \in Thieves, NEW p, NEW x
  PROVE  /\ Moves(A, [A EXCEPT ![t].pc = p], t, p, A[t].thief, A[t].spos)
         /\ Moves(A, [A EXCEPT ![t].thief = x, ![t].pc = p], t, p, x, A[t].spos)
         /\ Moves(A, [A EXCEPT ![t].spos = x, ![t].pc = p], t, p, A[t].thief, x)
         /\ Moves(A, [A EXCEPT ![t].pc = p, ![t].spos = x], t, p, A[t].thief, x)
         /\ Moves(A, [A EXCEPT ![t] = Idle], t, "idle", 0, 0)
  BY DEF Moves, ThiefRec, Idle

\* What a thief knows is of the right type.
LEMMA ThiefType ==
  ASSUME TypeOK, NEW t \in Thieves
  PROVE  /\ at \in [Thieves -> ThiefRec] /\ Victim(t) \in Blocks
         /\ at[t].pc \in Labels /\ at[t].thief \in Int /\ at[t].spos \in 0 .. BlockSize
<1>1. at \in [Thieves -> ThiefRec]
  BY DEF TypeOK, ThiefRec, Labels
<1>2. at[t].pc \in Labels /\ at[t].thief \in Int /\ at[t].spos \in 0 .. BlockSize
  BY <1>1 DEF ThiefRec
<1>3. QED BY <1>1, <1>2, Ring DEF Victim

\* The owner's part of the invariant does not change with the thieves.
LEMMA OwnedKept ==
  ASSUME Owned, op' = op, owner_block' = owner_block, block' = block
  PROVE  Owned'
<1>1. \A c \in Blocks : TakenOver(c)' <=> TakenOver(c)
  BY DEF TakenOver, Predecessor, Index
<1>2. Current' = Current
  BY DEF Current, Index
<1>3. QED BY <1>1, <1>2 DEF Owned, is_writable, TakenOver, Predecessor, Index

\* A thief that reads no entry before or after its step changes nothing for
\* the blocks.
LEMMA QuietStep ==
  ASSUME DequeInv, NEW t \in Thieves, TypeOK',
         block' = block, op' = op, owner_block' = owner_block,
         \A u \in Thieves \ {t} : at'[u] = at[u],
         at[t].pc \notin {"read", "finish"}, at'[t].pc \notin {"read", "finish"},
         at'[t].pc \in {"tail", "claim"} => at'[t].spos < BlockSize
  PROVE  DequeInv' /\ Unseen
<1>1. Owned'
  BY OwnedKept DEF DequeInv
<1>2. Reading' = Reading /\ t \notin Reading
  BY DEF Reading
<1>3. \A u \in Reading : at'[u] = at[u] /\ u \in Thieves /\ u # t
  BY <1>2 DEF Reading
<1>4. Stealing'
  <2>1. ASSUME NEW u \in Thieves, at'[u].pc \in {"tail", "claim", "read", "finish"}
        PROVE  at'[u].spos < BlockSize
    <3>1. CASE u = t
      BY <2>1, <3>1
    <3>2. CASE u # t
      BY <2>1, <3>2 DEF DequeInv, Stealing
    <3>3. QED BY <3>1, <3>2
  <2>2. ASSUME NEW u \in Reading PROVE at'[u].spos < First(Victim(u))'
    <3>1. Victim(u)' = Victim(u) /\ First(Victim(u))' = First(Victim(u))
      BY <1>3 DEF First, is_stealable, Victim, Index
    <3>2. QED BY <1>3, <3>1, ReaderIsBelow
  <2>3. ASSUME NEW u \in Reading, NEW v \in Reading,
               Victim(u)' = Victim(v)', at'[u].spos = at'[v].spos
        PROVE  u = v
    <3>1. Victim(u) = Victim(v) /\ at[u].spos = at[v].spos
      BY <1>3, <2>3 DEF Victim, Index
    <3>2. QED BY <3>1 DEF DequeInv, Stealing
  <2>4. QED BY <1>2, <2>1, <2>2, <2>3 DEF Stealing
<1>5. ASSUME NEW b \in Blocks PROVE Ordered(b)' /\ Counted(b)' /\ Filled(b)'
  <2>1. Readers(b)' = Readers(b)
    BY DEF Readers, Inside, Victim, Index
  <2>2. ClaimedIn(b)' = ClaimedIn(b)
    BY <1>2, <1>3 DEF ClaimedIn, Victim, Index
  <2>3. QED BY <2>1, <2>2, BlockKept DEF DequeInv
<1>6. Unseen
  <2>1. \A b \in Blocks : First(b)' = First(b) /\ block'[b].tail = block[b].tail
    BY DEF First, is_stealable
  <2>2. QED BY <1>2, <1>3, <2>1, SameEnds, SameClaims DEF Unseen
<1>7. QED BY <1>1, <1>4, <1>5, <1>6 DEF DequeInv

\* steal_front begins, looks for an entry to claim, or ends without one.
LEMMA SearchStep ==
  ASSUME DequeInv, NEW t \in Thieves, NEW pc \in Labels, NEW thief \in Int, NEW spos \in 0 .. BlockSize,
         Moves(at, at', t, pc, thief, spos), {at[t].pc, pc} \cap {"read", "finish"} = {},
         pc \in {"tail", "claim"} => spos < BlockSize,
         block' = block, op' = op, owner_block' = owner_block, rest' = rest,
         thief_block' \in Int, stale' \in BOOLEAN
  PROVE  DequeInv' /\ Unseen
<1>1. at' \in [Thieves -> ThiefRec]
  BY DEF Moves
<1>2. TypeOK'
  BY <1>1 DEF DequeInv, TypeOK, ThiefRec, Labels
<1>3. QED BY <1>2, QuietStep DEF Moves

LEMMA StealFrontStep ==
  ASSUME DequeInv, NEW t \in Thieves, steal_front(t)
  PROVE  DequeInv' /\ Unseen
<1>1. /\ at \in [Thieves -> ThiefRec] /\ thief_block \in Int /\ at[t].spos \in 0 .. BlockSize
      /\ stale \in BOOLEAN
  BY ThiefType DEF DequeInv, TypeOK
<1>2. Moves(at, at', t, "steal tail", thief_block, at[t].spos)
  BY <1>1, ThiefUpdate DEF steal_front
<1>3. at[t].pc = "idle"
  <2>1. at[t] = Idle
    BY DEF steal_front
  <2>2. QED BY ONLY <2>1 DEF Idle
<1>4. block' = block /\ op' = op /\ owner_block' = owner_block /\ rest' = rest /\ thief_block' = thief_block
  BY DEF steal_front, ownerVars
<1>5. stale' = stale
  BY DEF steal_front, ownerVars
<1>6. QED BY <1>1, <1>2, <1>3, <1>4, <1>5, SearchStep DEF Labels

LEMMA ReadStealTailStep ==
  ASSUME DequeInv, NEW t \in Thieves, ReadStealTail(t)
  PROVE  DequeInv' /\ Unseen
<1>1. /\ at \in [Thieves -> ThiefRec] /\ thief_block \in Int /\ at[t].thief \in Int
      /\ at[t].spos \in 0 .. BlockSize /\ Victim(t) \in Blocks /\ stale \in BOOLEAN
  BY ThiefType DEF DequeInv, TypeOK
<1>2. /\ at[t].pc = "steal tail" /\ block' = block /\ op' = op /\ owner_block' = owner_block
      /\ rest' = rest /\ thief_block' = thief_block /\ stale' = stale
  BY DEF ReadStealTail, ownerVars
<1>3. CASE is_stealable(Victim(t))
  <2>1. block[Victim(t)].steal_tail \in 0 .. BlockSize /\ block[Victim(t)].steal_tail < BlockSize
    BY <1>1, <1>3, BlockType DEF DequeInv, is_stealable
  <2>2. Moves(at, at', t, "tail", at[t].thief, block[Victim(t)].steal_tail)
    <3>1. at' = [at EXCEPT ![t].spos = block[Victim(t)].steal_tail, ![t].pc = "tail"]
      BY <1>3 DEF ReadStealTail
    <3>2. QED BY <1>1, <3>1, ThiefUpdate
  <2>3. QED BY <1>1, <1>2, <2>1, <2>2, SearchStep DEF Labels
<1>4. CASE ~is_stealable(Victim(t))
  <2>1. Moves(at, at', t, "advance", at[t].thief, at[t].spos)
    <3>1. at' = [at EXCEPT ![t].pc = "advance"]
      BY <1>4 DEF ReadStealTail, Goto
    <3>2. QED BY <1>1, <3>1, ThiefUpdate
  <2>2. QED BY <1>1, <1>2, <2>1, SearchStep DEF Labels
<1>5. QED BY <1>3, <1>4

LEMMA ReadTailStep ==
  ASSUME DequeInv, NEW t \in Thieves, ReadTail(t)
  PROVE  DequeInv' /\ Unseen
<1>1. /\ at \in [Thieves -> ThiefRec] /\ thief_block \in Int /\ at[t].thief \in Int
      /\ at[t].spos \in 0 .. BlockSize /\ stale \in BOOLEAN /\ BlockSize \in Nat
  BY ThiefType, DequeAssumption DEF DequeInv, TypeOK
<1>2. /\ at[t].pc = "tail" /\ block' = block /\ op' = op /\ owner_block' = owner_block
      /\ rest' = rest /\ thief_block' = thief_block /\ stale' = stale
  BY DEF ReadTail, ownerVars
<1>3. at[t].spos < BlockSize
  BY <1>2 DEF DequeInv, Stealing
<1>4. CASE at' = [at EXCEPT ![t] = Idle]
  <2>1. Moves(at, at', t, "idle", 0, 0)
    BY <1>1, <1>4, ThiefUpdate
  <2>2. 0 \in Int /\ 0 \in 0 .. BlockSize
    BY <1>1
  <2>3. QED BY <1>1, <1>2, <1>3, <2>1, <2>2, SearchStep DEF Labels
<1>5. CASE at' = [at EXCEPT ![t].pc = "claim"]
  <2>1. Moves(at, at', t, "claim", at[t].thief, at[t].spos)
    BY <1>1, <1>5, ThiefUpdate
  <2>2. QED BY <1>1, <1>2, <1>3, <2>1, SearchStep DEF Labels
<1>6. QED BY <1>4, <1>5 DEF ReadTail, Goto, Return

LEMMA AdvanceStealStep ==
  ASSUME DequeInv, NEW t \in Thieves, advance_steal_index(t)
  PROVE  DequeInv' /\ Unseen
<1>1. /\ at \in [Thieves -> ThiefRec] /\ thief_block \in Int /\ at[t].thief \in Int
      /\ at[t].spos \in 0 .. BlockSize /\ stale \in BOOLEAN /\ BlockSize \in Nat
  BY ThiefType, DequeAssumption DEF DequeInv, TypeOK
<1>2. /\ at[t].pc \in {"advance", "advance thief"}
      /\ block' = block /\ op' = op /\ owner_block' = owner_block /\ rest' = rest
  BY DEF advance_steal_index, ownerVars
<1>3. thief_block' \in Int /\ stale' \in BOOLEAN
  <2>1. thief_block' \in {thief_block, thief_block + 1}
    BY DEF advance_steal_index
  <2>2. stale' \in BOOLEAN
    BY <1>1, Zenon DEF advance_steal_index
  <2>3. QED BY <1>1, <2>1, <2>2
<1>4. CASE at' = [at EXCEPT ![t] = Idle]
  <2>1. Moves(at, at', t, "idle", 0, 0)
    BY <1>1, <1>4, ThiefUpdate
  <2>2. 0 \in Int /\ 0 \in 0 .. BlockSize
    BY <1>1
  <2>3. QED BY <1>1, <1>2, <1>3, <2>1, <2>2, SearchStep DEF Labels
<1>5. CASE at' = [at EXCEPT ![t].pc = "advance thief"]
  <2>1. Moves(at, at', t, "advance thief", at[t].thief, at[t].spos)
    BY <1>1, <1>5, ThiefUpdate
  <2>2. QED BY <1>1, <1>2, <1>3, <2>1, SearchStep DEF Labels
<1>6. QED BY <1>4, <1>5 DEF advance_steal_index, Goto, Return

\* Another thief was faster: the search begins again.
LEMMA ConflictStep ==
  ASSUME DequeInv, NEW t \in Thieves, Claim(t), block[Victim(t)].steal_tail # at[t].spos
  PROVE  DequeInv' /\ Unseen
<1>1. /\ at \in [Thieves -> ThiefRec] /\ thief_block \in Int /\ at[t].thief \in Int
      /\ stale \in BOOLEAN /\ BlockSize \in Nat
  BY ThiefType, DequeAssumption DEF DequeInv, TypeOK
<1>2. /\ at[t].pc = "claim" /\ block' = block /\ op' = op /\ owner_block' = owner_block
      /\ rest' = rest /\ thief_block' = thief_block /\ stale' = stale
  BY DEF Claim, ownerVars
<1>3. at' = [at EXCEPT ![t].pc = "steal tail", ![t].spos = 0]
  BY DEF Claim
<1>4. Moves(at, at', t, "steal tail", at[t].thief, 0)
  BY <1>1, <1>3, ThiefUpdate
<1>5. 0 \in 0 .. BlockSize
  BY <1>1
<1>6. QED BY <1>1, <1>2, <1>4, <1>5, SearchStep DEF Labels

\* A thief that goes on with its entry stays at its block.
LEMMA StaysAtEntry ==
  ASSUME TypeOK, NEW t \in Thieves, NEW pc \in Labels, Moves(at, at', t, pc, at[t].thief, at[t].spos)
  PROVE  /\ at' \in [Thieves -> ThiefRec]
         /\ \A u \in Thieves : Victim(u)' = Victim(u) /\ at'[u].spos = at[u].spos
         /\ \A u \in Thieves \ {t} : at'[u].pc = at[u].pc
         /\ at'[t].pc = pc
<1>1. at' \in [Thieves -> ThiefRec]
  BY ThiefType DEF Moves
<1>2. \A u \in Thieves : at'[u].thief = at[u].thief /\ at'[u].spos = at[u].spos
  BY DEF Moves
<1>3. QED BY <1>1, <1>2 DEF Moves, Victim, Index

\* A thief claims the first unclaimed entry of a granted block.
LEMMA ClaimStep ==
  ASSUME DequeInv, NEW t \in Thieves, Claim(t), block[Victim(t)].steal_tail = at[t].spos
  PROVE  /\ DequeInv' /\ t \notin Reading /\ Reading' = Reading \cup {t}
         /\ First(Victim(t)) = at[t].spos /\ at[t].spos < block[Victim(t)].tail
         /\ Becomes(block, block', Victim(t), block[Victim(t)].head, block[Victim(t)].tail,
                    block[Victim(t)].steal_head, at[t].spos + 1, block[Victim(t)].full)
         /\ Moves(at, at', t, "read", at[t].thief, at[t].spos)
<1>1. PICK b \in Blocks, e \in 0 .. BlockSize : b = Victim(t) /\ e = at[t].spos
  BY ThiefType DEF DequeInv
<1>2. /\ TypeOK /\ Owned /\ Ordered(b) /\ Counted(b) /\ Filled(b) /\ at \in [Thieves -> ThiefRec]
      /\ block[b].steal_tail = e /\ at[t].pc = "claim" /\ BlockSize \in Nat
  BY <1>1, ThiefType, DequeAssumption DEF DequeInv, Claim
<1>3. e < BlockSize /\ e + 1 \in 0 .. BlockSize
  <2>1. e < BlockSize
    BY <1>1, <1>2 DEF DequeInv, Stealing
  <2>2. QED BY <1>2, <2>1
<1>4. is_stealable(b) /\ First(b) = e /\ block[b].head = BlockSize /\ block[b].tail = BlockSize
  BY <1>2, <1>3 DEF is_stealable, First, Ordered
<1>5. Becomes(block, block', b, block[b].head, block[b].tail, block[b].steal_head, e + 1, block[b].full)
  <2>1. block' = [block EXCEPT ![b].steal_tail = e + 1]
    BY <1>1, <1>2 DEF Claim
  <2>2. block \in [Blocks -> BlockRec]
    BY <1>2 DEF TypeOK, BlockRec
  <2>3. QED BY <2>1, <2>2, StealUpdate
<1>6. Moves(at, at', t, "read", at[t].thief, at[t].spos)
  <2>1. at' = [at EXCEPT ![t].pc = "read"]
    BY <1>1, <1>2 DEF Claim, Goto
  <2>2. QED BY <1>2, <2>1, ThiefUpdate
<1>7. /\ thief_block' = thief_block /\ owner_block' = owner_block /\ op' = op /\ rest' = rest
  BY DEF Claim, ownerVars
<1>8. TypeOK'
  <2>1. block' \in [Blocks -> BlockRec]
    BY <1>2, <1>3, <1>5, BlockType DEF Becomes
  <2>2. at' \in [Thieves -> ThiefRec]
    BY <1>2, <1>6, StaysAtEntry DEF Labels
  <2>3. stale' \in BOOLEAN
    <3>1. stale \in BOOLEAN
      BY <1>2 DEF TypeOK
    <3>2. QED BY <3>1, Zenon DEF Claim
  <2>4. QED BY <1>2, <1>7, <2>1, <2>2, <2>3 DEF TypeOK, BlockRec, ThiefRec, Labels
<1>9. /\ \A u \in Thieves : Victim(u)' = Victim(u) /\ at'[u].spos = at[u].spos
      /\ \A u \in Thieves \ {t} : at'[u].pc = at[u].pc
      /\ at'[t].pc = "read"
  BY <1>2, <1>6, StaysAtEntry DEF Labels
<1>10. Reading' = Reading \cup {t} /\ t \notin Reading
  BY <1>2, <1>9 DEF Reading
<1>11. First(b)' = e + 1 /\ \A c \in Blocks \ {b} : First(c)' = First(c)
  <2>1. First(b)' = e + 1
    BY <1>3, <1>4, <1>5 DEF First, is_stealable, Becomes
  <2>2. QED BY <2>1, <1>5 DEF First, is_stealable, Becomes
<1>12. Stealing'
  <2>1. ASSUME NEW u \in Thieves, at'[u].pc \in {"tail", "claim", "read", "finish"}
        PROVE  at'[u].spos < BlockSize
    <3>1. CASE u = t
      BY <1>1, <1>3, <1>9, <3>1
    <3>2. CASE u # t
      BY <1>9, <2>1, <3>2 DEF DequeInv, Stealing
    <3>3. QED BY <3>1, <3>2
  <2>2. ASSUME NEW u \in Reading' PROVE at'[u].spos < First(Victim(u))'
    <3>1. PICK c \in Blocks : c = Victim(u) /\ c = Victim(u)'
      BY <1>2, <1>9, ThiefType, <2>2 DEF Reading
    <3>2. CASE u = t
      BY <1>1, <1>9, <1>11, <3>1, <3>2 DEF First, is_stealable
    <3>3. CASE u # t
      <4>1. at[u].spos < First(c) /\ at'[u].spos = at[u].spos /\ at[u].spos \in Int
        <5>1. u \in Reading /\ u \in Thieves
          BY <1>10, <2>2, <3>3 DEF Reading
        <5>2. at[u].spos < First(Victim(u)) /\ at[u].spos \in 0 .. BlockSize
          BY <5>1, ReaderIsBelow
        <5>3. QED BY <1>9, <3>1, <5>1, <5>2
      <4>2. First(c)' = First(c) \/ (First(c) = e /\ First(c)' = e + 1)
        BY <1>4, <1>11 DEF First, is_stealable
      <4>3. First(Victim(u))' = First(c)'
        BY <3>1 DEF First, is_stealable
      <4>4. at[u].spos < First(c)'
        BY <4>1, <4>2
      <4>5. QED BY <4>1, <4>3, <4>4
    <3>4. QED BY <3>2, <3>3
  <2>3. ASSUME NEW u \in Reading', NEW v \in Reading',
               Victim(u)' = Victim(v)', at'[u].spos = at'[v].spos
        PROVE  u = v
    <3>1. u \in Thieves /\ v \in Thieves /\ Victim(u) = Victim(v) /\ at[u].spos = at[v].spos
      BY <1>9, <2>3 DEF Reading
    <3>2. ASSUME NEW w \in Reading, Victim(w) = b, at[w].spos = e PROVE FALSE
      BY <1>4, <3>2, ReaderIsBelow
    <3>3. CASE u \in Reading /\ v \in Reading
      BY <3>1, <3>3 DEF DequeInv, Stealing
    <3>4. CASE u \notin Reading \/ v \notin Reading
      BY <1>1, <1>10, <2>3, <3>1, <3>2, <3>4
    <3>5. QED BY <3>3, <3>4
  <2>4. QED BY <2>1, <2>2, <2>3 DEF Stealing
<1>13. Owned'
  <2>1. PICK o \in Blocks : o = Current /\ o = Current'
    BY <1>2, <1>7, Neighbours DEF Current, Index
  <2>2. is_writable(o) /\ o # b
    BY <1>2, <1>4, <2>1 DEF Owned, is_stealable, is_writable
  <2>3. \A c \in Blocks : TakenOver(c)' <=> TakenOver(c)
    BY <1>7 DEF TakenOver, Predecessor, Index
  <2>4. \A c \in Blocks : TakenOver(c) => is_writable(c) /\ c # b /\ block[c].head # block[c].tail
    BY <1>2, <1>4 DEF Owned, is_stealable, is_writable
  <2>5. ASSUME NEW c \in Blocks, c # o, is_writable(c)', ~TakenOver(c)
        PROVE  block'[c].head = block'[c].tail
    <3>1. CASE c = b
      BY <1>4, <1>5, <3>1 DEF Becomes
    <3>2. CASE c # b
      <4>1. block'[c] = block[c]
        BY <1>5, <3>2 DEF Becomes
      <4>2. is_writable(c)
        BY <2>5, <4>1 DEF is_writable
      <4>3. QED BY <2>1, <2>5, <4>1, <4>2, OthersAreEmpty
    <3>3. QED BY <3>1, <3>2
  <2>6. \A c \in Blocks \ {b} : block'[c] = block[c]
    BY <1>5 DEF Becomes
  <2>7. is_writable(o)' /\ block'[o] = block[o]
    BY <2>2, <2>6 DEF is_writable
  <2>8. ASSUME NEW c \in Blocks, TakenOver(c)
        PROVE  is_writable(c)' /\ block'[c].head # block'[c].tail
    BY <2>4, <2>6, <2>8 DEF is_writable
  <2>9. /\ op = "advance put" => block[o].tail = BlockSize
        /\ op \in {"reclaim", "takeover", "compare thief", "store thief"} => block[o].head = block[o].tail
        /\ op = "get" => block[o].head # block[o].tail
    BY <1>2, <2>1 DEF Owned
  <2>10. QED BY <1>7, <2>1, <2>3, <2>5, <2>7, <2>8, <2>9 DEF Owned, is_writable
<1>14. ASSUME NEW c \in Blocks PROVE Ordered(c)' /\ Counted(c)' /\ Filled(c)'
  <2>1. CASE c # b
    <3>1. Readers(c)' = Readers(c)
      BY <1>1, <1>9, <2>1 DEF Readers, Inside
    <3>2. ClaimedIn(c)' = ClaimedIn(c)
      BY <1>1, <1>9, <1>10, <2>1 DEF ClaimedIn, Reading
    <3>3. QED BY <1>5, <2>1, <3>1, <3>2, BlockKept DEF DequeInv, Becomes
  <2>2. CASE c = b
    <3>1. /\ block'[c].head = BlockSize /\ block'[c].tail = BlockSize
          /\ block'[c].steal_head = block[b].steal_head /\ block'[c].full = block[b].full
          /\ First(c)' = e + 1
      BY <1>4, <1>5, <1>11, <2>2 DEF Becomes
    <3>2. Ordered(c)'
      BY <1>3, <3>1 DEF Ordered
    <3>3. Counted(c)'
      <4>1. Readers(c)' = Readers(b) \cup {t} /\ t \notin Readers(b)
        BY <1>1, <1>2, <1>9, <2>2 DEF Readers, Inside
      <4>2. Cardinality(Readers(c)') = Cardinality(Readers(b)) + 1
        BY <4>1, ReadersFinite, FS_AddElement
      <4>3. block[b].steal_head + Cardinality(Readers(b)) = e
        BY <1>2, <1>4 DEF Counted
      <4>4. block[b].steal_head \in Int /\ Cardinality(Readers(b)) \in Int
        BY <1>2, BlockType, ReadersFinite
      <4>5. block[b].steal_head + Cardinality(Readers(c)') = e + 1
        BY ONLY <4>2, <4>3, <4>4
      <4>6. QED BY <3>1, <4>5 DEF Counted
    <3>4. Filled(c)'
      <4>1. ClaimedIn(c)' = ClaimedIn(b) \cup {e}
        BY <1>1, <1>9, <1>10, <2>2 DEF ClaimedIn, Reading
      <4>2. block[b].full = (e .. BlockSize - 1) \cup ClaimedIn(b)
        BY <1>2, <1>4 DEF Filled
      <4>3. e .. BlockSize - 1 = (e + 1 .. BlockSize - 1) \cup {e}
        BY <1>2, <1>3
      <4>4. block[b].full = (e + 1 .. BlockSize - 1) \cup (ClaimedIn(b) \cup {e})
        BY <4>2, <4>3
      <4>5. QED BY <3>1, <4>1, <4>4 DEF Filled
    <3>5. QED BY <3>2, <3>3, <3>4
  <2>3. QED BY <2>1, <2>2
<1>15. DequeInv'
  BY <1>8, <1>12, <1>13, <1>14 DEF DequeInv
<1>16. QED BY <1>1, <1>3, <1>4, <1>5, <1>6, <1>10, <1>15

\* A thief reads the entry it has claimed out of its block.
LEMMA ReadEntryStep ==
  ASSUME DequeInv, NEW t \in Thieves, ReadEntry(t)
  PROVE  /\ DequeInv' /\ t \in Reading /\ Reading' = Reading \ {t}
         /\ \A u \in Thieves : Victim(u)' = Victim(u) /\ at'[u].spos = at[u].spos
         /\ \A c \in Blocks : First(c)' = First(c) /\ block'[c].tail = block[c].tail
<1>1. PICK b \in Blocks, e \in 0 .. BlockSize : b = Victim(t) /\ e = at[t].spos
  BY ThiefType DEF DequeInv
<1>2. /\ TypeOK /\ Owned /\ Stealing /\ at \in [Thieves -> ThiefRec] /\ at[t].pc = "read"
  BY ThiefType DEF DequeInv, ReadEntry
<1>3. Becomes(block, block', b, block[b].head, block[b].tail, block[b].steal_head,
              block[b].steal_tail, block[b].full \ {e})
  <2>1. block' = [block EXCEPT ![b].full = block[b].full \ {e}]
    BY <1>1 DEF ReadEntry
  <2>2. block \in [Blocks -> BlockRec]
    BY <1>2 DEF TypeOK, BlockRec
  <2>3. QED BY <2>1, <2>2, StealUpdate
<1>4. Moves(at, at', t, "finish", at[t].thief, at[t].spos)
  <2>1. at' = [at EXCEPT ![t].pc = "finish"]
    BY DEF ReadEntry, Goto
  <2>2. QED BY <1>2, <2>1, ThiefUpdate
<1>5. /\ thief_block' = thief_block /\ owner_block' = owner_block /\ op' = op /\ rest' = rest
  BY DEF ReadEntry, ownerVars
<1>6. /\ \A u \in Thieves : Victim(u)' = Victim(u) /\ at'[u].spos = at[u].spos
      /\ \A u \in Thieves \ {t} : at'[u].pc = at[u].pc
      /\ at'[t].pc = "finish" /\ at' \in [Thieves -> ThiefRec]
  BY <1>2, <1>4, StaysAtEntry DEF Labels
<1>7. t \in Reading /\ Reading' = Reading \ {t}
  BY <1>2, <1>6 DEF Reading
<1>8. \A c \in Blocks : First(c)' = First(c) /\ block'[c].tail = block[c].tail
                        /\ block'[c].head = block[c].head
                        /\ block'[c].steal_tail = block[c].steal_tail
                        /\ block'[c].steal_head = block[c].steal_head
  BY <1>3 DEF First, is_stealable, Becomes
<1>9. TypeOK'
  <2>1. block[b].full \ {e} \subseteq Slots
    BY <1>2, BlockType
  <2>2. block' \in [Blocks -> BlockRec]
    BY <1>2, <1>3, <2>1, BlockType DEF Becomes
  <2>3. stale' \in BOOLEAN
    <3>1. stale \in BOOLEAN /\ stale' = stale
      BY <1>2, Zenon DEF TypeOK, ReadEntry
    <3>2. QED BY <3>1, Zenon
  <2>4. QED BY <1>2, <1>5, <1>6, <2>2, <2>3 DEF TypeOK, BlockRec, ThiefRec, Labels
<1>10. Stealing'
  <2>1. ASSUME NEW u \in Thieves, at'[u].pc \in {"tail", "claim", "read", "finish"}
        PROVE  at'[u].spos < BlockSize
    <3>1. at[u].pc \in {"tail", "claim", "read", "finish"}
      BY <1>2, <1>6, <2>1
    <3>2. QED BY <1>2, <1>6, <3>1 DEF Stealing
  <2>2. ASSUME NEW u \in Reading' PROVE at'[u].spos < First(Victim(u))'
    <3>1. u \in Reading /\ u \in Thieves /\ at[u].spos < First(Victim(u)) /\ Victim(u) \in Blocks
      BY <1>7, ReaderIsBelow
    <3>2. First(Victim(u))' = First(Victim(u))
      BY <1>6, <1>8, <3>1 DEF First, is_stealable
    <3>3. QED BY <1>6, <3>1, <3>2
  <2>3. ASSUME NEW u \in Reading', NEW v \in Reading',
               Victim(u)' = Victim(v)', at'[u].spos = at'[v].spos
        PROVE  u = v
    <3>1. u \in Reading /\ v \in Reading /\ Victim(u) = Victim(v) /\ at[u].spos = at[v].spos
      BY <1>6, <1>7, <2>3 DEF Reading
    <3>2. QED BY <1>2, <3>1 DEF Stealing
  <2>4. QED BY <2>1, <2>2, <2>3 DEF Stealing
<1>11. Owned'
  <2>1. \A c \in Blocks : TakenOver(c)' <=> TakenOver(c)
    BY <1>5 DEF TakenOver, Predecessor, Index
  <2>2. PICK o \in Blocks : o = Current /\ o = Current'
    BY <1>2, <1>5, Neighbours DEF Current, Index
  <2>3. QED BY <1>2, <1>5, <1>8, <2>1, <2>2 DEF Owned, is_writable
<1>12. ASSUME NEW c \in Blocks PROVE Ordered(c)' /\ Counted(c)' /\ Filled(c)'
  <2>1. Readers(c)' = Readers(c)
    BY <1>2, <1>6 DEF Readers, Inside
  <2>2. Ordered(c)'
    BY <1>8 DEF DequeInv, Ordered, is_stealable
  <2>3. Counted(c)'
    BY <1>8, <2>1 DEF DequeInv, Counted
  <2>4. Filled(c)'
    <3>1. block[c].full = (First(c) .. block[c].tail - 1) \cup ClaimedIn(c)
      BY DEF DequeInv, Filled
    <3>2. CASE c # b
      <4>1. ClaimedIn(c)' = ClaimedIn(c) /\ block'[c] = block[c]
        BY <1>1, <1>3, <1>6, <1>7, <3>2 DEF ClaimedIn, Reading, Becomes
      <4>2. QED BY <1>8, <3>1, <4>1 DEF Filled
    <3>3. CASE c = b
      <4>1. \A u \in Reading : Victim(u) = b /\ at[u].spos = e => u = t
        BY <1>1, <1>2, <1>7 DEF Stealing
      <4>2. ClaimedIn(c)' = ClaimedIn(b) \ {e}
        <5>1. at[t].spos = e
          BY <1>1
        <5>2. \A x : x \in ClaimedIn(c)' <=> \E u \in Reading : u # t /\ Victim(u) = b /\ at[u].spos = x
          BY <1>6, <1>7, <3>3 DEF ClaimedIn, Reading
        <5>3. \A x : x \in ClaimedIn(b) <=> \E u \in Reading : Victim(u) = b /\ at[u].spos = x
          BY DEF ClaimedIn
        <5>4. QED BY <4>1, <5>1, <5>2, <5>3
      <4>3. e \notin First(b) .. block[b].tail - 1
        <5>1. e < First(b)
          BY <1>1, <1>7, ReaderIsBelow
        <5>2. First(b) \in Int /\ e \in Int /\ block[b].tail \in Int
          BY <1>2, BlockType
        <5>3. QED BY ONLY <5>1, <5>2
      <4>4. block[b].full \ {e} = (First(b) .. block[b].tail - 1) \cup (ClaimedIn(b) \ {e})
        BY <3>1, <3>3, <4>3
      <4>5. block'[c].full = block[b].full \ {e}
        BY <1>3, <3>3 DEF Becomes
      <4>6. QED BY <1>8, <3>3, <4>2, <4>4, <4>5 DEF Filled
    <3>4. QED BY <3>2, <3>3
  <2>5. QED BY <2>2, <2>3, <2>4
<1>13. DequeInv'
  BY <1>9, <1>10, <1>11, <1>12 DEF DequeInv
<1>14. QED BY <1>6, <1>7, <1>8, <1>13

\* A thief counts the entry it has read and leaves the block.
LEMMA FinishStealStep ==
  ASSUME DequeInv, NEW t \in Thieves, FinishSteal(t)
  PROVE  DequeInv' /\ Unseen
<1>1. PICK b \in Blocks : b = Victim(t)
  BY ThiefType DEF DequeInv
<1>2. /\ TypeOK /\ Owned /\ Stealing /\ at \in [Thieves -> ThiefRec] /\ at[t].pc = "finish"
      /\ BlockSize \in Nat
  BY ThiefType, DequeAssumption DEF DequeInv, FinishSteal
<1>3. Becomes(block, block', b, block[b].head, block[b].tail, block[b].steal_head + 1,
              block[b].steal_tail, block[b].full)
  <2>1. block' = [block EXCEPT ![b].steal_head = block[b].steal_head + 1]
    BY <1>1 DEF FinishSteal
  <2>2. block \in [Blocks -> BlockRec]
    BY <1>2 DEF TypeOK, BlockRec
  <2>3. QED BY <2>1, <2>2, StealUpdate
<1>4. Moves(at, at', t, "idle", 0, 0)
  <2>1. at' = [at EXCEPT ![t] = Idle]
    BY DEF FinishSteal, Return
  <2>2. QED BY <1>2, <2>1, ThiefUpdate
<1>5. /\ thief_block' = thief_block /\ owner_block' = owner_block /\ op' = op /\ rest' = rest
  BY DEF FinishSteal, ownerVars
<1>6. /\ \A u \in Thieves \ {t} : at'[u] = at[u] /\ Victim(u)' = Victim(u)
      /\ at'[t].pc = "idle"
  BY <1>4 DEF Moves, Victim, Index
<1>7. Reading' = Reading /\ t \notin Reading
  BY <1>2, <1>6 DEF Reading
<1>8. \A c \in Blocks : First(c)' = First(c) /\ block'[c].tail = block[c].tail
                        /\ block'[c].head = block[c].head
                        /\ block'[c].steal_tail = block[c].steal_tail
                        /\ block'[c].full = block[c].full
  BY <1>3 DEF First, is_stealable, Becomes
<1>9. Readers(b)' = Readers(b) \ {t} /\ t \in Readers(b)
  BY <1>1, <1>2, <1>6 DEF Readers, Inside
<1>10. /\ Cardinality(Readers(b)') = Cardinality(Readers(b)) - 1
       /\ block[b].steal_head + Cardinality(Readers(b)) = First(b)
       /\ block[b].steal_head \in Nat /\ Cardinality(Readers(b)) \in Nat /\ Cardinality(Readers(b)') \in Nat
       /\ First(b) \in 0 .. BlockSize
  <2>1. IsFiniteSet(Readers(b)) /\ Cardinality(Readers(b)) \in Nat
    BY ReadersFinite
  <2>2. Cardinality(Readers(b)') = Cardinality(Readers(b)) - 1
    BY <1>9, <2>1, FS_RemoveElement
  <2>3. IsFiniteSet(Readers(b)')
    BY <1>9, <2>1, FS_RemoveElement
  <2>4. Cardinality(Readers(b)') \in Nat
    BY <2>3, FS_CardinalityType
  <2>5. block[b].steal_head + Cardinality(Readers(b)) = First(b)
    BY DEF DequeInv, Counted
  <2>6. block[b].steal_head \in Nat /\ First(b) \in 0 .. BlockSize
    BY <1>2, BlockType
  <2>7. QED BY <2>1, <2>2, <2>4, <2>5, <2>6
<1>11. TypeOK'
  <2>1. block[b].steal_head + 1 \in 0 .. BlockSize
    BY ONLY <1>2, <1>10
  <2>2. block' \in [Blocks -> BlockRec]
    BY <1>2, <1>3, <2>1, BlockType DEF Becomes
  <2>3. 0 \in Int /\ 0 \in 0 .. BlockSize /\ "idle" \in Labels
    BY <1>2 DEF Labels
  <2>4. at' \in [Thieves -> ThiefRec]
    BY <1>4, <2>3 DEF Moves
  <2>5. stale' \in BOOLEAN
    <3>1. stale \in BOOLEAN /\ stale' = stale
      BY <1>2, Zenon DEF TypeOK, FinishSteal
    <3>2. QED BY <3>1, Zenon
  <2>6. QED BY <1>2, <1>5, <2>2, <2>4, <2>5 DEF TypeOK, BlockRec, ThiefRec, Labels
<1>12. Stealing'
  <2>1. ASSUME NEW u \in Thieves, at'[u].pc \in {"tail", "claim", "read", "finish"}
        PROVE  at'[u].spos < BlockSize
    <3>1. u # t
      BY <1>6, <2>1
    <3>2. QED BY <1>2, <1>6, <2>1, <3>1 DEF Stealing
  <2>2. ASSUME NEW u \in Reading' PROVE at'[u].spos < First(Victim(u))'
    <3>1. /\ u \in Reading /\ u \in Thieves /\ u # t
          /\ at[u].spos < First(Victim(u)) /\ Victim(u) \in Blocks
      BY <1>7, ReaderIsBelow
    <3>2. First(Victim(u))' = First(Victim(u))
      BY <1>6, <1>8, <3>1 DEF First, is_stealable
    <3>3. QED BY <1>6, <3>1, <3>2
  <2>3. ASSUME NEW u \in Reading', NEW v \in Reading',
               Victim(u)' = Victim(v)', at'[u].spos = at'[v].spos
        PROVE  u = v
    <3>1. u \in Reading /\ v \in Reading /\ Victim(u) = Victim(v) /\ at[u].spos = at[v].spos
      BY <1>6, <1>7, <2>3 DEF Reading
    <3>2. QED BY <1>2, <3>1 DEF Stealing
  <2>4. QED BY <2>1, <2>2, <2>3 DEF Stealing
<1>13. Owned'
  <2>1. \A c \in Blocks : TakenOver(c)' <=> TakenOver(c)
    BY <1>5 DEF TakenOver, Predecessor, Index
  <2>2. PICK o \in Blocks : o = Current /\ o = Current'
    BY <1>2, <1>5, Neighbours DEF Current, Index
  <2>3. QED BY <1>2, <1>5, <1>8, <2>1, <2>2 DEF Owned, is_writable
<1>14. ASSUME NEW c \in Blocks PROVE Ordered(c)' /\ Counted(c)' /\ Filled(c)'
  <2>1. ClaimedIn(c)' = ClaimedIn(c)
    BY <1>6, <1>7 DEF ClaimedIn, Reading
  <2>2. Ordered(c)'
    BY <1>8 DEF DequeInv, Ordered, is_stealable
  <2>3. Filled(c)'
    BY <1>8, <2>1 DEF DequeInv, Filled
  <2>4. Counted(c)'
    <3>1. CASE c # b
      <4>1. Readers(c)' = Readers(c) /\ block'[c] = block[c]
        BY <1>1, <1>2, <1>3, <1>6, <3>1 DEF Readers, Inside, Becomes
      <4>2. QED BY <1>8, <4>1 DEF DequeInv, Counted
    <3>2. CASE c = b
      <4>1. block'[c].steal_head = block[b].steal_head + 1 /\ First(c)' = First(b)
        BY <1>3, <1>8, <3>2 DEF Becomes
      <4>2. block'[c].steal_head + Cardinality(Readers(b)') = First(b)
        BY ONLY <1>10, <4>1
      <4>3. QED BY <3>2, <4>1, <4>2 DEF Counted
    <3>3. QED BY <3>1, <3>2
  <2>5. QED BY <2>2, <2>3, <2>4
<1>15. DequeInv'
  BY <1>11, <1>12, <1>13, <1>14 DEF DequeInv
<1>16. Unseen
  <2>1. \A u \in Reading : at'[u].thief = at[u].thief /\ at'[u].spos = at[u].spos
    BY <1>6, <1>7 DEF Reading
  <2>2. QED BY <1>7, <1>8, <2>1, SameEnds, SameClaims DEF Unseen
<1>17. QED BY <1>15, <1>16
-----------------------------------------------------------------------------
(***************************************************************************)
(* What a state of the invariant says of the entries, and what the steps   *)
(* are to the rest of the pool.                                            *)
(***************************************************************************)
LEMMA EntriesAccountedFor == DequeInv => AccountedFor
<1> SUFFICES ASSUME DequeInv PROVE AccountedFor
  OBVIOUS
<1>1. ASSUME NEW b \in Blocks, NEW e \in Slots
      PROVE  e \in block[b].full <=> <<b, e>> \in Unclaimed \cup Claimed
  <2>1. e \in block[b].full <=> e \in First(b) .. block[b].tail - 1 \/ e \in ClaimedIn(b)
    BY DEF DequeInv, Filled
  <2>2. <<b, e>> \in Unclaimed <=> e \in First(b) .. block[b].tail - 1
    BY <1>1 DEF Unclaimed
  <2>3. <<b, e>> \in Claimed <=> e \in ClaimedIn(b)
    BY <1>1 DEF Claimed, ClaimedIn
  <2>4. QED BY <2>1, <2>2, <2>3
<1>2. Claimed \subseteq Blocks \X Slots
  <2> SUFFICES ASSUME NEW t \in Reading PROVE Victim(t) \in Blocks /\ at[t].spos \in Slots
    BY DEF Claimed
  <2>1. t \in Thieves /\ Victim(t) \in Blocks /\ at[t].spos \in 0 .. BlockSize
    BY ReaderIsBelow
  <2>2. at[t].spos < BlockSize
    BY <2>1 DEF DequeInv, Stealing, Reading
  <2>3. QED BY <2>1, <2>2, DequeAssumption DEF Slots
<1>3. {x \in Blocks \X Slots : x[2] \in block[x[1]].full} = Unclaimed \cup Claimed
  BY <1>1, <1>2 DEF Unclaimed
<1>4. Unclaimed \cap Claimed = {}
  <2> SUFFICES ASSUME NEW t \in Reading,
                      at[t].spos \in First(Victim(t)) .. block[Victim(t)].tail - 1
               PROVE FALSE
    BY DEF Unclaimed, Claimed
  <2>1. Victim(t) \in Blocks /\ at[t].spos < First(Victim(t)) /\ at[t].spos \in 0 .. BlockSize
    BY ReaderIsBelow
  <2>2. First(Victim(t)) \in 0 .. BlockSize /\ block[Victim(t)].tail \in 0 .. BlockSize /\ BlockSize \in Nat
    BY <2>1, BlockType DEF DequeInv
  <2>3. QED BY <2>1, <2>2
<1>5. QED BY <1>3, <1>4 DEF AccountedFor, DequeInv, Stealing

\* Every entry is some place of the ring.
LEMMA BagIsTyped ==
  ASSUME DequeInv
  PROVE  Unclaimed \subseteq Blocks \X Slots /\ Claimed \subseteq Blocks \X Slots
  BY EntriesAccountedFor DEF AccountedFor

\* A push puts values where there are none.
LEMMA PushPuts ==
  ASSUME DequeInv, DequeInv', at' = at,
         \A c \in Blocks : First(c)' = First(c) /\ block[c].tail <= block'[c].tail
  PROVE  Promise!Put
<1>1. Claimed' = Claimed
  BY OwnerClaimsNothing
<1>2. Unclaimed \subseteq Unclaimed'
  <2> SUFFICES ASSUME NEW c \in Blocks, NEW e \in Slots, e \in First(c) .. block[c].tail - 1
               PROVE  e \in First(c)' .. block'[c].tail - 1
    BY DEF Unclaimed, First, is_stealable
  <2>1. First(c) \in Int /\ block[c].tail \in Int /\ e \in Int
    BY BlockType, DequeAssumption DEF DequeInv, Slots
  <2>2. block'[c].tail \in Int
    <3>1. TypeOK'
      BY DEF DequeInv
    <3>2. block' \in [Blocks -> BlockRec]
      BY ONLY <3>1 DEF TypeOK, BlockRec
    <3>3. QED BY <3>2, DequeAssumption DEF BlockRec
  <2>3. First(c)' = First(c) /\ block[c].tail <= block'[c].tail
    OBVIOUS
  <2>4. \A f, l, m \in Int : e \in f .. l - 1 /\ l <= m => e \in f .. m - 1
    BY ONLY <2>1
  <2>5. QED BY <2>1, <2>2, <2>3, <2>4
<1>3. Unclaimed' \cap Claimed' = {}
  <2>1. AccountedFor'
    BY EntriesAccountedFor, PTL
  <2>2. QED BY <2>1 DEF AccountedFor
<1>4. Unclaimed' \subseteq Blocks \X Slots
  BY DEF Unclaimed
<1>5. Unclaimed' \ Unclaimed \in SUBSET ((Blocks \X Slots) \ (Unclaimed \cup Claimed))
  BY <1>1, <1>3, <1>4
<1>6. Unclaimed' = Unclaimed \cup (Unclaimed' \ Unclaimed)
  BY <1>2
<1>7. QED BY <1>1, <1>5, <1>6 DEF Promise!Put

\* A pop takes an unclaimed value.
LEMMA PopTakes ==
  ASSUME DequeInv, at' = at, NEW b \in Blocks,
         block'[b].tail = block[b].tail - 1, First(b) < block[b].tail,
         \A c \in Blocks \ {b} : block'[c].tail = block[c].tail,
         \A c \in Blocks : First(c)' = First(c)
  PROVE  Promise!Take
<1> DEFINE x == <<b, block[b].tail - 1>>
<1>1. Claimed' = Claimed
  BY OwnerClaimsNothing
<1>2. First(b) \in Nat /\ block[b].tail \in 0 .. BlockSize /\ BlockSize \in Nat
  BY BlockType DEF DequeInv
<1>3. block[b].tail - 1 \in Slots /\ block[b].tail - 1 \in First(b) .. block[b].tail - 1
  BY <1>2 DEF Slots
<1>4. x \in Unclaimed
  BY <1>3 DEF Unclaimed
<1>5. ASSUME NEW c \in Blocks, NEW e \in Slots
      PROVE  <<c, e>> \in Unclaimed' <=> <<c, e>> \in Unclaimed /\ <<c, e>> # x
  <2>1. <<c, e>> \in Unclaimed' <=> e \in First(c)' .. block'[c].tail - 1
    BY DEF Unclaimed, First, is_stealable
  <2>2. <<c, e>> \in Unclaimed <=> e \in First(c) .. block[c].tail - 1
    BY DEF Unclaimed
  <2>3. CASE c # b
    BY <2>1, <2>2, <2>3
  <2>4. CASE c = b
    <3>1. First(c)' = First(c) /\ block'[c].tail = block[c].tail - 1
          /\ block[c].tail \in Int /\ First(c) \in Int
      BY <1>2, <2>4
    <3>2. e \in First(c)' .. block'[c].tail - 1
            <=> e \in First(c) .. block[c].tail - 1 /\ e # block[c].tail - 1
      BY <3>1
    <3>3. QED BY <2>1, <2>2, <2>4, <3>2
  <2>5. QED BY <2>3, <2>4
<1>6. Unclaimed' = Unclaimed \ {x}
  <2>1. Unclaimed' \subseteq Blocks \X Slots /\ Unclaimed \subseteq Blocks \X Slots
    BY DEF Unclaimed
  <2>2. QED BY <1>5, <2>1
<1>7. QED BY <1>1, <1>4, <1>6 DEF Promise!Take

\* A thief's claim is a claim.
LEMMA ClaimClaims ==
  ASSUME DequeInv, NEW t \in Thieves, Claim(t), block[Victim(t)].steal_tail = at[t].spos
  PROVE  Promise!Claim
<1>1. PICK b \in Blocks, e \in 0 .. BlockSize : b = Victim(t) /\ e = at[t].spos
  BY ThiefType DEF DequeInv
<1>2. /\ DequeInv' /\ t \notin Reading /\ Reading' = Reading \cup {t}
      /\ First(b) = e /\ e < block[b].tail
      /\ Becomes(block, block', b, block[b].head, block[b].tail,
                 block[b].steal_head, e + 1, block[b].full)
      /\ Moves(at, at', t, "read", at[t].thief, at[t].spos)
  BY <1>1, ClaimStep
<1>3. block[b].tail \in 0 .. BlockSize /\ BlockSize \in Nat
  BY BlockType DEF DequeInv
<1>4. e \in Slots /\ e \in First(b) .. block[b].tail - 1
  BY <1>2, <1>3 DEF Slots
<1>5. <<b, e>> \in Unclaimed
  BY <1>4 DEF Unclaimed
<1>6. First(b)' = e + 1 /\ \A c \in Blocks \ {b} : First(c)' = First(c)
  <2>1. \A c \in Blocks \ {b} : First(c)' = First(c)
    BY <1>2 DEF Becomes, First, is_stealable
  <2>2. First(b)' = e + 1
    <3>1. block'[b].steal_tail = e + 1 /\ block'[b].head = block[b].head
      BY <1>2 DEF Becomes
    <3>2. block[b].head = BlockSize
      <4>1. is_stealable(b)
        BY <1>1, <1>2, <1>3 DEF is_stealable
      <4>2. QED BY <4>1 DEF DequeInv, Ordered
    <3>3. QED BY <1>2, <1>3, <3>1, <3>2 DEF First, is_stealable
  <2>3. QED BY <2>1, <2>2
<1>7. ASSUME NEW c \in Blocks, NEW f \in Slots
      PROVE  <<c, f>> \in Unclaimed' <=> <<c, f>> \in Unclaimed /\ <<c, f>> # <<b, e>>
  <2>1. <<c, f>> \in Unclaimed' <=> f \in First(c)' .. block'[c].tail - 1
    BY DEF Unclaimed, First, is_stealable
  <2>2. <<c, f>> \in Unclaimed <=> f \in First(c) .. block[c].tail - 1
    BY DEF Unclaimed
  <2>3. block'[c].tail = block[c].tail
    BY <1>2 DEF Becomes
  <2>4. CASE c # b
    BY <1>6, <2>1, <2>2, <2>3, <2>4
  <2>5. CASE c = b
    <3>1. First(c) = e /\ First(c)' = e + 1
      BY <1>2, <1>6, <2>5 DEF First, is_stealable
    <3>2. f \in e + 1 .. block[b].tail - 1 <=> f \in e .. block[b].tail - 1 /\ f # e
      BY <1>3
    <3>3. QED BY <2>1, <2>2, <2>3, <2>5, <3>1, <3>2
  <2>6. QED BY <2>4, <2>5
<1>8. Unclaimed' = Unclaimed \ {<<b, e>>}
  <2>1. Unclaimed' \subseteq Blocks \X Slots /\ Unclaimed \subseteq Blocks \X Slots
    BY DEF Unclaimed
  <2>2. QED BY <1>7, <2>1
<1>9. Claimed' = Claimed \cup {<<b, e>>}
  <2>1. \A u \in Thieves : at'[u].thief = at[u].thief /\ at'[u].spos = at[u].spos
    BY <1>2 DEF Moves
  <2>2. Reading \subseteq Thieves
    BY DEF Reading
  <2>3. QED BY <1>1, <1>2, <2>1, <2>2 DEF Claimed, Victim, Index
<1>10. QED BY <1>5, <1>8, <1>9 DEF Promise!Claim

\* A thief that reads its entry ends its claim.
LEMMA ReadReads ==
  ASSUME DequeInv, NEW t \in Thieves, ReadEntry(t)
  PROVE  Promise!Read
<1>1. /\ t \in Reading /\ Reading' = Reading \ {t} /\ Reading \subseteq Thieves
      /\ \A u \in Thieves : Victim(u)' = Victim(u) /\ at'[u].spos = at[u].spos
      /\ \A c \in Blocks : First(c)' = First(c) /\ block'[c].tail = block[c].tail
  BY ReadEntryStep DEF Reading
<1>2. PICK x : x = <<Victim(t), at[t].spos>>
  OBVIOUS
<1>3. x \in Claimed
  BY <1>1, <1>2 DEF Claimed
<1>4. \A u \in Reading : <<Victim(u), at[u].spos>> = x => u = t
  BY <1>1, <1>2 DEF DequeInv, Stealing
<1>5. Claimed' = Claimed \ {x}
  <2>1. \A y : y \in Claimed' <=> \E u \in Reading : u # t /\ y = <<Victim(u), at[u].spos>>
    BY <1>1 DEF Claimed
  <2>2. \A y : y \in Claimed <=> \E u \in Reading : y = <<Victim(u), at[u].spos>>
    BY DEF Claimed
  <2>3. QED BY <1>2, <1>4, <2>1, <2>2
<1>6. Unclaimed' = Unclaimed
  BY <1>1, SameEnds
<1>7. QED BY <1>3, <1>5, <1>6 DEF Promise!Read
-----------------------------------------------------------------------------
(***************************************************************************)
(* Every step keeps the inductive invariant and does what a bag does.      *)
(***************************************************************************)
BagStep == Promise!Put \/ Promise!Claim \/ Promise!Read \/ Promise!Take \/ Unseen

LEMMA StepIsBagStep == DequeInv /\ [Next]_vars => DequeInv' /\ BagStep
<1> SUFFICES ASSUME DequeInv, [Next]_vars PROVE DequeInv' /\ BagStep
  OBVIOUS
<1>1. CASE push_back
  <2>1. rest \in 0 .. MaxRange
    BY DEF DequeInv, TypeOK
  <2>2. PICK n \in 0 .. MaxRange : op \in {"idle", "put"} /\ bulk_put(n)
    BY <1>1, <2>1, DequeAssumption DEF push_back
  <2>3. /\ DequeInv' /\ at' = at
        /\ \A c \in Blocks : First(c)' = First(c) /\ block[c].tail <= block'[c].tail
    BY <2>2, PutStep
  <2>4. QED BY <2>3, PushPuts DEF BagStep
<1>2. CASE advance_put_index
  BY <1>2, AdvancePutStep DEF BagStep
<1>3. CASE reclaim
  BY <1>3, ReclaimStep DEF BagStep
<1>4. CASE get
  <2>1. /\ DequeInv' /\ at' = at
        /\ Unseen \/ \E b \in Blocks :
             /\ block'[b].tail = block[b].tail - 1 /\ First(b) < block[b].tail
             /\ \A c \in Blocks \ {b} : block'[c].tail = block[c].tail
             /\ \A c \in Blocks : First(c)' = First(c)
    BY <1>4, GetStep
  <2>2. CASE Unseen
    BY <2>1, <2>2 DEF BagStep
  <2>3. ASSUME NEW b \in Blocks,
               block'[b].tail = block[b].tail - 1, First(b) < block[b].tail,
               \A c \in Blocks \ {b} : block'[c].tail = block[c].tail,
               \A c \in Blocks : First(c)' = First(c)
        PROVE  BagStep
    BY <2>1, <2>3, PopTakes DEF BagStep
  <2>4. QED BY <2>1, <2>2, <2>3
<1>5. CASE takeover
  BY <1>5, TakeoverStep DEF BagStep
<1>6. CASE advance_get_index
  BY <1>6, AdvanceGetStep DEF BagStep
<1>7. ASSUME NEW t \in Thieves, steal_front(t) \/ StealStep(t) PROVE DequeInv' /\ BagStep
  <2>1. CASE steal_front(t)
    BY <2>1, StealFrontStep DEF BagStep
  <2>2. CASE ReadStealTail(t)
    BY <2>2, ReadStealTailStep DEF BagStep
  <2>3. CASE ReadTail(t)
    BY <2>3, ReadTailStep DEF BagStep
  <2>4. CASE Claim(t)
    <3>1. CASE block[Victim(t)].steal_tail = at[t].spos
      BY <2>4, <3>1, ClaimStep, ClaimClaims DEF BagStep
    <3>2. CASE block[Victim(t)].steal_tail # at[t].spos
      BY <2>4, <3>2, ConflictStep DEF BagStep
    <3>3. QED BY <3>1, <3>2
  <2>5. CASE ReadEntry(t)
    BY <2>5, ReadEntryStep, ReadReads DEF BagStep
  <2>6. CASE FinishSteal(t)
    BY <2>6, FinishStealStep DEF BagStep
  <2>7. CASE advance_steal_index(t)
    BY <2>7, AdvanceStealStep DEF BagStep
  <2>8. QED BY <1>7, <2>1, <2>2, <2>3, <2>4, <2>5, <2>6, <2>7 DEF StealStep
<1>8. CASE UNCHANGED vars
  <2>1. /\ block' = block /\ at' = at /\ op' = op /\ owner_block' = owner_block
        /\ thief_block' = thief_block /\ rest' = rest /\ stale' = stale
    BY <1>8 DEF vars, ownerVars
  <2>2. TypeOK'
    BY ONLY DequeInv, <2>1 DEF TypeOK, DequeInv
  <2>3. QED BY <2>1, <2>2, OwnedKept, CountersStep DEF DequeInv, BagStep
<1>9. QED BY <1>1, <1>2, <1>3, <1>4, <1>5, <1>6, <1>7, <1>8 DEF Next, OwnerStep

\* The inductive invariant holds throughout.
LEMMA InvHolds == Spec => []DequeInv
  BY InitEstablishesInv, StepIsBagStep, PTL DEF Spec

\* The deque's variables have the types of the code's, for any ring.
THEOREM TypeCorrect == Spec => []TypeOK
<1>1. DequeInv => TypeOK
  BY DEF DequeInv
<1>2. QED BY <1>1, InvHolds, PTL

\* No value is lost, overwritten or given out twice (lines 377-464): the
\* entries that hold a value are those unclaimed and those claimed by one thief.
THEOREM NothingIsLost == Spec => []AccountedFor
<1>1. DequeInv => AccountedFor
  BY EntriesAccountedFor
<1>2. QED BY <1>1, InvHolds, PTL

\* reclaim spins only on a thief that has yet to finish reading, and a takeover
\* is followed by a value (lines 158-171, 251-259, 443-447).
THEOREM OwnerDoesNotSpin == Spec => []NoEndlessSpin
<1>1. DequeInv => NoEndlessSpin
  <2> SUFFICES ASSUME DequeInv PROVE NoEndlessSpin
    OBVIOUS
  <2>1. PICK b \in Blocks : b = Current
    BY Neighbours DEF DequeInv
  <2>2. /\ TypeOK /\ Owned /\ First(b) = block[b].head /\ Ordered(b) /\ Counted(b)
    BY <2>1 DEF DequeInv, Owned, First, is_stealable, is_writable
  <2>3. ASSUME op = "reclaim", block[b].steal_head # block[b].tail
        PROVE  \E t \in Thieves : Victim(t) = b /\ at[t].pc \in {"read", "finish"}
    <3>1. block[b].steal_head + Cardinality(Readers(b)) = block[b].tail
      BY <2>1, <2>2, <2>3 DEF Owned, Counted
    <3>2. block[b].steal_head \in Int
      BY <2>2, BlockType
    <3>3. Cardinality(Readers(b)) # 0
      BY ONLY <2>3, <3>1, <3>2
    <3>4. Readers(b) # {}
      BY <3>3, FS_EmptySet
    <3>5. QED BY <3>4 DEF Readers, Inside
  <2>4. ASSUME op = "get" PROVE block[b].head \notin {block[b].tail, BlockSize}
    <3>1. block[b].head # block[b].tail /\ block[b].head <= block[b].tail
      BY <2>1, <2>2, <2>4 DEF Owned, Ordered
    <3>2. block[b].head \in 0 .. BlockSize /\ block[b].tail \in 0 .. BlockSize /\ BlockSize \in Nat
      BY <2>2, BlockType
    <3>3. QED BY ONLY <3>1, <3>2
  <2>5. QED BY <2>1, <2>3, <2>4 DEF NoEndlessSpin
<1>2. QED BY <1>1, InvHolds, PTL

\* The deque implements the bag of tasks: every push puts tasks at free
\* places, every pop and every claim takes one out (lines 157-245).
THEOREM DequeImplementsBag == Spec => DequeIsBag
<1>1. Init => Promise!BagInit
  <2> SUFFICES ASSUME Init PROVE Promise!BagInit
    OBVIOUS
  <2>1. Reading = {}
    BY DEF Init, Reading, Idle
  <2>2. Claimed = {}
    BY <2>1 DEF Claimed
  <2>3. ASSUME NEW b \in Blocks PROVE First(b) .. block[b].tail - 1 = {}
    <3>1. First(b) = 0 /\ block[b].tail = 0
      BY DEF Init, First, is_stealable
    <3>2. 0 .. 0 - 1 = {}
      OBVIOUS
    <3>3. QED BY <3>1, <3>2
  <2>4. Unclaimed = {}
    BY <2>3 DEF Unclaimed
  <2>5. QED BY <2>2, <2>4 DEF Promise!BagInit
<1>2. DequeInv /\ [Next]_vars =>
        [Promise!Put \/ Promise!Claim \/ Promise!Read \/ Promise!Take]_<<Unclaimed, Claimed>>
  BY StepIsBagStep DEF BagStep, Unseen
<1>3. QED BY <1>1, <1>2, InvHolds, PTL DEF Spec, DequeIsBag, Promise!BagSpec
-----------------------------------------------------------------------------
(***************************************************************************)
(* Full and empty.  As long as no thief has moved thief_block_ to a block  *)
(* that is no longer stealable, the stealable blocks are those from        *)
(* thief_block_, or the one after it, to the one before the owner's; and   *)
(* the owner's block, unless it is to be reclaimed, has not been granted.  *)
(* thief_block_ only grows, and a thief moves it on from a block that has  *)
(* nothing left and is not granted again before.                           *)
(***************************************************************************)
HeadBelow == op # "reclaim" => block[Current].head < BlockSize

Window ==
  /\ owner_block - thief_block \in 1 .. NumBlocks - 1
  /\ \A c \in thief_block + 1 .. owner_block - 1 : TakenOver(Index(c)) \/ is_stealable(Index(c))
  /\ \A b \in Blocks : is_stealable(b) => \E c \in thief_block .. owner_block - 1 : b = Index(c)
  /\ op = "store thief" => thief_block = Predecessor

Passed ==
  /\ 0 <= thief_block
  /\ \A t \in Thieves : at[t].thief <= thief_block
  /\ \A t \in Thieves : at[t].pc \in {"advance", "advance thief"} /\ at[t].thief = thief_block
       => ~is_stealable(Index(thief_block))

WindowInv == DequeInv /\ HeadBelow /\ (~stale => Window /\ Passed)

\* Counters of one block that are less than a round apart are the same, and
\* those up to a round apart are a round apart.
LEMMA SameBlock ==
  ASSUME NEW c \in Int, NEW d \in Int, Index(c) = Index(d)
  PROVE  /\ c - d < NumBlocks /\ d - c < NumBlocks => c = d
         /\ c - d \in 1 .. NumBlocks => c = d + NumBlocks
<1>0. NumBlocks \in Nat \ {0}
  BY DequeAssumption
<1>1. ASSUME NEW x \in Int, NEW y \in Int, Index(x) = Index(y), x - y < NumBlocks, y - x < NumBlocks
      PROVE  x = y
  <2>1. PICK q \in Int : x - y = NumBlocks * q
    BY <1>0, <1>1, SameRemainder DEF Index
  <2>2. -NumBlocks < NumBlocks * q /\ NumBlocks * q < NumBlocks
    <3>1. -NumBlocks < x - y /\ x - y < NumBlocks
      BY <1>0, <1>1
    <3>2. QED BY <2>1, <3>1
  <2>3. q = 0
    BY <1>0, <2>2, SmallProduct
  <2>4. NumBlocks * 0 = 0
    BY <1>0
  <2>5. QED BY <2>1, <2>3, <2>4
<1>2. ASSUME c - d \in 1 .. NumBlocks PROVE c = d + NumBlocks
  <2>1. d + NumBlocks \in Int /\ Index(d + NumBlocks) = Index(d)
    BY <1>0, Ring
  <2>2. c - (d + NumBlocks) < NumBlocks /\ (d + NumBlocks) - c < NumBlocks
    BY <1>0, <1>2
  <2>3. QED BY <1>1, <2>1, <2>2
<1>3. QED BY <1>1, <1>2

\* What a step of a thief does to the counters and the ends of the blocks.
LEMMA ThiefTouches ==
  ASSUME DequeInv, NEW t \in Thieves, steal_front(t) \/ StealStep(t)
  PROVE  /\ UNCHANGED <<owner_block, op>>
         /\ \A b \in Blocks : block'[b].head = block[b].head
         /\ \/ /\ UNCHANGED <<thief_block, stale>>
               /\ \A b \in Blocks : block'[b].steal_tail = block[b].steal_tail
            \/ /\ UNCHANGED thief_block
               /\ ~stale' => ~stale /\ thief_block = at[t].thief
               /\ is_stealable(Victim(t))
               /\ \A b \in Blocks \ {Victim(t)} : block'[b].steal_tail = block[b].steal_tail
            \/ /\ thief_block' = thief_block + 1 /\ block' = block
               /\ at[t].pc = "advance thief" /\ at[t].thief = thief_block
               /\ ~stale' => ~stale /\ is_stealable(Index(thief_block + 1))
<1> USE DEF ownerVars
<1>0. /\ block \in [Blocks -> BlockRec] /\ Victim(t) \in Blocks
  BY ThiefType DEF DequeInv, TypeOK, BlockRec
<1>1. CASE steal_front(t) \/ ReadStealTail(t) \/ ReadTail(t)
  BY <1>1 DEF steal_front, ReadStealTail, ReadTail
<1>2. CASE ReadEntry(t)
  <2>1. Becomes(block, block', Victim(t), block[Victim(t)].head, block[Victim(t)].tail,
                block[Victim(t)].steal_head, block[Victim(t)].steal_tail, block[Victim(t)].full \ {at[t].spos})
    BY <1>0, <1>2, StealUpdate DEF ReadEntry
  <2>2. UNCHANGED <<owner_block, op, thief_block, stale>>
    BY <1>2 DEF ReadEntry
  <2>3. QED BY <1>0, <2>1, <2>2 DEF Becomes
<1>3. CASE FinishSteal(t)
  <2>1. Becomes(block, block', Victim(t), block[Victim(t)].head, block[Victim(t)].tail,
                block[Victim(t)].steal_head + 1, block[Victim(t)].steal_tail, block[Victim(t)].full)
    BY <1>0, <1>3, StealUpdate DEF FinishSteal
  <2>2. UNCHANGED <<owner_block, op, thief_block, stale>>
    BY <1>3 DEF FinishSteal
  <2>3. QED BY <1>0, <2>1, <2>2 DEF Becomes
<1>4. CASE Claim(t)
  <2>1. CASE block[Victim(t)].steal_tail = at[t].spos
    <3>1. /\ Becomes(block, block', Victim(t), block[Victim(t)].head, block[Victim(t)].tail,
                     block[Victim(t)].steal_head, at[t].spos + 1, block[Victim(t)].full)
      BY <1>4, <2>1, ClaimStep
    <3>2. /\ UNCHANGED <<owner_block, op, thief_block>> /\ stale' = (stale \/ thief_block # at[t].thief)
          /\ at[t].pc = "claim"
      BY <1>4, <2>1 DEF Claim
    <3>3. is_stealable(Victim(t))
      <4>1. at[t].spos < BlockSize
        BY <3>2 DEF DequeInv, Stealing
      <4>2. at[t].spos \in 0 .. BlockSize /\ BlockSize \in Nat
        BY ThiefType, DequeAssumption DEF DequeInv
      <4>3. QED BY <2>1, <4>1, <4>2 DEF is_stealable
    <3>4. QED BY <1>0, <3>1, <3>2, <3>3 DEF Becomes
  <2>2. CASE block[Victim(t)].steal_tail # at[t].spos
    BY <1>4, <2>2 DEF Claim
  <2>3. QED BY <2>1, <2>2
<1>5. CASE advance_steal_index(t)
  BY <1>5 DEF advance_steal_index
<1>6. QED BY <1>1, <1>2, <1>3, <1>4, <1>5 DEF StealStep

\* The owner's block is only granted when the owner leaves it.
LEMMA HeadStep ==
  ASSUME DequeInv, HeadBelow, [Next]_vars
  PROVE  HeadBelow'
<1> USE DEF ownerVars
<1>0. /\ block \in [Blocks -> BlockRec] /\ Current \in Blocks /\ Index(Predecessor) \in Blocks
      /\ Index(Predecessor) # Current /\ BlockSize \in Nat \ {0}
  BY Neighbours, DequeAssumption DEF DequeInv, TypeOK, BlockRec
<1>1. CASE push_back
  <2>1. PICK f, x : block' = [block EXCEPT ![Current].full = f, ![Current].tail = x]
    BY <1>1 DEF push_back, bulk_put
  <2>2. op # "reclaim" /\ owner_block' = owner_block
    BY <1>1 DEF push_back, bulk_put
  <2>3. block'[Current].head = block[Current].head
    BY <1>0, <2>1, EntriesUpdate DEF Becomes
  <2>4. QED BY <2>2, <2>3 DEF HeadBelow, Current, Index
<1>2. CASE advance_put_index
  BY <1>2 DEF advance_put_index, HeadBelow, Current, Index
<1>3. CASE reclaim
  <2>1. Becomes(block, block', Current, 0, 0, 0, BlockSize, block[Current].full)
    BY <1>0, <1>3, ReclaimUpdate DEF reclaim
  <2>2. owner_block' = owner_block /\ block'[Current].head = 0
    BY <1>3, <2>1 DEF reclaim, Becomes
  <2>3. QED BY <1>0, <2>2 DEF HeadBelow, Current, Index
<1>4. CASE get
  <2>1. \/ block' = block
        \/ \E f, x : block' = [block EXCEPT ![Current].full = f, ![Current].tail = x]
    BY <1>4 DEF get
  <2>2. op # "reclaim" /\ owner_block' = owner_block
    BY <1>4 DEF get
  <2>3. block'[Current].head = block[Current].head
    <3>1. ASSUME NEW f, NEW x, block' = [block EXCEPT ![Current].full = f, ![Current].tail = x]
          PROVE  block'[Current].head = block[Current].head
      BY <1>0, <3>1, EntriesUpdate DEF Becomes
    <3>2. QED BY <2>1, <3>1
  <2>4. QED BY <2>2, <2>3 DEF HeadBelow, Current, Index
<1>5. CASE takeover
  <2>1. PICK h, s : block' = [block EXCEPT ![Index(Predecessor)].steal_tail = s, ![Index(Predecessor)].head = h]
    BY <1>5 DEF takeover
  <2>2. op # "reclaim" /\ owner_block' = owner_block
    BY <1>5 DEF takeover
  <2>3. block'[Current].head = block[Current].head
    BY <1>0, <2>1, GrantUpdate DEF Becomes
  <2>4. QED BY <2>2, <2>3 DEF HeadBelow, Current, Index
<1>6. CASE advance_get_index
  <2>1. block' = block /\ op \in {"compare thief", "store thief"}
    BY <1>6 DEF advance_get_index
  <2>2. block[Index(Predecessor)].head < BlockSize
    <3>1. is_writable(Index(Predecessor)) /\ block[Index(Predecessor)].head # block[Index(Predecessor)].tail
      BY <1>0, <2>1 DEF DequeInv, Owned, TakenOver
    <3>2. block[Index(Predecessor)].head <= block[Index(Predecessor)].tail
      BY <1>0, <3>1 DEF DequeInv, Ordered, First, is_stealable, is_writable
    <3>3. block[Index(Predecessor)].head \in 0 .. BlockSize /\ block[Index(Predecessor)].tail \in 0 .. BlockSize
      BY <1>0, BlockType DEF DequeInv
    <3>4. QED BY <1>0, <3>1, <3>2, <3>3
  <2>3. Current' \in {Current, Index(Predecessor)}
    <3>1. owner_block' \in {owner_block, Predecessor, Predecessor + NumBlocks}
      BY <1>6 DEF advance_get_index
    <3>2. Index(Predecessor + NumBlocks) = Index(Predecessor)
      BY Neighbours DEF DequeInv
    <3>3. QED BY <3>1, <3>2 DEF Current, Index
  <2>4. block[Current].head < BlockSize
    BY <2>1 DEF HeadBelow
  <2>5. QED BY <2>1, <2>2, <2>3, <2>4 DEF HeadBelow
<1>7. ASSUME NEW t \in Thieves, steal_front(t) \/ StealStep(t) PROVE HeadBelow'
  <2>1. UNCHANGED <<owner_block, op>> /\ \A b \in Blocks : block'[b].head = block[b].head
    BY <1>7, ThiefTouches
  <2>2. QED BY <1>0, <2>1 DEF HeadBelow, Current, Index
<1>8. CASE UNCHANGED vars
  BY <1>8 DEF vars, HeadBelow, Current, Index
<1>9. QED BY <1>1, <1>2, <1>3, <1>4, <1>5, <1>6, <1>7, <1>8 DEF Next, OwnerStep

\* A step that moves no block counter and grants nothing.
LEMMA WindowStays ==
  ASSUME DequeInv, Window, UNCHANGED <<owner_block, thief_block>>,
         \A b \in Blocks : block'[b].steal_tail = block[b].steal_tail,
         op' = op \/ {op, op'} \cap {"compare thief", "store thief"} = {}
  PROVE  Window'
<1>1. owner_block \in Int /\ thief_block \in Int
  BY DEF DequeInv, TypeOK
<1>2. \A b \in Blocks : /\ TakenOver(b)' <=> TakenOver(b)
                        /\ is_stealable(b)' <=> is_stealable(b)
  BY DEF TakenOver, Predecessor, Index, is_stealable
<1>3. \A c \in Int : Index(c) \in Blocks /\ Index(c)' = Index(c)
  BY Ring DEF Index
<1>4. ASSUME NEW c \in thief_block + 1 .. owner_block - 1
      PROVE  TakenOver(Index(c))' \/ is_stealable(Index(c))'
  <2>1. c \in Int /\ Index(c) \in Blocks
    BY <1>1, <1>3
  <2>2. TakenOver(Index(c)) \/ is_stealable(Index(c))
    BY DEF Window
  <2>3. QED BY <2>1, <2>2 DEF TakenOver, Predecessor, Index, is_stealable
<1>5. \A b \in Blocks : is_stealable(b)' => \E c \in thief_block .. owner_block - 1 : b = Index(c)
  BY <1>2 DEF Window
<1>6. op' = "store thief" => thief_block = Predecessor
  BY DEF Window
<1>7. QED BY <1>1, <1>4, <1>5, <1>6 DEF Window, Predecessor, Index, TakenOver, is_stealable

\* The grant puts the owner's block at the end of the window.
LEMMA WindowGrants ==
  ASSUME DequeInv, HeadBelow, Window, advance_put_index
  PROVE  Window' /\ \A b \in Blocks : is_stealable(b)' => is_stealable(b) \/ b = Current
<1>1. /\ owner_block \in Int /\ thief_block \in Int /\ NumBlocks \in Nat \ {0, 1} /\ BlockSize \in Nat \ {0}
      /\ Current \in Blocks /\ block \in [Blocks -> BlockRec]
  BY Neighbours, DequeAssumption DEF DequeInv, TypeOK, BlockRec
<1>a. op = "advance put"
  BY DEF advance_put_index
<1>2. thief_block' = thief_block
  BY DEF advance_put_index
<1>3. CASE op' = "idle" /\ rest' = 0 /\ block' = block /\ owner_block' = owner_block
  <2>1. Window'
    BY <1>a, <1>2, <1>3, WindowStays
  <2>2. \A b \in Blocks : is_stealable(b)' => is_stealable(b)
    BY <1>3 DEF is_stealable
  <2>3. QED BY <2>1, <2>2
<1>4. CASE ~(op' = "idle" /\ rest' = 0 /\ block' = block /\ owner_block' = owner_block)
  <2>1. /\ owner_block' = owner_block + 1 /\ op' = "reclaim"
        /\ (owner_block + 1) - thief_block \in 0 .. NumBlocks - 1
        /\ block' = [block EXCEPT ![Current].head = BlockSize, ![Current].steal_tail = block[Current].head]
    BY <1>4 DEF advance_put_index
  <2>2. PICK b \in Blocks : b = Current
    BY <1>1
  <2>3. Becomes(block, block', b, BlockSize, block[b].tail, block[b].steal_head,
                block[b].head, block[b].full)
    BY <1>1, <2>1, <2>2, GrantUpdate
  <2>4. is_stealable(b)' /\ \A c \in Blocks \ {b} : is_stealable(c)' <=> is_stealable(c)
    <3>1. block[b].head < BlockSize /\ block[b].head \in 0 .. BlockSize
      BY <1>a, <2>2, BlockType DEF HeadBelow, DequeInv
    <3>2. block'[b].steal_tail # BlockSize
      BY <1>1, <2>3, <3>1 DEF Becomes
    <3>3. \A c \in Blocks \ {b} : block'[c].steal_tail = block[c].steal_tail
      BY <2>3 DEF Becomes
    <3>4. QED BY <3>2, <3>3 DEF is_stealable
  <2>5. owner_block - thief_block \in 1 .. NumBlocks - 1
    BY DEF Window
  <2>6. (owner_block' - thief_block') \in 1 .. NumBlocks - 1
    BY <1>1, <1>2, <2>1, <2>5
  <2>7. ASSUME NEW c \in thief_block + 1 .. owner_block PROVE is_stealable(Index(c))'
    <3>1. c \in Int /\ Index(c) \in Blocks
      BY <1>1, Ring
    <3>2. CASE c = owner_block
      BY <2>2, <2>4, <3>2 DEF Current, is_stealable, Index
    <3>3. CASE c # owner_block
      <4>1. c \in thief_block + 1 .. owner_block - 1
        BY <1>1, <3>3
      <4>2. is_stealable(Index(c))
        BY <1>a, <4>1 DEF Window, TakenOver
      <4>3. Index(c) # b
        <5>1. c - owner_block < NumBlocks /\ owner_block - c < NumBlocks
          BY <1>1, <2>5, <4>1
        <5>2. QED BY <1>1, <2>2, <3>1, <3>3, <5>1, SameBlock DEF Current
      <4>4. QED BY <2>4, <3>1, <4>2, <4>3 DEF is_stealable, Index
    <3>4. QED BY <3>2, <3>3
  <2>8. ASSUME NEW c \in Blocks, is_stealable(c)' PROVE \E d \in thief_block .. owner_block : c = Index(d)
    <3>1. CASE c = b
      <4>1. owner_block \in thief_block .. owner_block
        BY <1>1, <2>5
      <4>2. QED BY <2>2, <3>1, <4>1 DEF Current
    <3>2. CASE c # b
      <4>1. is_stealable(c)
        BY <2>4, <2>8, <3>2
      <4>2. PICK d \in thief_block .. owner_block - 1 : c = Index(d)
        BY <4>1 DEF Window
      <4>3. d \in thief_block .. owner_block
        BY <1>1, <4>2
      <4>4. QED BY <4>2, <4>3
    <3>3. QED BY <3>1, <3>2
  <2>9. owner_block' - 1 = owner_block
    BY <1>1, <2>1
  <2>10. Window'
    BY <1>2, <2>1, <2>6, <2>7, <2>8, <2>9 DEF Window, is_stealable, Index
  <2>11. QED BY <2>2, <2>4, <2>10
<1>5. QED BY <1>3, <1>4

\* A block that can be stolen from holds a value.
LEMMA StealableHolds ==
  ASSUME DequeInv, NEW b \in Blocks, is_stealable(b)
  PROVE  First(b) < block[b].tail
<1>1. block[b].steal_tail \in 0 .. BlockSize /\ BlockSize \in Nat /\ block[b].steal_tail # BlockSize
  BY BlockType, DequeAssumption DEF DequeInv, is_stealable
<1>2. block[b].tail = BlockSize /\ First(b) = block[b].steal_tail
  BY DEF DequeInv, Ordered, First
<1>3. QED BY <1>1, <1>2

\* The takeover of an empty block: it was where the thieves are, and no other
\* block can be stolen from.
LEMMA EmptyPredecessor ==
  ASSUME DequeInv, Window, op = "takeover",
         First(Index(Predecessor)) = block[Index(Predecessor)].tail
  PROVE  /\ thief_block = Predecessor
         /\ \A b \in Blocks : ~is_stealable(b)
<1>1. /\ owner_block \in Int /\ thief_block \in Int /\ NumBlocks \in Nat \ {0, 1} /\ Predecessor = owner_block - 1
      /\ Index(Predecessor) \in Blocks /\ owner_block - thief_block \in 1 .. NumBlocks - 1
      /\ Predecessor \in Int
  BY Neighbours, DequeAssumption DEF DequeInv, TypeOK, Predecessor, Window
<1>2. ~is_stealable(Index(Predecessor))
  <2>1. First(Index(Predecessor)) \in 0 .. BlockSize /\ BlockSize \in Nat
    BY <1>1, BlockType DEF DequeInv
  <2>2. ~(First(Index(Predecessor)) < block[Index(Predecessor)].tail)
    BY <2>1
  <2>3. QED BY <1>1, <2>2, StealableHolds
<1>3. thief_block = Predecessor
  <2>1. CASE thief_block # Predecessor
    <3>1. Predecessor \in thief_block + 1 .. owner_block - 1
      BY <1>1, <2>1
    <3>2. QED BY <1>2, <3>1 DEF Window, TakenOver
  <2>2. QED BY <2>1
<1>4. ASSUME NEW b \in Blocks, is_stealable(b) PROVE FALSE
  <2>1. PICK c \in thief_block .. owner_block - 1 : b = Index(c)
    BY <1>4 DEF Window
  <2>2. c = Predecessor
    BY <1>1, <1>3, <2>1
  <2>3. QED BY <1>2, <1>4, <2>1, <2>2
<1>5. QED BY <1>3, <1>4

LEMMA WindowTakesOver ==
  ASSUME DequeInv, Window, takeover
  PROVE  Window' /\ \A b \in Blocks : is_stealable(b)' => is_stealable(b)
<1>1. /\ owner_block \in Int /\ thief_block \in Int /\ Index(Predecessor) \in Blocks
      /\ block \in [Blocks -> BlockRec]
  BY Neighbours DEF DequeInv, TypeOK, BlockRec
<1>2. /\ op = "takeover" /\ UNCHANGED <<owner_block, thief_block>>
      /\ block' = [block EXCEPT ![Index(Predecessor)].steal_tail = BlockSize,
                                ![Index(Predecessor)].head = First(Index(Predecessor))]
      /\ op' = IF First(Index(Predecessor)) = block[Index(Predecessor)].tail THEN "idle" ELSE "compare thief"
  BY DEF takeover
<1>3. PICK b \in Blocks : b = Index(Predecessor)
  BY <1>1
<1>4. Becomes(block, block', b, First(b), block[b].tail, block[b].steal_head, BlockSize, block[b].full)
  BY <1>1, <1>2, <1>3, GrantUpdate
<1>5. ~is_stealable(b)' /\ \A c \in Blocks \ {b} : is_stealable(c)' <=> is_stealable(c)
  BY <1>4 DEF Becomes, is_stealable
<1>6. \A c \in Blocks : is_stealable(c)' => \E d \in thief_block .. owner_block - 1 : c = Index(d)
  BY <1>5 DEF Window
<1>7. \A c \in Blocks : TakenOver(c)' <=> op' = "compare thief" /\ c = b
  BY <1>2, <1>3 DEF TakenOver, Predecessor, Index
<1>8. ASSUME NEW c \in thief_block + 1 .. owner_block - 1
      PROVE  TakenOver(Index(c))' \/ is_stealable(Index(c))'
  <2>1. PICK d \in Blocks : d = Index(c)
    BY <1>1, Ring
  <2>2. is_stealable(d)
    BY <1>2, <2>1 DEF Window, TakenOver
  <2>3. CASE d # b
    BY <1>5, <2>1, <2>2, <2>3 DEF is_stealable, Index
  <2>4. CASE d = b
    <3>1. op' = "compare thief"
      BY <1>2, <1>3, <2>2, <2>4, EmptyPredecessor
    <3>2. TakenOver(d)'
      BY <1>7, <2>4, <3>1
    <3>3. QED BY <2>1, <3>2 DEF TakenOver, Index, Predecessor
  <2>5. QED BY <2>3, <2>4
<1>9. op' # "store thief"
  BY <1>2
<1>10. Window'
  BY <1>2, <1>6, <1>8, <1>9 DEF Window, is_stealable, Index
<1>11. QED BY <1>5, <1>10

\* The owner goes back one block, or round the ring when the thieves are there.
LEMMA WindowGoesBack ==
  ASSUME DequeInv, Window, advance_get_index
  PROVE  /\ Window' /\ (thief_block' = thief_block \/ thief_block' > thief_block)
         /\ \A b \in Blocks : is_stealable(b)' => is_stealable(b)
<1>1. /\ owner_block \in Int /\ thief_block \in Int /\ NumBlocks \in Nat \ {0, 1} /\ Predecessor = owner_block - 1
      /\ Index(Predecessor) \in Blocks /\ owner_block - thief_block \in 1 .. NumBlocks - 1
  BY Neighbours, DequeAssumption DEF DequeInv, TypeOK, Predecessor, Window
<1>2. block' = block /\ op \in {"compare thief", "store thief"}
  BY DEF advance_get_index
<1>3. ~is_stealable(Index(Predecessor))
  BY <1>1, <1>2 DEF DequeInv, Owned, TakenOver, is_stealable, is_writable
<1>4. \A b \in Blocks : is_stealable(b)' <=> is_stealable(b)
  BY <1>2 DEF is_stealable
<1>5. ASSUME NEW b \in Blocks, is_stealable(b)
      PROVE  \E c \in thief_block .. owner_block - 2 : b = Index(c)
  <2>1. PICK c \in thief_block .. owner_block - 1 : b = Index(c)
    BY <1>5 DEF Window
  <2>2. c # owner_block - 1
    BY <1>1, <1>3, <1>5, <2>1
  <2>3. c \in thief_block .. owner_block - 2
    BY <1>1, <2>1, <2>2
  <2>4. QED BY <2>1, <2>3
<1>6. CASE op = "compare thief" /\ thief_block = Predecessor
  <2>1. op' = "store thief" /\ UNCHANGED <<owner_block, thief_block>>
    BY <1>6 DEF advance_get_index
  <2>a. thief_block = Predecessor
    BY <1>6
  <2>2. ASSUME NEW c \in thief_block + 1 .. owner_block - 1 PROVE FALSE
    BY <1>1, <2>a
  <2>3. \A b \in Blocks : is_stealable(b)' => \E c \in thief_block .. owner_block - 1 : b = Index(c)
    BY <1>4 DEF Window
  <2>4. (owner_block' - thief_block') \in 1 .. NumBlocks - 1 /\ thief_block' = Predecessor'
    BY <1>1, <2>a, <2>1 DEF Predecessor
  <2>5. Window'
    BY <2>1, <2>2, <2>3, <2>4 DEF Window, is_stealable, Index
  <2>6. QED BY <1>4, <2>1, <2>5
<1>7. CASE op = "compare thief" /\ thief_block # Predecessor
  <2>1. op' = "get" /\ owner_block' = Predecessor /\ thief_block' = thief_block
    BY <1>7 DEF advance_get_index
  <2>a. thief_block # Predecessor /\ owner_block' = Predecessor /\ thief_block' = thief_block
    BY <1>7, <2>1
  <2>2. (owner_block' - thief_block') \in 1 .. NumBlocks - 1 /\ owner_block' - 1 = owner_block - 2
    BY <1>1, <2>a
  <2>3. ASSUME NEW c \in thief_block + 1 .. owner_block - 2 PROVE is_stealable(Index(c))'
    <3>1. c \in thief_block + 1 .. owner_block - 1 /\ c \in Int /\ c # Predecessor
          /\ c - Predecessor < NumBlocks /\ Predecessor - c < NumBlocks /\ Predecessor \in Int
      BY <1>1
    <3>2. Index(c) # Index(Predecessor)
      BY <3>1, SameBlock
    <3>3. is_stealable(Index(c))
      BY <3>1, <3>2 DEF Window, TakenOver
    <3>4. QED BY <1>2, <3>3 DEF is_stealable, Index
  <2>4. \A b \in Blocks : is_stealable(b)' => \E c \in thief_block .. owner_block - 2 : b = Index(c)
    BY <1>4, <1>5
  <2>5. Window'
    BY <2>1, <2>2, <2>3, <2>4 DEF Window, is_stealable, Index
  <2>6. QED BY <1>4, <2>1, <2>5
<1>8. CASE op = "store thief"
  <2>1. op' = "get" /\ owner_block' = Predecessor + NumBlocks /\ thief_block' = Predecessor + NumBlocks - 1
    BY <1>8 DEF advance_get_index
  <2>2. thief_block = Predecessor
    BY <1>8 DEF Window
  <2>3. \A b \in Blocks : ~is_stealable(b)'
    <3>1. ASSUME NEW c \in thief_block .. owner_block - 2 PROVE FALSE
      BY <1>1, <2>2
    <3>2. QED BY <1>4, <1>5, <3>1
  <2>4. (owner_block' - thief_block') \in 1 .. NumBlocks - 1
    BY <1>1, <2>1
  <2>5. ASSUME NEW c \in thief_block' + 1 .. owner_block' - 1 PROVE FALSE
    BY <1>1, <2>1
  <2>6. Window'
    BY <2>1, <2>3, <2>4, <2>5 DEF Window, is_stealable, Index
  <2>7. thief_block' > thief_block
    BY <1>1, <2>1, <2>2
  <2>8. QED BY <1>4, <2>6, <2>7
<1>9. QED BY <1>2, <1>6, <1>7, <1>8

\* What a step of a thief says of where the thieves are: it reads thief_block_,
\* or begins again; and it is done with a block only when that is not stealable.
LEMMA ThiefMoves ==
  ASSUME DequeInv, NEW t \in Thieves, steal_front(t) \/ StealStep(t)
  PROVE  /\ \A u \in Thieves \ {t} : at'[u] = at[u]
         /\ at'[t].thief \in {at[t].thief, thief_block, 0}
         /\ at'[t].pc \in {"advance", "advance thief"} =>
              /\ at'[t].thief = at[t].thief /\ UNCHANGED <<thief_block, block>>
              /\ ~is_stealable(Victim(t)) \/ at[t].pc = "advance"
<1> USE DEF Goto, Return, Idle
<1>0. at \in [Thieves -> [pc: {"idle", "steal tail", "tail", "claim", "read", "finish", "advance",
                              "advance thief"}, thief: Int, spos: 0 .. BlockSize]]
  BY DEF DequeInv, TypeOK
<1>1. CASE steal_front(t)
  BY <1>0, <1>1 DEF steal_front
<1>2. CASE ReadStealTail(t)
  BY <1>0, <1>2 DEF ReadStealTail
<1>3. CASE ReadTail(t)
  <2>1. at' = [at EXCEPT ![t] = Idle] \/ at' = [at EXCEPT ![t].pc = "claim"]
    BY <1>3 DEF ReadTail
  <2>2. CASE at' = [at EXCEPT ![t] = Idle]
    BY <1>0, <2>2
  <2>3. CASE at' = [at EXCEPT ![t].pc = "claim"]
    BY <1>0, <2>3
  <2>4. QED BY <2>1, <2>2, <2>3
<1>4. CASE Claim(t)
  <2>1. \/ at' = [at EXCEPT ![t].pc = "read"]
        \/ at' = [at EXCEPT ![t].pc = "steal tail", ![t].spos = 0]
    BY <1>4 DEF Claim
  <2>2. CASE at' = [at EXCEPT ![t].pc = "read"]
    BY <1>0, <2>2
  <2>3. CASE at' = [at EXCEPT ![t].pc = "steal tail", ![t].spos = 0]
    BY <1>0, <2>3
  <2>4. QED BY <2>1, <2>2, <2>3
<1>5. CASE ReadEntry(t)
  BY <1>0, <1>5 DEF ReadEntry
<1>6. CASE FinishSteal(t)
  BY <1>0, <1>6 DEF FinishSteal
<1>7. CASE advance_steal_index(t)
  <2>1. \/ at' = [at EXCEPT ![t] = Idle]
        \/ /\ at' = [at EXCEPT ![t].pc = "advance thief"]
           /\ at[t].pc = "advance" /\ UNCHANGED <<thief_block, block>>
    BY <1>7 DEF advance_steal_index
  <2>2. CASE at' = [at EXCEPT ![t] = Idle]
    BY <1>0, <2>2
  <2>3. CASE /\ at' = [at EXCEPT ![t].pc = "advance thief"]
             /\ at[t].pc = "advance" /\ UNCHANGED <<thief_block, block>>
    BY <1>0, <2>3
  <2>4. QED BY <2>1, <2>2, <2>3
<1>8. QED BY <1>1, <1>2, <1>3, <1>4, <1>5, <1>6, <1>7 DEF StealStep

\* The counters of the window other than thief_block_ name other blocks.
LEMMA NotTheFirst ==
  ASSUME DequeInv, Window, NEW c \in thief_block + 1 .. owner_block
  PROVE  c \in Int /\ Index(c) \in Blocks /\ Index(c) # Index(thief_block)
<1>1. /\ owner_block \in Int /\ thief_block \in Int /\ NumBlocks \in Nat \ {0, 1}
      /\ owner_block - thief_block \in 1 .. NumBlocks - 1
  BY DequeAssumption DEF DequeInv, TypeOK, Window
<1>2. c \in Int /\ c - thief_block < NumBlocks /\ thief_block - c < NumBlocks /\ c # thief_block
  BY <1>1
<1>3. QED BY <1>1, <1>2, Ring, SameBlock

\* A step of the owner leaves the block at thief_block_ passed over.
LEMMA OwnerPasses ==
  ASSUME DequeInv, Window, Passed, at' = at, thief_block' \in Int,
         thief_block' = thief_block \/ thief_block' > thief_block,
         \A b \in Blocks : is_stealable(b)' => is_stealable(b) \/ b = Current
  PROVE  Passed'
<1>1. owner_block \in Int /\ thief_block \in Int /\ \A t \in Thieves : at[t].thief \in Int
  BY DEF DequeInv, TypeOK
<1>2. 0 <= thief_block' /\ \A t \in Thieves : at[t].thief <= thief_block'
  <2>1. 0 <= thief_block /\ \A t \in Thieves : at[t].thief <= thief_block
    BY DEF Passed
  <2>2. QED BY <1>1, <2>1
<1>3. ASSUME NEW t \in Thieves, at[t].pc \in {"advance", "advance thief"}, at[t].thief = thief_block'
      PROVE  thief_block' = thief_block /\ ~is_stealable(Index(thief_block))'
  <2>1. thief_block' = thief_block
    <3>1. at[t].thief <= thief_block /\ at[t].thief = thief_block'
      BY <1>3 DEF Passed
    <3>2. QED BY <1>1, <3>1
  <2>2. ~is_stealable(Index(thief_block))
    BY <1>3, <2>1 DEF Passed
  <2>3. Index(thief_block) \in Blocks /\ Index(thief_block) # Current
    <3>1. owner_block \in thief_block + 1 .. owner_block
      <4>1. owner_block - thief_block \in 1 .. NumBlocks - 1 /\ NumBlocks \in Nat
        BY DequeAssumption DEF Window
      <4>2. QED BY <1>1, <4>1
    <3>2. QED BY <1>1, <3>1, NotTheFirst, Ring DEF Current
  <2>4. PICK b \in Blocks : b = Index(thief_block)
    BY <2>3
  <2>5. ~is_stealable(b)'
    BY <2>2, <2>3, <2>4
  <2>6. QED BY <2>1, <2>4, <2>5 DEF is_stealable, Index
<1>4. QED BY <1>2, <1>3 DEF Passed, is_stealable, Index

\* A claim takes the last entry, or one before, of the first block only; and
\* thief_block_ moves on from a block with nothing left to one that has values.
LEMMA WindowStolen ==
  ASSUME DequeInv, Window, Passed, NEW t \in Thieves, steal_front(t) \/ StealStep(t), ~stale'
  PROVE  Window' /\ Passed'
<1>1. /\ owner_block \in Int /\ thief_block \in Int /\ NumBlocks \in Nat \ {0, 1}
      /\ owner_block - thief_block \in 1 .. NumBlocks - 1
      /\ \A u \in Thieves : at[u].thief \in Int
  BY DequeAssumption DEF DequeInv, TypeOK, Window
<1>2. UNCHANGED <<owner_block, op>>
  BY ThiefTouches
<1>3. \A b \in Blocks : is_stealable(b)' => is_stealable(b)
  BY ThiefTouches DEF is_stealable
<1>4. Index(thief_block) \in Blocks /\ Index(thief_block + 1) \in Blocks
  BY <1>1, Ring
<1>5. Window' /\ (thief_block' = thief_block \/ thief_block' = thief_block + 1)
  <2>1. CASE thief_block' = thief_block /\ \A b \in Blocks : block'[b].steal_tail = block[b].steal_tail
    BY <1>2, <2>1, WindowStays
  <2>2. CASE /\ UNCHANGED thief_block
             /\ thief_block = at[t].thief
             /\ \A b \in Blocks \ {Victim(t)} : block'[b].steal_tail = block[b].steal_tail
    <3>1. ASSUME NEW c \in thief_block + 1 .. owner_block - 1
          PROVE  TakenOver(Index(c))' \/ is_stealable(Index(c))'
      <4>1. c \in thief_block + 1 .. owner_block
        BY <1>1
      <4>2. Index(c) \in Blocks \ {Victim(t)}
        BY <2>2, <4>1, NotTheFirst DEF Victim
      <4>3. TakenOver(Index(c)) \/ is_stealable(Index(c))
        BY DEF Window
      <4>4. QED BY <1>2, <2>2, <4>2, <4>3 DEF TakenOver, is_stealable, Index, Predecessor
    <3>2. \A b \in Blocks : is_stealable(b)' => \E c \in thief_block .. owner_block - 1 : b = Index(c)
      BY <1>3 DEF Window
    <3>3. op' = "store thief" => thief_block = Predecessor
      BY <1>2 DEF Window
    <3>4. QED BY <1>1, <1>2, <2>2, <3>1, <3>2, <3>3 DEF Window, Predecessor, Index, TakenOver, is_stealable
  <2>3. CASE /\ thief_block' = thief_block + 1 /\ block' = block
             /\ at[t].pc = "advance thief" /\ at[t].thief = thief_block
             /\ is_stealable(Index(thief_block + 1))
    <3>1. thief_block + 1 # owner_block
      BY <1>1, <2>3 DEF DequeInv, Owned, Current, is_stealable, is_writable
    <3>2. (owner_block - (thief_block + 1)) \in 1 .. NumBlocks - 1
      BY <1>1, <3>1
    <3>3. ASSUME NEW c \in thief_block + 1 + 1 .. owner_block - 1
          PROVE  TakenOver(Index(c))' \/ is_stealable(Index(c))'
      <4>1. c \in thief_block + 1 .. owner_block - 1
        BY <1>1
      <4>2. TakenOver(Index(c)) \/ is_stealable(Index(c))
        BY <4>1 DEF Window
      <4>3. QED BY <1>2, <2>3, <4>2 DEF TakenOver, is_stealable, Index, Predecessor
    <3>4. ~is_stealable(Index(thief_block))
      BY <2>3 DEF Passed
    <3>5. ASSUME NEW b \in Blocks, is_stealable(b)'
          PROVE  \E c \in thief_block + 1 .. owner_block - 1 : b = Index(c)
      <4>1. is_stealable(b)
        BY <1>3, <3>5
      <4>2. PICK c \in thief_block .. owner_block - 1 : b = Index(c)
        BY <4>1 DEF Window
      <4>3. c # thief_block
        BY <3>4, <4>1, <4>2
      <4>4. c \in thief_block + 1 .. owner_block - 1
        BY <1>1, <4>2, <4>3
      <4>5. QED BY <4>2, <4>4
    <3>6. op' # "store thief"
      <4>1. thief_block # Predecessor
        BY <1>1, <3>1 DEF Predecessor
      <4>2. QED BY <1>2, <4>1 DEF Window
    <3>7. thief_block' = thief_block + 1 /\ owner_block' = owner_block
      BY <1>2, <2>3
    <3>8. QED BY <3>2, <3>3, <3>5, <3>6, <3>7 DEF Window, is_stealable, Index, TakenOver, Predecessor
  <2>4. QED BY <2>1, <2>2, <2>3, ThiefTouches
<1>6. Passed'
  <2>1. /\ 0 <= thief_block /\ \A u \in Thieves : at[u].thief <= thief_block
        /\ thief_block' \in Int /\ thief_block <= thief_block'
    <3>1. 0 <= thief_block /\ \A u \in Thieves : at[u].thief <= thief_block
      BY DEF Passed
    <3>2. QED BY <1>1, <1>5, <3>1
  <2>2. \A u \in Thieves \ {t} : at'[u] = at[u]
    BY ThiefMoves
  <2>3. \A u \in Thieves : at'[u].thief <= thief_block'
    <3>1. at'[t].thief \in {at[t].thief, thief_block, 0}
      BY ThiefMoves
    <3>2. QED BY <1>1, <2>1, <2>2, <3>1
  <2>4. ASSUME NEW u \in Thieves, at'[u].pc \in {"advance", "advance thief"}, at'[u].thief = thief_block'
        PROVE  block'[Index(thief_block')].steal_tail = BlockSize
    <3>1. CASE u = t
      <4>1. /\ at'[t].thief = at[t].thief /\ UNCHANGED <<thief_block, block>>
            /\ ~is_stealable(Victim(t)) \/ at[t].pc = "advance"
        BY <2>4, <3>1, ThiefMoves
      <4>2. at[t].thief = thief_block
        BY <2>4, <3>1, <4>1
      <4>3. ~is_stealable(Index(thief_block))
        BY <4>1, <4>2 DEF Victim, Passed
      <4>4. QED BY <4>1, <4>3 DEF is_stealable
    <3>2. CASE u # t
      <4>1. at'[u] = at[u]
        BY <2>2, <3>2
      <4>2. at[u].thief = thief_block'
        BY <2>4, <4>1
      <4>3. thief_block' = thief_block
        BY <1>1, <2>1, <4>2
      <4>4. ~is_stealable(Index(thief_block))
        BY <2>4, <4>1, <4>3 DEF Passed
      <4>5. PICK b \in Blocks : b = Index(thief_block)
        BY <1>4
      <4>6. ~is_stealable(b)'
        BY <1>3, <4>4, <4>5
      <4>7. QED BY <4>3, <4>5, <4>6 DEF is_stealable
    <3>3. QED BY <3>1, <3>2
  <2>5. 0 <= thief_block'
    BY <1>1, <2>1
  <2>6. QED BY <2>3, <2>4, <2>5 DEF Passed, is_stealable, Index
<1>7. QED BY <1>5, <1>6

\* A step of the owner that writes only the entries of its own block.
LEMMA WindowKept ==
  ASSUME DequeInv, Window, Passed, push_back \/ reclaim \/ get
  PROVE  Window' /\ Passed'
<1>1. /\ block \in [Blocks -> BlockRec] /\ Current \in Blocks /\ BlockSize \in Nat
      /\ is_writable(Current) /\ thief_block \in Int
  BY Neighbours, DequeAssumption DEF DequeInv, TypeOK, BlockRec, Owned
<1>2. UNCHANGED <<owner_block, thief_block, at>>
  BY DEF push_back, bulk_put, reclaim, get
<1>3. {op, op'} \cap {"compare thief", "store thief"} = {}
  BY DEF push_back, bulk_put, reclaim, get
<1>4. \A b \in Blocks : block'[b].steal_tail = block[b].steal_tail
  <2>1. CASE push_back
    <3>1. PICK f, x : block' = [block EXCEPT ![Current].full = f, ![Current].tail = x]
      BY <2>1 DEF push_back, bulk_put
    <3>2. QED BY <1>1, <3>1, EntriesUpdate DEF Becomes
  <2>2. CASE reclaim
    <3>1. Becomes(block, block', Current, 0, 0, 0, BlockSize, block[Current].full)
      BY <1>1, <2>2, ReclaimUpdate DEF reclaim
    <3>2. QED BY <1>1, <3>1 DEF Becomes, is_writable
  <2>3. CASE get
    <3>1. \/ block' = block
          \/ \E f, x : block' = [block EXCEPT ![Current].full = f, ![Current].tail = x]
      BY <2>3 DEF get
    <3>2. ASSUME NEW f, NEW x, block' = [block EXCEPT ![Current].full = f, ![Current].tail = x]
          PROVE  \A b \in Blocks : block'[b].steal_tail = block[b].steal_tail
      BY <1>1, <3>2, EntriesUpdate DEF Becomes
    <3>3. QED BY <3>1, <3>2
  <2>4. QED BY <2>1, <2>2, <2>3
<1>5. Window'
  BY <1>2, <1>3, <1>4, WindowStays
<1>6. \A b \in Blocks : is_stealable(b)' => is_stealable(b)
  BY <1>4 DEF is_stealable
<1>7. thief_block' \in Int
  BY <1>1, <1>2
<1>8. QED BY <1>2, <1>5, <1>6, <1>7, OwnerPasses

\* The deque starts with no block granted.
LEMMA WindowBegins == Init => WindowInv
<1> SUFFICES ASSUME Init PROVE WindowInv
  OBVIOUS
<1> USE DequeAssumption DEF Init, Idle
<1>1. DequeInv
  BY InitEstablishesInv
<1>2. Current \in Blocks
  BY <1>1, Neighbours DEF DequeInv
<1>3. HeadBelow
  BY <1>2 DEF HeadBelow
<1>4. Window
  <2>1. owner_block - thief_block \in 1 .. NumBlocks - 1
    OBVIOUS
  <2>2. thief_block + 1 .. owner_block - 1 = {}
    OBVIOUS
  <2>3. \A b \in Blocks : ~is_stealable(b)
    BY DEF is_stealable
  <2>4. QED BY <2>1, <2>2, <2>3 DEF Window
<1>5. Passed
  <2>1. thief_block = 0 /\ \A t \in Thieves : at[t].thief = 0 /\ at[t].pc = "idle"
    OBVIOUS
  <2>2. 0 <= thief_block /\ \A t \in Thieves : at[t].thief <= thief_block
    BY <2>1
  <2>3. QED BY <2>1, <2>2 DEF Passed
<1>6. QED BY <1>1, <1>3, <1>4, <1>5 DEF WindowInv

LEMMA WindowStep == WindowInv /\ [Next]_vars => WindowInv'
<1> SUFFICES ASSUME WindowInv, [Next]_vars PROVE WindowInv'
  OBVIOUS
<1>1. DequeInv /\ HeadBelow /\ DequeInv' /\ HeadBelow'
  BY StepIsBagStep, HeadStep DEF WindowInv
<1>2. thief_block' \in Int
  BY <1>1 DEF DequeInv, TypeOK
<1>3. ASSUME ~stale' PROVE Window' /\ Passed'
  <2>1. ~stale
    <3>1. CASE OwnerStep
      BY <1>3, <3>1 DEF OwnerStep, push_back, bulk_put, advance_put_index, reclaim, get, takeover,
                        advance_get_index
    <3>2. ASSUME NEW t \in Thieves, steal_front(t) \/ StealStep(t) PROVE ~stale
      BY <1>1, <1>3, <3>2, ThiefTouches
    <3>3. CASE UNCHANGED vars
      BY <1>3, <3>3 DEF vars
    <3>4. QED BY <3>1, <3>2, <3>3 DEF Next
  <2>2. Window /\ Passed
    BY <2>1 DEF WindowInv
  <2>3. CASE push_back \/ reclaim \/ get
    BY <1>1, <2>2, <2>3, WindowKept
  <2>4. CASE advance_put_index
    <3>1. at' = at /\ thief_block' = thief_block
      BY <2>4 DEF advance_put_index
    <3>2. QED BY <1>1, <1>2, <2>2, <2>4, <3>1, WindowGrants, OwnerPasses
  <2>5. CASE takeover
    <3>1. at' = at /\ thief_block' = thief_block
      BY <2>5 DEF takeover
    <3>2. QED BY <1>1, <1>2, <2>2, <2>5, <3>1, WindowTakesOver, OwnerPasses
  <2>6. CASE advance_get_index
    <3>1. at' = at
      BY <2>6 DEF advance_get_index
    <3>2. QED BY <1>1, <1>2, <2>2, <2>6, <3>1, WindowGoesBack, OwnerPasses
  <2>7. ASSUME NEW t \in Thieves, steal_front(t) \/ StealStep(t) PROVE Window' /\ Passed'
    BY <1>1, <1>3, <2>2, <2>7, WindowStolen
  <2>8. CASE UNCHANGED vars
    BY <2>2, <2>8 DEF vars, ownerVars, Window, Passed, Predecessor, Index, TakenOver, is_stealable
  <2>9. QED BY <2>3, <2>4, <2>5, <2>6, <2>7, <2>8 DEF Next, OwnerStep
<1>4. QED BY <1>1, <1>3 DEF WindowInv

LEMMA WindowHolds == Spec => []WindowInv
  BY WindowBegins, WindowStep, PTL DEF Spec

\* The block the counters say is free is writable: an advance of the owner
\* that fails finds the ring full.
LEMMA RefusedWhenFull ==
  ASSUME DequeInv, Window, advance_put_index, op' = "idle"
  PROVE  get_free_capacity = 0
<1>1. /\ owner_block \in Int /\ thief_block \in Int /\ NumBlocks \in Nat \ {0, 1} /\ BlockSize \in Nat
      /\ owner_block - thief_block \in 1 .. NumBlocks - 1
  BY DequeAssumption DEF DequeInv, TypeOK, Window
<1>2. block[Current].tail = BlockSize
  BY DEF DequeInv, Owned, advance_put_index
<1>3. owner_block - thief_block = NumBlocks - 1
  <2>1. CASE (owner_block + 1) - thief_block \notin 0 .. NumBlocks - 1
    BY <1>1, <2>1
  <2>2. CASE ~is_writable(Index(owner_block + 1))
    <3>1. Index(owner_block + 1) \in Blocks /\ is_stealable(Index(owner_block + 1))
      BY <1>1, <2>2, Ring DEF is_writable, is_stealable
    <3>2. PICK c \in thief_block .. owner_block - 1 : Index(owner_block + 1) = Index(c)
      BY <3>1 DEF Window
    <3>3. (owner_block + 1) - c \in 1 .. NumBlocks
      BY <1>1
    <3>4. owner_block + 1 = c + NumBlocks
      BY <1>1, <3>2, <3>3, SameBlock
    <3>5. QED BY <1>1, <3>4
  <2>3. QED BY <2>1, <2>2 DEF advance_put_index
<1>4. NumBlocks - (owner_block - thief_block) - 1 = 0 /\ BlockSize - block[Current].tail = 0
  BY <1>1, <1>2, <1>3
<1>5. QED BY <1>1, <1>4 DEF get_free_capacity

\* push_back refuses a value only when get_free_capacity is 0, as long as no
\* thief has moved thief_block_ past a block it could not know (lines 218-277).
THEOREM FullIsFull == Spec => FullMeansFull
<1>1. WindowInv /\ [Next]_vars =>
        [op = "advance put" /\ op' = "idle" /\ ~stale => get_free_capacity = 0]_vars
  <2> SUFFICES ASSUME WindowInv, [Next]_vars, op = "advance put", op' = "idle", ~stale
               PROVE  get_free_capacity = 0
    OBVIOUS
  <2>1. DequeInv /\ Window
    BY DEF WindowInv
  <2>2. op' # op
    OBVIOUS
  <2>3. advance_put_index
    <3>1. ASSUME NEW t \in Thieves, steal_front(t) \/ StealStep(t) PROVE FALSE
      BY <2>1, <2>2, <3>1, ThiefTouches
    <3>2. ~push_back /\ ~reclaim /\ ~get /\ ~takeover /\ ~advance_get_index
      BY DEF push_back, reclaim, get, takeover, advance_get_index
    <3>3. ~UNCHANGED vars
      BY <2>2 DEF vars, ownerVars
    <3>4. QED BY <3>1, <3>2, <3>3 DEF Next, OwnerStep
  <2>4. QED BY <2>1, <2>3, RefusedWhenFull
<1>2. QED BY <1>1, WindowHolds, PTL DEF Spec, FullMeansFull

\* After a takeover the owner finds a value in its block.
LEMMA GetAgainTakes ==
  ASSUME DequeInv, HeadBelow, op = "get", get
  PROVE  Unclaimed' # Unclaimed
<1>1. PICK b \in Blocks : b = Current
  BY Neighbours DEF DequeInv
<1>2. /\ is_writable(b) /\ block[b].head # block[b].tail /\ block[b].head < BlockSize
      /\ First(b) = block[b].head /\ First(b) <= block[b].tail
  BY <1>1 DEF DequeInv, Owned, HeadBelow, Ordered, First, is_stealable, is_writable
<1>3. /\ block[b].tail \in 0 .. BlockSize /\ block[b].head \in 0 .. BlockSize /\ BlockSize \in Nat
      /\ block \in [Blocks -> BlockRec]
  BY BlockType DEF DequeInv, TypeOK, BlockRec
<1>4. block' = [block EXCEPT ![b].full = block[b].full \ {block[b].tail - 1}, ![b].tail = block[b].tail - 1]
  BY <1>1, <1>2, <1>3 DEF get
<1>5. block'[b].tail = block[b].tail - 1
  BY <1>3, <1>4, EntriesUpdate DEF Becomes
<1>6. block[b].tail - 1 \in Slots /\ block[b].tail - 1 \in First(b) .. block[b].tail - 1
  BY <1>2, <1>3 DEF Slots
<1>7. <<b, block[b].tail - 1>> \in Unclaimed
  BY <1>6 DEF Unclaimed
<1>8. block[b].tail - 1 \notin First(b)' .. block'[b].tail - 1
  BY <1>3, <1>5
<1>9. <<b, block[b].tail - 1>> \notin Unclaimed'
  BY <1>8 DEF Unclaimed, First, is_stealable
<1>10. QED BY <1>7, <1>9

\* When the block before the owner's has nothing left, no block has.
LEMMA NothingBeforeEmpty ==
  ASSUME DequeInv, Window, takeover, op' = "idle"
  PROVE  Unclaimed = {}
<1>1. op = "takeover" /\ First(Index(Predecessor)) = block[Index(Predecessor)].tail
  BY DEF takeover
<1>2. \A b \in Blocks : ~is_stealable(b)
  BY <1>1, EmptyPredecessor
<1>3. ASSUME NEW b \in Blocks PROVE First(b) .. block[b].tail - 1 = {}
  <2>1. First(b) = block[b].head /\ is_writable(b)
    BY <1>2 DEF First, is_stealable, is_writable
  <2>2. block[b].head = block[b].tail
    <3>1. CASE b = Current
      BY <1>1, <3>1 DEF DequeInv, Owned
    <3>2. CASE b # Current
      BY <1>1, <2>1, <3>2, OthersAreEmpty DEF TakenOver
    <3>3. QED BY <3>1, <3>2
  <2>3. block[b].tail \in 0 .. BlockSize
    BY BlockType DEF DequeInv
  <2>4. QED BY <2>1, <2>2, <2>3, DequeAssumption
<1>4. QED BY <1>3 DEF Unclaimed

\* pop_back returns without a value only when none is left for anyone to claim,
\* although it looks at two blocks only (lines 157-171, 245-262).
THEOREM EmptyIsEmpty == Spec => EmptyMeansEmpty
<1>1. WindowInv /\ [Next]_vars =>
        [op' = "idle" /\ op \in {"get", "takeover"} /\ Unclaimed' = Unclaimed /\ ~stale
           => Unclaimed = {}]_vars
  <2> SUFFICES ASSUME WindowInv, [Next]_vars, op' = "idle", op \in {"get", "takeover"},
                      Unclaimed' = Unclaimed, ~stale
               PROVE  Unclaimed = {}
    OBVIOUS
  <2>1. DequeInv /\ HeadBelow /\ Window
    BY DEF WindowInv
  <2>2. op' # op
    OBVIOUS
  <2>3. (op = "get" /\ get) \/ takeover
    <3>1. ASSUME NEW t \in Thieves, steal_front(t) \/ StealStep(t) PROVE FALSE
      BY <2>1, <2>2, <3>1, ThiefTouches
    <3>2. ~push_back /\ ~reclaim /\ ~advance_put_index /\ ~advance_get_index
      BY DEF push_back, reclaim, advance_put_index, advance_get_index
    <3>3. ~UNCHANGED vars
      BY <2>2 DEF vars, ownerVars
    <3>4. QED BY <3>1, <3>2, <3>3 DEF Next, OwnerStep, get
  <2>4. QED BY <2>1, <2>3, GetAgainTakes, NothingBeforeEmpty
<1>2. QED BY <1>1, WindowHolds, PTL DEF Spec, EmptyMeansEmpty
=============================================================================
