-------------------------------- MODULE WorkBag --------------------------------
(***************************************************************************)
(* What a worker of the pool needs of its local queue: each task put into  *)
(* it is taken by one thread, and none is lost.  Items are the places a    *)
(* task may be at; a place is free for another task once its task has been *)
(* read out, not when it is claimed.                                       *)
(***************************************************************************)
CONSTANT Items

VARIABLES bag,      \* the tasks nobody has claimed
          claimed   \* the tasks claimed by a thread that has yet to read them

BagInit == bag = {} /\ claimed = {}

Put == /\ \E new \in SUBSET (Items \ (bag \cup claimed)) : bag' = bag \cup new
       /\ UNCHANGED claimed

Claim == \E x \in bag : bag' = bag \ {x} /\ claimed' = claimed \cup {x}

Read == \E x \in claimed : claimed' = claimed \ {x} /\ UNCHANGED bag

Take == \E x \in bag : bag' = bag \ {x} /\ UNCHANGED claimed

BagSpec == BagInit /\ [][Put \/ Claim \/ Read \/ Take]_<<bag, claimed>>
=============================================================================
