------------------------------- MODULE DemoLibs --------------------------------
(***************************************************************************)
(* The first experiment of the repository: one thread loads one of three   *)
(* libraries, calls it, asks whether a key is left and unloads it, over    *)
(* and over.  leak creates a key on every call; clean creates one in its   *)
(* constructor and deletes it in its destructor; throw creates none        *)
(* itself, but the runtime linked into it does when the first exception of *)
(* the image is thrown, and aborts when it cannot.                         *)
(***************************************************************************)
EXTENDS Naturals, FiniteSets, PthreadKeys

CONSTANTS Zero,          \* the slot a key that was never written denotes
          RuntimeKeys,   \* how many keys the runtime may create in an image
          MaxCycles      \* bound: rounds of the loop

ASSUME DemoAssumption == /\ IsFiniteSet(Slots) /\ Zero \in Slots /\ RuntimeKeys \subseteq Nat \ {0}
                         /\ MaxCycles \in Nat

VARIABLES lib, cost,     \* the library and the keys an image of it creates
          pc, cycle,
          key            \* the static key of clean

vars == <<table, lib, cost, pc, cycle, key>>

Cost(l) == CASE l = "leak" -> {1} [] l = "clean" -> {1} [] l = "throw" -> RuntimeKeys

Init ==
  /\ \E taken \in SUBSET Slots : table = [s \in Slots |-> IF s \in taken THEN "foreign" ELSE "free"]
  /\ lib \in {"leak", "clean", "throw"} /\ cost \in Cost(lib)
  /\ pc = "open" /\ cycle = 0 /\ key = Zero

Goto(label) == pc' = label /\ UNCHANGED <<lib, cost>>

Mapped == Cardinality(KeysOf("image"))

\* The result of pthread_key_create is ignored; *key is written on success.
Open ==
  /\ pc = "open" /\ cycle < MaxCycles
  /\ IF lib = "clean" /\ ~Full
     THEN \E s \in Slots : Create(s, "image") /\ key' = s
     ELSE key' = Zero /\ UNCHANGED table
  /\ Goto("loaded") /\ UNCHANGED cycle

OpenFails == pc = "open" /\ Goto("ended") /\ UNCHANGED <<table, cycle, key>>

\* Bug: the destructor of clean does not delete its key.
MutUnload == table' = Orphaned

\* dlclose: clean deletes its key; keys still there are lost with the image.
Unload == table' = [s \in Slots |-> IF lib = "clean" /\ s = key THEN "free" ELSE Orphaned[s]]

NoSymbol == pc = "loaded" /\ Unload /\ Goto("ended") /\ UNCHANGED <<cycle, key>>

\* The call comes to its check once the image has created what it creates.
Call ==
  /\ pc \in {"loaded", "call"} /\ UNCHANGED <<cycle, key>>
  /\ IF Mapped < cost /\ ~Full
     THEN (\E s \in Slots : Create(s, "image")) /\ Goto("call")
     ELSE UNCHANGED table /\ Goto(IF Mapped < cost /\ lib = "throw" THEN "aborted" ELSE "check")

\* can_create_key creates a key and deletes it again.
Check ==
  /\ pc = "check"
  /\ cycle' = cycle + 1
  /\ Goto(IF Full THEN "exhausted" ELSE "close")
  /\ UNCHANGED <<table, key>>

Close == pc = "close" /\ Unload /\ Goto("open") /\ UNCHANGED <<cycle, key>>

Finished == /\ \/ pc \in {"ended", "exhausted", "aborted"}
               \/ pc = "open" /\ cycle = MaxCycles
            /\ UNCHANGED vars

Next == Open \/ OpenFails \/ NoSymbol \/ Call \/ Check \/ Close \/ Finished

Spec == Init /\ [][Next]_vars
-----------------------------------------------------------------------------
\* What the experiment shows: after each unload the table has lost the keys of
\* one more image, and none with clean; the loop's warning comes when no slot
\* is left, so clean never gets one unless its own key is the last; and with a
\* runtime that creates more than one key can_create_key may promise too much,
\* so that the next round aborts (main.cpp 62-93, clean.cpp 13-28).
DemoAccount ==
  /\ pc = "open" => Cardinality(KeysOf("orphan")) = IF lib = "clean" THEN 0 ELSE cycle * cost
  /\ pc = "exhausted" => Full /\ (lib = "clean" => cycle = 1)
  /\ pc = "aborted" => lib = "throw" /\ (cycle = 0 \/ cost > 1)
=============================================================================
