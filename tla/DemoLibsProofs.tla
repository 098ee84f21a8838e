---------------------------- MODULE DemoLibsProofs -----------------------------
(***************************************************************************)
(* What the first experiment shows, for any number of slots, rounds and    *)
(* keys of the runtime: proofs about DemoLibs.                             *)
(***************************************************************************)
EXTENDS DemoLibs, FiniteSetTheorems, TLAPS

\* What each image that is closed leaves behind.
Lost == IF lib = "clean" THEN 0 ELSE cost

DemoTypeOK ==
  /\ table \in [Slots -> Owners] /\ key \in Slots
  /\ lib \in {"leak", "clean", "throw"} /\ cost \in Cost(lib)
  /\ pc \in {"open", "loaded", "call", "check", "close", "ended", "exhausted", "aborted"}
  /\ cycle \in Nat

\* What the image that is mapped has created: clean its one key, unless there
\* was no slot, the others as much as they are to, when the check finds a slot.
ImageKeys ==
  /\ pc = "open" \/ (pc = "loaded" /\ lib # "clean") => KeysOf("image") = {}
  /\ pc = "call" => lib # "clean" /\ KeysOf("image") # {}
  /\ Mapped <= cost
  /\ pc = "close" \/ (pc = "check" /\ ~Full) => Mapped = cost
  /\ lib = "clean" /\ pc \in {"loaded", "check", "close"} =>
       KeysOf("image") = {key} \/ (KeysOf("image") = {} /\ Full)

\* Each image closed has left its keys.
Debt ==
  /\ pc \in {"open", "loaded", "call", "check"} => Cardinality(KeysOf("orphan")) = cycle * Lost
  /\ pc = "close" => cycle > 0 /\ Cardinality(KeysOf("orphan")) = (cycle - 1) * Lost

\* A round that has been closed has left a slot, and clean its own as well.
SlotLeft ==
  cycle > 0 =>
    /\ pc \in {"open", "loaded", "close"} \/ (pc = "check" /\ lib = "clean") => ~Full
    /\ pc = "open" /\ lib = "clean" => \E a, b \in KeysOf("free") : a # b

\* How the experiment ends.
Ends ==
  /\ pc = "exhausted" => Full /\ (lib = "clean" => cycle = 1)
  /\ pc = "aborted" => lib = "throw" /\ (cycle = 0 \/ cost > 1)

DemoInv == DemoTypeOK /\ ImageKeys /\ Debt /\ SlotLeft /\ Ends
-----------------------------------------------------------------------------
LEMMA KeysFinite ==
  ASSUME NEW o
  PROVE  IsFiniteSet(KeysOf(o)) /\ Cardinality(KeysOf(o)) \in Nat
<1>1. KeysOf(o) \subseteq Slots
  BY DEF KeysOf
<1>2. IsFiniteSet(KeysOf(o))
  BY <1>1, DemoAssumption, FS_Subset
<1>3. QED BY <1>2, FS_CardinalityType

LEMMA CostType ==
  ASSUME DemoTypeOK
  PROVE  /\ cost \in Nat \ {0} /\ Lost \in Nat
         /\ lib # "throw" => cost = 1
         /\ Mapped \in Nat /\ (Mapped = 0 <=> KeysOf("image") = {})
<1>1. cost \in Nat \ {0} /\ (lib # "throw" => cost = 1)
  BY DemoAssumption DEF DemoTypeOK, Cost
<1>2. Mapped \in Nat /\ (Mapped = 0 <=> KeysOf("image") = {})
  BY KeysFinite, FS_EmptySet DEF Mapped
<1>3. QED BY <1>1, <1>2 DEF Lost

\* A key that the image creates is one more of the image, and nothing else.
LEMMA CreateAdds ==
  ASSUME DemoTypeOK, NEW s \in Slots, Create(s, "image")
  PROVE  /\ table' \in [Slots -> Owners]
         /\ KeysOf("image")' = KeysOf("image") \cup {s} /\ s \notin KeysOf("image")
         /\ KeysOf("orphan")' = KeysOf("orphan") /\ KeysOf("free")' = KeysOf("free") \ {s}
         /\ Mapped' = Mapped + 1
<1>1. table \in [Slots -> Owners] /\ table[s] = "free" /\ table' = [table EXCEPT ![s] = "image"]
  BY DEF Create, DemoTypeOK
<1>2. /\ table' \in [Slots -> Owners]
      /\ KeysOf("image")' = KeysOf("image") \cup {s} /\ s \notin KeysOf("image")
      /\ KeysOf("orphan")' = KeysOf("orphan") /\ KeysOf("free")' = KeysOf("free") \ {s}
  BY <1>1 DEF Owners, KeysOf
<1>3. Mapped' = Mapped + 1
  BY <1>2, KeysFinite, FS_AddElement DEF Mapped
<1>4. QED BY <1>2, <1>3

LEMMA InitIsRight == Init => DemoInv
<1> SUFFICES ASSUME Init PROVE DemoInv
  OBVIOUS
<1>1. DemoTypeOK
  BY DemoAssumption DEF Init, DemoTypeOK, Owners
<1>2. KeysOf("image") = {} /\ KeysOf("orphan") = {}
  BY DEF Init, KeysOf
<1>3. Mapped = 0 /\ Cardinality(KeysOf("orphan")) = 0
  BY <1>2, FS_EmptySet DEF Mapped
<1>4. cost \in Nat /\ Lost \in Nat
  BY <1>1, CostType
<1>5. pc = "open" /\ cycle = 0
  BY DEF Init
<1>6. Mapped <= cost /\ 0 * Lost = 0
  BY <1>3, <1>4
<1>7. QED BY <1>1, <1>2, <1>3, <1>5, <1>6 DEF DemoInv, ImageKeys, Debt, SlotLeft, Ends
-----------------------------------------------------------------------------
(***************************************************************************)
(* The steps of a round.                                                   *)
(***************************************************************************)
LEMMA OpenStep ==
  ASSUME DemoInv, Open
  PROVE  DemoInv'
<1>1. /\ pc = "open" /\ pc' = "loaded" /\ UNCHANGED <<lib, cost, cycle>>
      /\ KeysOf("image") = {} /\ Mapped = 0
  BY CostType DEF Open, Goto, DemoInv, ImageKeys
<1>2. cost \in Nat \ {0} /\ Lost' = Lost /\ cycle \in Nat
  BY <1>1, CostType DEF Lost, DemoInv, DemoTypeOK
<1>3. CASE lib = "clean" /\ ~Full
  <2>1. PICK s \in Slots : Create(s, "image") /\ key' = s
    BY <1>3 DEF Open
  <2>2. /\ table' \in [Slots -> Owners] /\ KeysOf("image")' = {s}
        /\ KeysOf("orphan")' = KeysOf("orphan") /\ KeysOf("free")' = KeysOf("free") \ {s}
        /\ Mapped' = 1
    BY <1>1, <2>1, CreateAdds DEF DemoInv
  <2>3. DemoTypeOK'
    BY <1>1, <2>1, <2>2 DEF DemoInv, DemoTypeOK, Cost
  <2>4. Mapped' <= cost'
    BY <1>1, <1>2, <2>2
  <2>5. ImageKeys'
    BY <1>1, <1>3, <2>1, <2>2, <2>4 DEF ImageKeys
  <2>6. SlotLeft'
    <3>1. cycle > 0 => ~(KeysOf("free") \ {s} = {})
      BY <1>1, <1>3 DEF DemoInv, SlotLeft
    <3>2. QED BY <1>1, <2>2, <3>1 DEF SlotLeft, Full
  <2>7. Debt'
    BY <1>1, <1>2, <2>2 DEF DemoInv, Debt
  <2>8. QED BY <1>1, <2>3, <2>5, <2>6, <2>7 DEF DemoInv, Ends
<1>4. CASE ~(lib = "clean" /\ ~Full)
  <2>1. table' = table /\ key' = Zero
    BY <1>4 DEF Open
  <2>2. \A o : KeysOf(o)' = KeysOf(o)
    BY <2>1 DEF KeysOf
  <2>3. DemoTypeOK'
    BY <1>1, <2>1, DemoAssumption DEF DemoInv, DemoTypeOK, Cost
  <2>4. Mapped' = 0 /\ Mapped' <= cost'
    BY <1>1, <1>2, <2>2 DEF Mapped
  <2>5. ImageKeys'
    BY <1>1, <1>4, <2>2, <2>4 DEF ImageKeys, Full
  <2>6. SlotLeft'
    BY <1>1, <2>2 DEF DemoInv, SlotLeft, Full
  <2>7. Debt'
    BY <1>1, <1>2, <2>2 DEF DemoInv, Debt
  <2>8. QED BY <1>1, <2>3, <2>5, <2>6, <2>7 DEF DemoInv, Ends
<1>5. QED BY <1>3, <1>4

LEMMA CallStep ==
  ASSUME DemoInv, Call
  PROVE  DemoInv'
<1>1. pc \in {"loaded", "call"} /\ UNCHANGED <<lib, cost, cycle, key>>
  BY DEF Call, Goto
<1>2. cost \in Nat \ {0} /\ Lost' = Lost /\ cycle \in Nat /\ Mapped \in Nat /\ Mapped <= cost
  BY <1>1, CostType DEF Lost, DemoInv, DemoTypeOK, ImageKeys
<1>3. CASE Mapped < cost /\ ~Full
  <2>1. PICK s \in Slots : Create(s, "image")
    BY <1>3 DEF Call
  <2>2. /\ table' \in [Slots -> Owners] /\ KeysOf("image")' # {}
        /\ KeysOf("orphan")' = KeysOf("orphan") /\ Mapped' = Mapped + 1 /\ pc' = "call"
    BY <1>3, <2>1, CreateAdds DEF DemoInv, Call, Goto
  <2>3. DemoTypeOK'
    BY <1>1, <2>2 DEF DemoInv, DemoTypeOK, Cost
  <2>4. lib # "clean"
    <3>1. SUFFICES ASSUME lib = "clean" PROVE FALSE
      OBVIOUS
    <3>2. KeysOf("image") = {key}
      BY <1>1, <1>3, <3>1 DEF DemoInv, ImageKeys
    <3>3. Mapped = 1 /\ cost = 1
      BY <3>1, <3>2, CostType, FS_Singleton DEF Mapped, DemoInv
    <3>4. QED BY <1>3, <3>3
  <2>5. Mapped' <= cost'
    BY <1>1, <1>2, <1>3, <2>2
  <2>6. ImageKeys'
    BY <1>1, <2>2, <2>4, <2>5 DEF ImageKeys
  <2>7. Debt'
    BY <1>1, <1>2, <2>2 DEF DemoInv, Debt
  <2>8. QED BY <2>2, <2>3, <2>6, <2>7 DEF DemoInv, SlotLeft, Ends
<1>4. CASE ~(Mapped < cost /\ ~Full)
  <2>1. table' = table /\ pc' = IF Mapped < cost /\ lib = "throw" THEN "aborted" ELSE "check"
    BY <1>4 DEF Call, Goto
  <2>2. \A o : KeysOf(o)' = KeysOf(o)
    BY <2>1 DEF KeysOf
  <2>3. DemoTypeOK'
    BY <1>1, <2>1 DEF DemoInv, DemoTypeOK, Cost
  <2>4. Mapped' = Mapped /\ Mapped' <= cost'
    BY <1>1, <1>2, <2>2 DEF Mapped
  <2>5. ~Full => Mapped = cost
    BY <1>2, <1>4
  <2>6. ImageKeys'
    BY <1>1, <2>1, <2>2, <2>4, <2>5 DEF DemoInv, ImageKeys, Full
  <2>7. Debt'
    BY <1>1, <1>2, <2>1, <2>2 DEF DemoInv, Debt
  <2>8. SlotLeft'
    BY <1>1, <2>1, <2>2 DEF DemoInv, ImageKeys, SlotLeft, Full
  <2>9. Ends'
    <3>1. ASSUME Mapped < cost, lib = "throw" PROVE cycle = 0 \/ cost > 1
      <4>1. Full
        BY <1>4, <3>1
      <4>2. CASE pc = "loaded"
        <5>1. ~(cycle > 0)
          BY <4>1, <4>2 DEF DemoInv, SlotLeft
        <5>2. QED BY <1>2, <5>1
      <4>3. CASE pc = "call"
        <5>1. Mapped # 0
          BY <4>3, CostType DEF DemoInv, ImageKeys
        <5>2. QED BY <1>2, <3>1, <5>1
      <4>4. QED BY <1>1, <4>2, <4>3
    <3>2. QED BY <1>1, <2>1, <3>1 DEF Ends
  <2>10. QED BY <2>3, <2>6, <2>7, <2>8, <2>9 DEF DemoInv
<1>5. QED BY <1>3, <1>4

LEMMA CheckStep ==
  ASSUME DemoInv, Check
  PROVE  DemoInv'
<1>1. /\ pc = "check" /\ pc' = (IF Full THEN "exhausted" ELSE "close")
      /\ cycle' = cycle + 1 /\ UNCHANGED <<lib, cost, table, key>>
  BY DEF Check, Goto
<1>2. /\ cost \in Nat \ {0} /\ Lost' = Lost /\ cycle \in Nat /\ Mapped' = Mapped /\ Mapped <= cost
      /\ \A o : KeysOf(o)' = KeysOf(o)
  BY <1>1, CostType DEF Lost, DemoInv, DemoTypeOK, ImageKeys, Mapped, KeysOf
<1>3. DemoTypeOK'
  <2>1. cycle' \in Nat
    BY <1>1, <1>2
  <2>2. QED BY <1>1, <2>1 DEF DemoInv, DemoTypeOK, Cost
<1>4. ImageKeys'
  BY <1>1, <1>2 DEF DemoInv, ImageKeys, Full
<1>5. Debt'
  <2>1. cycle' - 1 = cycle /\ cycle' > 0
    BY <1>1, <1>2
  <2>2. Cardinality(KeysOf("orphan")) = cycle * Lost
    BY <1>1 DEF DemoInv, Debt
  <2>3. Cardinality(KeysOf("orphan")') = (cycle' - 1) * Lost'
    BY <1>2, <2>1, <2>2
  <2>4. QED BY <1>1, <2>1, <2>3 DEF Debt
<1>6. SlotLeft'
  BY <1>1, <1>2 DEF SlotLeft, Full
<1>7. Ends'
  <2>1. lib = "clean" /\ Full => cycle = 0
    <3>1. lib = "clean" /\ Full => ~(cycle > 0)
      BY <1>1 DEF DemoInv, SlotLeft
    <3>2. QED BY <1>2, <3>1
  <2>2. lib = "clean" /\ Full => cycle' = 1
    BY <1>1, <2>1
  <2>3. QED BY <1>1, <1>2, <2>2 DEF Ends, Full
<1>8. QED BY <1>3, <1>4, <1>5, <1>6, <1>7 DEF DemoInv

LEMMA CloseStep ==
  ASSUME DemoInv, Close
  PROVE  DemoInv'
<1>1. /\ pc = "close" /\ pc' = "open" /\ UNCHANGED <<lib, cost, cycle, key>>
      /\ table' = [s \in Slots |-> IF lib = "clean" /\ s = key THEN "free" ELSE Orphaned[s]]
  BY DEF Close, Unload, Goto
<1>2. /\ cost \in Nat \ {0} /\ Lost \in Nat /\ Lost' = Lost /\ cycle \in Nat /\ cycle > 0
      /\ Mapped = cost /\ ~Full
      /\ Cardinality(KeysOf("orphan")) = (cycle - 1) * Lost
  BY <1>1, CostType DEF Lost, DemoInv, DemoTypeOK, ImageKeys, Debt, SlotLeft
<1>3. table \in [Slots -> Owners] /\ key \in Slots
  BY DEF DemoInv, DemoTypeOK
<1>4. table' \in [Slots -> Owners] /\ KeysOf("image")' = {}
  BY <1>1, <1>3 DEF Orphaned, Owners, KeysOf
<1>5. Mapped' = 0
  BY <1>4, FS_EmptySet DEF Mapped
<1>6. DemoTypeOK'
  BY <1>1, <1>4 DEF DemoInv, DemoTypeOK, Cost
<1>7. Mapped' <= cost'
  BY <1>1, <1>2, <1>5
<1>8. ImageKeys'
  BY <1>1, <1>4, <1>7 DEF ImageKeys
<1>9. (cycle - 1) * Lost + Lost = cycle * Lost
  BY <1>2
<1>10. CASE lib = "clean"
  <2>1. KeysOf("image") = {key}
    BY <1>1, <1>2, <1>10 DEF DemoInv, ImageKeys
  <2>2. table[key] = "image"
    BY <2>1 DEF KeysOf
  <2>3. KeysOf("orphan")' = KeysOf("orphan") /\ KeysOf("free")' = KeysOf("free") \cup {key}
        /\ key \notin KeysOf("free")
    BY <1>1, <1>3, <1>10, <2>1, <2>2 DEF Orphaned, KeysOf
  <2>4. Debt'
    <3>1. Lost = 0 /\ cycle * Lost = 0 /\ (cycle - 1) * Lost = 0
      BY <1>2, <1>10 DEF Lost
    <3>2. QED BY <1>1, <1>2, <2>3, <3>1 DEF Debt
  <2>5. SlotLeft'
    <3>1. PICK a : a \in KeysOf("free")
      BY <1>2 DEF Full
    <3>2. a # key
      BY <2>3, <3>1
    <3>3. QED BY <1>1, <2>3, <3>1, <3>2 DEF SlotLeft, Full
  <2>6. QED BY <1>1, <1>6, <1>8, <2>4, <2>5 DEF DemoInv, Ends
<1>11. CASE lib # "clean"
  <2>1. /\ KeysOf("orphan")' = KeysOf("orphan") \cup KeysOf("image")
        /\ KeysOf("orphan") \cap KeysOf("image") = {} /\ KeysOf("free")' = KeysOf("free")
    BY <1>1, <1>3, <1>11 DEF Orphaned, KeysOf
  <2>2. Cardinality(KeysOf("orphan")') = Cardinality(KeysOf("orphan")) + Mapped
    <3>1. Cardinality(KeysOf("orphan") \cup KeysOf("image")) =
            Cardinality(KeysOf("orphan")) + Cardinality(KeysOf("image"))
              - Cardinality(KeysOf("orphan") \cap KeysOf("image"))
      BY KeysFinite, FS_Union
    <3>2. Cardinality(KeysOf("orphan") \cap KeysOf("image")) = 0
      BY <2>1, FS_EmptySet
    <3>3. Cardinality(KeysOf("orphan")) \in Nat /\ Cardinality(KeysOf("image")) \in Nat
      BY KeysFinite
    <3>4. Cardinality(KeysOf("orphan") \cup KeysOf("image")) = Cardinality(KeysOf("orphan")) + Mapped
      BY <3>1, <3>2, <3>3 DEF Mapped
    <3>5. QED BY <2>1, <3>4
  <2>3. Debt'
    <3>1. Cardinality(KeysOf("orphan")') = cycle' * Lost'
      BY <1>1, <1>2, <1>9, <1>11, <2>2 DEF Lost
    <3>2. QED BY <1>1, <3>1 DEF Debt
  <2>4. SlotLeft'
    BY <1>1, <1>2, <1>11, <2>1 DEF SlotLeft, Full
  <2>5. QED BY <1>1, <1>6, <1>8, <2>3, <2>4 DEF DemoInv, Ends
<1>12. QED BY <1>10, <1>11

\* The end: without a symbol the image is closed, and its keys go with it.
LEMMA EndStep ==
  ASSUME DemoInv, OpenFails \/ NoSymbol
  PROVE  DemoInv'
<1>1. pc' = "ended" /\ UNCHANGED <<lib, cost, cycle, key>>
  BY DEF OpenFails, NoSymbol, Goto
<1>2. table \in [Slots -> Owners] /\ cost \in Nat \ {0} /\ Mapped \in Nat /\ Mapped <= cost
  BY CostType DEF DemoInv, DemoTypeOK, ImageKeys
<1>3. table' \in [Slots -> Owners] /\ Mapped' <= cost'
  <2>1. CASE OpenFails
    <3>1. table' = table
      BY <2>1 DEF OpenFails
    <3>2. Mapped' = Mapped
      BY <3>1 DEF Mapped, KeysOf
    <3>3. QED BY <1>1, <1>2, <3>1, <3>2
  <2>2. CASE NoSymbol
    <3>1. table' = [s \in Slots |-> IF lib = "clean" /\ s = key THEN "free" ELSE Orphaned[s]]
      BY <2>2 DEF NoSymbol, Unload
    <3>2. table' \in [Slots -> Owners] /\ KeysOf("image")' = {}
      BY <1>2, <3>1 DEF Orphaned, Owners, KeysOf
    <3>3. Mapped' = 0
      BY <3>2, FS_EmptySet DEF Mapped
    <3>4. QED BY <1>1, <1>2, <3>2, <3>3
  <2>3. QED BY <2>1, <2>2
<1>4. DemoTypeOK'
  BY <1>1, <1>3 DEF DemoInv, DemoTypeOK, Cost
<1>5. QED BY <1>1, <1>3, <1>4 DEF DemoInv, ImageKeys, Debt, SlotLeft, Ends

LEMMA StepKeepsInv == DemoInv /\ [Next]_vars => DemoInv'
<1> SUFFICES ASSUME DemoInv, [Next]_vars PROVE DemoInv'
  OBVIOUS
<1>1. CASE UNCHANGED vars
  BY <1>1 DEF vars, DemoInv, DemoTypeOK, Cost, ImageKeys, Debt, SlotLeft, Ends, Mapped, KeysOf, Full, Lost
<1>2. CASE Finished
  BY <1>1, <1>2 DEF Finished
<1>3. QED BY <1>1, <1>2, OpenStep, CallStep, CheckStep, CloseStep, EndStep DEF Next

\* The account of the experiment for any number of slots and rounds: each image
\* closed has left its keys, clean none; a warning comes with the last slot; and
\* an abort after a round that was closed means that the runtime takes more keys
\* than the check tries (main.cpp 62-93, clean.cpp 13-28).
THEOREM AccountIsRight == Spec => []DemoAccount
<1>1. DemoInv => DemoAccount
  <2> SUFFICES ASSUME DemoInv PROVE DemoAccount
    OBVIOUS
  <2>1. ASSUME pc = "open"
        PROVE  Cardinality(KeysOf("orphan")) = IF lib = "clean" THEN 0 ELSE cycle * cost
    <3>1. Cardinality(KeysOf("orphan")) = cycle * Lost /\ cycle \in Nat
      BY <2>1 DEF DemoInv, Debt, DemoTypeOK
    <3>2. QED BY <3>1 DEF Lost
  <2>2. QED BY <2>1 DEF DemoInv, Ends, DemoAccount
<1>2. DemoInv /\ [Next]_vars => DemoInv'
  BY StepKeepsInv
<1>3. QED BY InitIsRight, <1>1, <1>2, PTL DEF Spec
=============================================================================
