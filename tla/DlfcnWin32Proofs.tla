--------------------------- MODULE DlfcnWin32Proofs ----------------------------
(***************************************************************************)
(* What the emulation keeps for any modules, whatever they depend on, and  *)
(* for any number of handles: proofs about DlfcnWin32.                     *)
(***************************************************************************)
EXTENDS DlfcnWin32, FiniteSetTheorems, TLAPS

\* The loaded modules that depend on a module.
Users(m) == {x \in Loaded : m \in Deps[x]}

\* References are handles and dependants; a listed module has a handle.
Referenced == \A m \in Modules : refs[m] = handles[m] + Cardinality(Users(m))
Listed     == \A m \in local : handles[m] > 0

\* A module is known by the modes since it was loaded, and a global one is not
\* on the list, where changes of the number of modules can be seen.
Remembered ==
  \A m \in Modules : /\ refs[m] = 0 => modes[m] = {}
                     /\ enum /\ "global" \in modes[m] => m \notin local

\* Of two loaded modules one was loaded first.
Ranked ==
  /\ before \subseteq Loaded \X Loaded
  /\ \A x, y \in Loaded : <<x, y>> \in before <=> x # y /\ <<y, x>> \notin before
  /\ \A x, y, z \in Loaded : <<x, y>> \in before /\ <<y, z>> \in before => <<x, z>> \in before

DlfcnInv == TypeOK /\ Referenced /\ Listed /\ Remembered /\ Ranked
-----------------------------------------------------------------------------
LEMMA UsersFinite ==
  ASSUME NEW m \in Modules
  PROVE  IsFiniteSet(Users(m)) /\ Cardinality(Users(m)) \in Nat
<1>1. Users(m) \subseteq Modules
  BY DEF Users, Loaded
<1>2. IsFiniteSet(Users(m))
  BY <1>1, DlfcnAssumption, FS_Subset
<1>3. QED BY <1>2, FS_CardinalityType

\* A module that others load along depends on nothing, itself included.
LEMMA DependsOnce ==
  ASSUME NEW m \in Modules, NEW d \in Deps[m]
  PROVE  d \in Modules /\ d # m /\ Deps[d] = {}
  BY DlfcnAssumption

\* A loaded module keeps what it depends on loaded.
LEMMA UsedIsLoaded ==
  ASSUME DlfcnInv, NEW m \in Loaded, NEW d \in Deps[m]
  PROVE  refs[d] > handles[d] /\ d \in Loaded /\ d \in Modules /\ m \in Modules
<1>1. m \in Modules /\ d \in Modules
  BY DependsOnce DEF Loaded
<1>2. m \in Users(d)
  BY DEF Users
<1>3. Cardinality(Users(d)) # 0 /\ Cardinality(Users(d)) \in Nat
  BY <1>1, <1>2, UsersFinite, FS_EmptySet
<1>4. refs[d] = handles[d] + Cardinality(Users(d)) /\ handles[d] \in Nat /\ refs[d] \in Nat
  BY <1>1, DlfcnAssumption DEF DlfcnInv, TypeOK, Referenced
<1>5. QED BY <1>1, <1>3, <1>4 DEF Loaded

\* A module with an open handle is loaded.
LEMMA OpenIsLoaded ==
  ASSUME DlfcnInv, NEW m \in Modules, handles[m] > 0
  PROVE  m \in Loaded /\ refs[m] >= handles[m]
<1>1. refs[m] = handles[m] + Cardinality(Users(m)) /\ handles[m] \in Nat /\ Cardinality(Users(m)) \in Nat
  BY UsersFinite, DlfcnAssumption DEF DlfcnInv, TypeOK, Referenced
<1>2. QED BY <1>1 DEF Loaded

LEMMA InitIsRight == Init => DlfcnInv
<1> SUFFICES ASSUME Init PROVE DlfcnInv
  OBVIOUS
<1>1. Loaded = {}
  BY DEF Init, Loaded
<1>2. TypeOK
  <2>1. 0 \in Nat /\ 0 \in 0 .. MaxHandles
    BY DlfcnAssumption
  <2>2. refs \in [Modules -> Nat] /\ handles \in [Modules -> 0 .. MaxHandles]
    BY <2>1 DEF Init
  <2>3. modes \in [Modules -> SUBSET (Modes \cup {"linked"})]
    BY DEF Init
  <2>4. QED BY <2>2, <2>3 DEF Init, TypeOK
<1>3. Referenced
  BY <1>1, FS_EmptySet DEF Init, Referenced, Users
<1>4. Listed /\ Remembered /\ Ranked
  BY <1>1 DEF Init, Listed, Remembered, Ranked
<1>5. QED BY <1>2, <1>3, <1>4 DEF DlfcnInv
-----------------------------------------------------------------------------
(***************************************************************************)
(* dlopen.                                                                 *)
(***************************************************************************)
LEMMA LoadCounts ==
  ASSUME DlfcnInv, NEW m \in Modules, NEW mode \in Modes, handles[m] < MaxHandles,
         LoadLibrary(m), Opened(m, mode)
  PROVE  /\ refs' \in [Modules -> Nat] /\ handles' \in [Modules -> 0 .. MaxHandles]
         /\ Loaded' = Loaded \cup New(m) /\ Referenced'
<1>1. /\ refs \in [Modules -> Nat] /\ handles \in [Modules -> 0 .. MaxHandles] /\ MaxHandles \in Nat
      /\ Deps \in [Modules -> SUBSET Modules]
  BY DlfcnAssumption DEF DlfcnInv, TypeOK
<1>2. /\ refs' = [x \in Modules |-> refs[x] + One(x = m) + One(x \in Deps[m] /\ refs[m] = 0)]
      /\ handles' = [handles EXCEPT ![m] = @ + 1]
  BY DEF LoadLibrary, Opened
<1>3. refs' \in [Modules -> Nat] /\ handles' \in [Modules -> 0 .. MaxHandles]
  <2>1. \A x \in Modules : refs[x] + One(x = m) + One(x \in Deps[m] /\ refs[m] = 0) \in Nat
    BY <1>1 DEF One
  <2>2. handles[m] + 1 \in 0 .. MaxHandles
    BY <1>1
  <2>3. QED BY <1>1, <1>2, <2>1, <2>2
<1>4. ASSUME NEW x \in Modules
      PROVE  refs'[x] > 0 <=> refs[x] > 0 \/ x = m \/ (x \in Deps[m] /\ refs[m] = 0)
  BY <1>1, <1>2 DEF One
<1>5. Loaded' = Loaded \cup New(m)
  BY <1>1, <1>4 DEF Loaded, New
<1>6. ASSUME NEW x \in Modules
      PROVE  refs'[x] = handles'[x] + Cardinality(Users(x)')
  <2>1. Users(x)' = IF x \in Deps[m] /\ refs[m] = 0 THEN Users(x) \cup {m} ELSE Users(x)
    <3>1. \A y \in Modules : y \in New(m) /\ y # m => Deps[y] = {}
      BY DependsOnce DEF New
    <3>2. m \in New(m) <=> refs[m] = 0
      BY DEF New, Loaded
    <3>3. refs[m] # 0 => m \in Loaded
      BY <1>1 DEF Loaded
    <3>4. New(m) \subseteq Modules
      BY <1>1 DEF New
    <3>5. QED BY <1>5, <3>1, <3>2, <3>3, <3>4 DEF Users
  <2>2. refs[x] = handles[x] + Cardinality(Users(x)) /\ Cardinality(Users(x)) \in Nat
    BY UsersFinite DEF DlfcnInv, Referenced
  <2>3. CASE x \in Deps[m] /\ refs[m] = 0
    <3>1. m \notin Users(x) /\ x # m
      BY <2>3, DependsOnce DEF Users, Loaded
    <3>2. Cardinality(Users(x)') = Cardinality(Users(x)) + 1
      BY <2>1, <2>3, <3>1, UsersFinite, FS_AddElement
    <3>3. refs'[x] = refs[x] + 1 /\ handles'[x] = handles[x]
      BY <1>1, <1>2, <2>3, <3>1 DEF One
    <3>4. QED BY <1>1, <2>2, <3>2, <3>3
  <2>4. CASE ~(x \in Deps[m] /\ refs[m] = 0)
    <3>1. Users(x)' = Users(x)
      BY <2>1, <2>4
    <3>2. refs'[x] = refs[x] + One(x = m) /\ handles'[x] = handles[x] + One(x = m)
      BY <1>1, <1>2, <2>4 DEF One
    <3>3. One(x = m) \in Nat
      BY DEF One
    <3>4. QED BY <1>1, <2>2, <3>1, <3>2, <3>3
  <2>5. QED BY <2>3, <2>4
<1>7. QED BY <1>3, <1>5, <1>6 DEF Referenced

\* The modules loaded come after all that were there.
LEMMA LoadRanks ==
  ASSUME Ranked, NEW m \in Modules, LoadLibrary(m), Loaded' = Loaded \cup New(m)
  PROVE  Ranked'
<1>1. PICK r \in Orders(New(m)) : before' = before \cup (Loaded \X New(m)) \cup r
  BY DEF LoadLibrary
<1>2. /\ r \subseteq New(m) \X New(m)
      /\ \A x, y \in New(m) : <<x, y>> \in r <=> x # y /\ <<y, x>> \notin r
      /\ \A x, y, z \in New(m) : <<x, y>> \in r /\ <<y, z>> \in r => <<x, z>> \in r
  BY DEF Orders
<1>3. Loaded \cap New(m) = {}
  BY DEF Loaded, New
<1>4. /\ before \subseteq Loaded \X Loaded
      /\ \A x, y \in Loaded : <<x, y>> \in before <=> x # y /\ <<y, x>> \notin before
      /\ \A x, y, z \in Loaded : <<x, y>> \in before /\ <<y, z>> \in before => <<x, z>> \in before
  BY DEF Ranked
<1>5. \A x, y : <<x, y>> \in before' <=>
        \/ x \in Loaded /\ y \in Loaded /\ <<x, y>> \in before
        \/ x \in Loaded /\ y \in New(m)
        \/ x \in New(m) /\ y \in New(m) /\ <<x, y>> \in r
  BY <1>1, <1>2, <1>4
<1>6. before' \subseteq Loaded' \X Loaded'
  BY <1>1, <1>2, <1>4
<1>7. \A x, y \in Loaded \cup New(m) : <<x, y>> \in before' <=> x # y /\ <<y, x>> \notin before'
  BY <1>2, <1>3, <1>4, <1>5
<1>8. \A x, y, z \in Loaded \cup New(m) :
        <<x, y>> \in before' /\ <<y, z>> \in before' => <<x, z>> \in before'
  BY <1>2, <1>3, <1>4, <1>5
<1>9. QED BY <1>6, <1>7, <1>8 DEF Ranked

LEMMA DlopenStep ==
  ASSUME DlfcnInv, NEW m \in Modules, NEW mode \in Modes, dlopen(m, mode)
  PROVE  DlfcnInv'
<1>0. LoadLibrary(m) /\ Opened(m, mode) /\ handles[m] < MaxHandles /\ error_occurred' = FALSE
  BY DEF dlopen
<1>1. /\ refs' \in [Modules -> Nat] /\ handles' \in [Modules -> 0 .. MaxHandles]
      /\ Loaded' = Loaded \cup New(m) /\ Referenced'
  BY <1>0, LoadCounts
<1>2. Ranked'
  BY <1>0, <1>1, LoadRanks DEF DlfcnInv
<1>3. /\ refs \in [Modules -> Nat] /\ handles \in [Modules -> 0 .. MaxHandles] /\ MaxHandles \in Nat
      /\ modes \in [Modules -> SUBSET (Modes \cup {"linked"})] /\ local \subseteq Modules
  BY DlfcnAssumption DEF DlfcnInv, TypeOK
<1>4. /\ modes' = [x \in Modules |-> modes[x] \cup (IF x = m THEN {mode}
                     ELSE IF x \in Deps[m] /\ refs[m] = 0 THEN {"linked"} ELSE {})]
      /\ handles' = [handles EXCEPT ![m] = @ + 1] /\ enum' = enum
  BY <1>0 DEF Opened, LoadLibrary
<1>5. local' \subseteq local \cup {m}
  BY DEF dlopen
<1>6. TypeOK'
  <2>1. before' \subseteq Modules \X Modules
    BY <1>2 DEF Ranked, Loaded
  <2>2. modes' \in [Modules -> SUBSET (Modes \cup {"linked"})]
    BY <1>3, <1>4
  <2>3. enum' \in EnumWorks /\ error_occurred' \in BOOLEAN /\ local' \subseteq Modules
    BY <1>0, <1>3, <1>4, <1>5 DEF DlfcnInv, TypeOK
  <2>4. QED BY <1>1, <2>1, <2>2, <2>3 DEF TypeOK
<1>7. Listed'
  <2> SUFFICES ASSUME NEW x \in local' PROVE handles'[x] > 0
    BY DEF Listed
  <2>1. CASE x = m
    BY <1>3, <1>4, <2>1
  <2>2. CASE x # m
    <3>1. x \in local /\ handles[x] > 0
      BY <1>5, <2>2 DEF DlfcnInv, Listed
    <3>2. QED BY <1>3, <1>4, <2>2, <3>1
  <2>3. QED BY <2>1, <2>2
<1>8. Remembered'
  <2> SUFFICES ASSUME NEW x \in Modules
               PROVE  /\ refs'[x] = 0 => modes'[x] = {}
                      /\ enum' /\ "global" \in modes'[x] => x \notin local'
    BY DEF Remembered
  <2>1. refs'[x] = 0 => modes'[x] = {}
    <3>1. SUFFICES ASSUME refs'[x] = 0 PROVE modes'[x] = {}
      OBVIOUS
    <3>2. x \notin Loaded /\ x \notin New(m)
      BY <1>1, <3>1 DEF Loaded
    <3>3. refs[x] = 0 /\ x # m /\ ~(x \in Deps[m] /\ refs[m] = 0)
      <4>1. refs[x] = 0
        BY <1>3, <3>2 DEF Loaded
      <4>2. QED BY <3>2, <4>1 DEF New
    <3>4. modes[x] = {}
      BY <3>3 DEF DlfcnInv, Remembered
    <3>5. QED BY <1>4, <3>3, <3>4
  <2>2. ASSUME enum', "global" \in modes'[x] PROVE x \notin local'
    <3>1. CASE x # m
      <4>1. "global" \in modes[x]
        BY <1>4, <2>2, <3>1
      <4>2. x \notin local
        BY <1>4, <2>2, <4>1 DEF DlfcnInv, Remembered
      <4>3. QED BY <1>5, <3>1, <4>2
    <3>2. CASE x = m /\ mode = "global"
      <4>1. refs[m] = 0 => m \notin local
        BY <1>3, OpenIsLoaded DEF DlfcnInv, Listed, Loaded
      <4>2. CountChanged(m) <=> refs[m] = 0
        BY <1>4, <2>2 DEF CountChanged, New
      <4>3. local' = IF CountChanged(m) THEN local ELSE local \ {m}
        BY <3>2 DEF dlopen
      <4>4. QED BY <3>2, <4>1, <4>2, <4>3
    <3>3. CASE x = m /\ mode = "local"
      <4>1. "global" \in modes[m]
        BY <1>4, <2>2, <3>3
      <4>2. m \notin local /\ refs[m] # 0
        BY <1>4, <2>2, <4>1 DEF DlfcnInv, Remembered
      <4>3. ~CountChanged(m)
        BY <4>2 DEF CountChanged, New
      <4>4. local' = local
        BY <3>3, <4>3 DEF dlopen
      <4>5. QED BY <3>3, <4>2, <4>4
    <3>4. QED BY <3>1, <3>2, <3>3 DEF Modes
  <2>3. QED BY <2>1, <2>2
<1>9. QED BY <1>1, <1>2, <1>6, <1>7, <1>8 DEF DlfcnInv
-----------------------------------------------------------------------------
(***************************************************************************)
(* dlclose.                                                                *)
(***************************************************************************)
LEMMA DlcloseStep ==
  ASSUME DlfcnInv, NEW m \in Modules, dlclose(m)
  PROVE  DlfcnInv'
<1>1. /\ refs \in [Modules -> Nat] /\ handles \in [Modules -> 0 .. MaxHandles] /\ MaxHandles \in Nat
      /\ Deps \in [Modules -> SUBSET Modules] /\ local \subseteq Modules
      /\ modes \in [Modules -> SUBSET (Modes \cup {"linked"})]
  BY DlfcnAssumption DEF DlfcnInv, TypeOK
<1>2. /\ refs' = [x \in Modules |-> refs[x] - One(x = m) - One(x \in Deps[m] /\ refs[m] = 1)]
      /\ before' = {p \in before : refs'[p[1]] > 0 /\ refs'[p[2]] > 0}
      /\ handles[m] > 0 /\ handles' = [handles EXCEPT ![m] = @ - 1]
      /\ local' = local \ {m} /\ enum' = enum /\ error_occurred' = FALSE
      /\ modes' = [x \in Modules |-> IF refs'[x] = 0 THEN {} ELSE modes[x]]
  BY DEF dlclose, FreeLibrary
<1>3. m \in Loaded /\ refs[m] >= handles[m] /\ m \in Modules
  BY <1>2, OpenIsLoaded
<1>4. \A d \in Deps[m] : refs[d] > 0 /\ d # m /\ d \in Modules /\ Deps[d] = {}
  BY <1>3, UsedIsLoaded, DependsOnce DEF Loaded
<1>5. ASSUME NEW x \in Modules
      PROVE  refs'[x] = IF x = m \/ (x \in Deps[m] /\ refs[m] = 1) THEN refs[x] - 1 ELSE refs[x]
  BY <1>1, <1>2, <1>4 DEF One
<1>6. ASSUME NEW x \in Modules PROVE refs'[x] \in Nat
  <2>1. x = m \/ x \in Deps[m] => refs[x] > 0
    BY <1>3, <1>4 DEF Loaded
  <2>2. QED BY <1>1, <1>5, <2>1
<1>7. /\ Loaded' \subseteq Loaded
      /\ \A x \in Loaded : x # m /\ x \notin Deps[m] => x \in Loaded'
      /\ m \in Loaded' <=> refs[m] # 1
  <2>1. ASSUME NEW x \in Modules PROVE refs'[x] > 0 => refs[x] > 0
    BY <1>1, <1>5
  <2>2. ASSUME NEW x \in Loaded, x # m, x \notin Deps[m] PROVE x \in Loaded'
    BY <1>5, <2>2 DEF Loaded
  <2>3. m \in Loaded' <=> refs[m] # 1
    <3>1. refs'[m] = refs[m] - 1 /\ refs[m] \in Nat /\ refs[m] > 0
      BY <1>1, <1>3, <1>5 DEF Loaded
    <3>2. QED BY <3>1 DEF Loaded
  <2>4. QED BY <2>1, <2>2, <2>3 DEF Loaded
<1>8. Referenced'
  <2> SUFFICES ASSUME NEW x \in Modules PROVE refs'[x] = handles'[x] + Cardinality(Users(x)')
    BY DEF Referenced
  <2>1. Users(x)' = IF x \in Deps[m] /\ refs[m] = 1 THEN Users(x) \ {m} ELSE Users(x)
    <3>1. \A y \in Loaded' : x \in Deps[y] => y \in Loaded /\ (y = m => refs[m] # 1)
      BY <1>7
    <3>2. \A y \in Loaded : x \in Deps[y] /\ y # m => y \in Loaded'
      BY <1>4, <1>7
    <3>3. m \in Loaded /\ (refs[m] # 1 => m \in Loaded')
      BY <1>3, <1>7
    <3>4. QED BY <3>1, <3>2, <3>3 DEF Users
  <2>2. refs[x] = handles[x] + Cardinality(Users(x)) /\ Cardinality(Users(x)) \in Nat
        /\ refs[x] \in Nat /\ handles[x] \in Nat
    BY <1>1, UsersFinite DEF DlfcnInv, Referenced
  <2>3. CASE x \in Deps[m] /\ refs[m] = 1
    <3>1. m \in Users(x) /\ x # m
      BY <1>3, <1>4, <2>3 DEF Users
    <3>2. Cardinality(Users(x)') = Cardinality(Users(x)) - 1
      BY <2>1, <2>3, <3>1, UsersFinite, FS_RemoveElement
    <3>3. refs'[x] = refs[x] - 1 /\ handles'[x] = handles[x]
      BY <1>1, <1>2, <1>5, <2>3, <3>1
    <3>4. QED BY <2>2, <3>2, <3>3
  <2>4. CASE ~(x \in Deps[m] /\ refs[m] = 1)
    <3>1. Users(x)' = Users(x)
      BY <2>1, <2>4
    <3>2. CASE x = m
      <4>1. refs'[x] = refs[x] - 1 /\ handles'[x] = handles[x] - 1
        BY <1>1, <1>2, <1>5, <3>2
      <4>2. QED BY <2>2, <3>1, <4>1
    <3>3. CASE x # m
      <4>1. refs'[x] = refs[x] /\ handles'[x] = handles[x]
        BY <1>1, <1>2, <1>5, <2>4, <3>3
      <4>2. QED BY <2>2, <3>1, <4>1
    <3>4. QED BY <3>2, <3>3
  <2>5. QED BY <2>3, <2>4
<1>9. TypeOK'
  <2>1. handles' \in [Modules -> 0 .. MaxHandles]
    <3>1. handles[m] - 1 \in 0 .. MaxHandles
      BY <1>1, <1>2
    <3>2. QED BY <1>1, <1>2, <3>1
  <2>2. refs' \in [Modules -> Nat]
    BY <1>2, <1>6
  <2>3. modes' \in [Modules -> SUBSET (Modes \cup {"linked"})] /\ local' \subseteq Modules
    BY <1>1, <1>2
  <2>4. before' \subseteq Modules \X Modules /\ enum' \in EnumWorks /\ error_occurred' \in BOOLEAN
    BY <1>2 DEF DlfcnInv, TypeOK
  <2>5. QED BY <2>1, <2>2, <2>3, <2>4 DEF TypeOK
<1>10. Listed'
  <2> SUFFICES ASSUME NEW x \in local \ {m} PROVE handles'[x] > 0
    BY <1>2 DEF Listed
  <2>1. handles'[x] = handles[x]
    BY <1>1, <1>2
  <2>2. QED BY <2>1 DEF DlfcnInv, Listed
<1>11. Remembered'
  BY <1>1, <1>2 DEF DlfcnInv, Remembered
<1>12. Ranked'
  <2>1. \A p \in before : p = <<p[1], p[2]>> /\ p[1] \in Modules /\ p[2] \in Modules
    BY DEF DlfcnInv, TypeOK
  <2>2. \A x, y : <<x, y>> \in before' <=> <<x, y>> \in before /\ x \in Loaded' /\ y \in Loaded'
    BY <1>2, <2>1 DEF Loaded
  <2>3. before' \subseteq Loaded' \X Loaded'
    BY <1>2, <2>1 DEF Loaded
  <2>4. QED BY <1>7, <2>2, <2>3 DEF DlfcnInv, Ranked
<1>13. QED BY <1>8, <1>9, <1>10, <1>11, <1>12 DEF DlfcnInv

\* The other calls load and list nothing.
LEMMA QuietStep ==
  ASSUME DlfcnInv, UNCHANGED <<system, local, history>>, error_occurred' \in BOOLEAN
  PROVE  DlfcnInv'
  BY DEF DlfcnInv, TypeOK, Referenced, Users, Loaded, Listed, Remembered, Ranked, system, history

LEMMA StepKeepsInv == DlfcnInv /\ [Next]_vars => DlfcnInv'
<1> SUFFICES ASSUME DlfcnInv, [Next]_vars PROVE DlfcnInv'
  OBVIOUS
<1>1. ASSUME NEW m \in Modules, NEW mode \in Modes, dlopen(m, mode) PROVE DlfcnInv'
  BY <1>1, DlopenStep
<1>2. ASSUME NEW m \in Modules, dlclose(m) PROVE DlfcnInv'
  BY <1>2, DlcloseStep
<1>3. ASSUME NEW m \in Modules, dlopenNoMemory(m) \/ dlcloseFails(m) PROVE DlfcnInv'
  BY <1>3, QuietStep DEF dlopenNoMemory, dlcloseFails
<1>4. CASE dlopenFails \/ dlopenProgram \/ dlsym \/ dlsymNoMemory \/ dlerror
  BY <1>4, QuietStep DEF dlopenFails, dlopenProgram, dlsym, dlsymNoMemory, dlerror
<1>5. CASE UNCHANGED vars
  <2>1. error_occurred' \in BOOLEAN
    BY <1>5 DEF vars, DlfcnInv, TypeOK
  <2>2. QED BY <1>5, <2>1, QuietStep DEF vars
<1>6. QED BY <1>1, <1>2, <1>3, <1>4, <1>5 DEF Next

LEMMA InvHolds == Spec => []DlfcnInv
  BY InitIsRight, StepKeepsInv, PTL DEF Spec
-----------------------------------------------------------------------------
\* The reference counts and the list have their types, whatever is opened and
\* closed: no count goes below zero (lines 440-449, 462-482).
THEOREM TypeCorrect == Spec => []TypeOK
<1>1. DlfcnInv => TypeOK
  BY DEF DlfcnInv
<1>2. QED BY <1>1, InvHolds, PTL

\* What the program has closed leaves nothing behind, neither a reference nor an
\* entry of the list (lines 440-449, 469-477).
THEOREM ClosedIsGone == Spec => []NothingLeftBehind
<1>1. DlfcnInv => NothingLeftBehind
  BY DEF DlfcnInv, Referenced, Users, Listed, NothingLeftBehind
<1>2. QED BY <1>1, InvHolds, PTL

\* A module that was once opened globally stays visible (lines 431-436).
THEOREM GlobalIsVisible == Spec => []GlobalStaysVisible
<1>1. DlfcnInv => GlobalStaysVisible
  <2> SUFFICES ASSUME DlfcnInv, NEW m \in Modules, enum, "global" \in modes[m]
               PROVE  Lookup("program", Program, m) = m
    BY DEF GlobalStaysVisible
  <2>1. m \in Loaded \ local
    <3>1. m \notin local /\ refs[m] # 0 /\ refs[m] \in Nat
      BY DEF DlfcnInv, Remembered, TypeOK
    <3>2. QED BY <3>1 DEF Loaded
  <2>2. Searched("program", Program) = {Program} \cup (Loaded \ local)
    BY DEF Searched
  <2>3. \A x \in {Program} \cup Loaded : Defines(x, m) <=> x = m
    BY DlfcnAssumption DEF Defines
  <2>4. {x \in Searched("program", Program) : Defines(x, m)} = {m}
    BY <2>1, <2>2, <2>3
  <2>5. (CHOOSE y \in {m} : \A x \in {m} \ {y} : Earlier(y, x)) = m
    OBVIOUS
  <2>6. QED BY <2>4, <2>5 DEF Lookup
<1>2. QED BY <1>1, InvHolds, PTL

\* A lookup asks the modules one after the other, the program first: of any two
\* it may find one is before the other (lines 559-583).
OneAfterAnother ==
  LET All == Loaded \cup {Program}
  IN  /\ \A x, y \in All : Earlier(x, y) <=> x # y /\ ~Earlier(y, x)
      /\ \A x, y, z \in All : Earlier(x, y) /\ Earlier(y, z) => Earlier(x, z)

\* The order of loading is total, whatever has been closed in between.
THEOREM LoadOrderIsTotal == Spec => []OneAfterAnother
<1>1. DlfcnInv => OneAfterAnother
  <2> SUFFICES ASSUME DlfcnInv PROVE OneAfterAnother
    OBVIOUS
  <2>1. Program \notin Loaded
    BY DlfcnAssumption DEF Loaded
  <2>2. \A x, y : <<x, y>> \in before => x \in Loaded /\ y \in Loaded
    BY DEF DlfcnInv, Ranked
  <2>3. QED BY <2>1, <2>2 DEF DlfcnInv, Ranked, Earlier, OneAfterAnother
<1>2. QED BY <1>1, InvHolds, PTL
=============================================================================
