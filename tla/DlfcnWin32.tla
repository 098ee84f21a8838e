------------------------------ MODULE DlfcnWin32 -------------------------------
(***************************************************************************)
(* The dlopen emulation for Windows.  The system counts references to      *)
(* modules and loads what a module depends on with it; the emulation adds  *)
(* the list of local objects, which a search through all modules leaves    *)
(* out.  It is not thread-safe by its own account, so a call is a step.    *)
(***************************************************************************)
EXTENDS Naturals, FiniteSets

CONSTANTS Modules,
          Program,      \* the original program file
          Common,       \* a symbol every module but the program defines
          NULL,
          Deps,         \* what the system loads along with a module
          EnumWorks,    \* whether EnumProcessModules can be found and succeeds
          MaxHandles    \* bound: handles of one module open at a time

\* What is loaded along depends on nothing else.
ASSUME DlfcnAssumption ==
  /\ IsFiniteSet(Modules) /\ MaxHandles \in Nat
  /\ {Program, NULL, Common} \cap Modules = {} /\ EnumWorks \subseteq BOOLEAN
  /\ Deps \in [Modules -> SUBSET Modules]
  /\ \A m \in Modules : \A d \in Deps[m] : Deps[d] = {}

VARIABLES
  refs,            \* the system's reference count of each module
  before,          \* the order of loading: pairs of an earlier and a later module
  local,           \* first_object: the list of local objects
  error_occurred,
  enum,            \* whether EnumProcessModules works in this process
  handles,         \* history: handles dlopen returned that are not closed
  modes            \* history: how each module was loaded and opened since

system == <<refs, before, enum>>
history == <<handles, modes>>
vars == <<system, local, error_occurred, history>>

Modes == {"local", "global"}

TypeOK ==
  /\ refs \in [Modules -> Nat] /\ before \subseteq Modules \X Modules /\ enum \in EnumWorks
  /\ local \subseteq Modules /\ error_occurred \in BOOLEAN
  /\ handles \in [Modules -> 0 .. MaxHandles]
  /\ modes \in [Modules -> SUBSET (Modes \cup {"linked"})]

Init ==
  /\ refs = [m \in Modules |-> 0] /\ before = {} /\ enum \in EnumWorks
  /\ local = {} /\ error_occurred = FALSE
  /\ handles = [m \in Modules |-> 0] /\ modes = [m \in Modules |-> {}]
-----------------------------------------------------------------------------
(***************************************************************************)
(* The system.                                                             *)
(***************************************************************************)
One(P) == IF P THEN 1 ELSE 0

Loaded == {m \in Modules : refs[m] > 0}

New(m) == IF refs[m] = 0 THEN {m} \cup (Deps[m] \ Loaded) ELSE {}

\* The orders in which the system may load a set of modules.
Orders(S) ==
  {r \in SUBSET (S \X S) :
     /\ \A x, y \in S : <<x, y>> \in r <=> x # y /\ <<y, x>> \notin r
     /\ \A x, y, z \in S : <<x, y>> \in r /\ <<y, z>> \in r => <<x, z>> \in r}

LoadLibrary(m) ==
  /\ refs' = [x \in Modules |-> refs[x] + One(x = m) + One(x \in Deps[m] /\ refs[m] = 0)]
  /\ \E r \in Orders(New(m)) : before' = before \cup (Loaded \X New(m)) \cup r
  /\ UNCHANGED enum

FreeLibrary(m) ==
  /\ refs' = [x \in Modules |-> refs[x] - One(x = m) - One(x \in Deps[m] /\ refs[m] = 1)]
  /\ before' = {p \in before : refs'[p[1]] > 0 /\ refs'[p[2]] > 0}
  /\ UNCHANGED enum

\* The number of modules before and after LoadLibraryEx, 0 when unknown.
CountChanged(m) == enum /\ New(m) # {}
-----------------------------------------------------------------------------
(***************************************************************************)
(* The emulation.                                                          *)
(***************************************************************************)
Opened(m, mode) ==
  /\ handles' = [handles EXCEPT ![m] = @ + 1]
  /\ modes' = [x \in Modules |->
                 modes[x] \cup (IF x = m THEN {mode}
                                ELSE IF x \in Deps[m] /\ refs[m] = 0 THEN {"linked"} ELSE {})]

\* Bug: opening a module globally does not take it from the list.
MutDlopen(m, mode) ==
  /\ handles[m] < MaxHandles
  /\ LoadLibrary(m) /\ Opened(m, mode)
  /\ local' = IF mode = "local" /\ CountChanged(m) THEN local \cup {m} ELSE local
  /\ error_occurred' = FALSE

dlopen(m, mode) ==
  /\ handles[m] < MaxHandles
  /\ LoadLibrary(m) /\ Opened(m, mode)
  /\ local' = CASE mode = "local" /\ CountChanged(m)   -> local \cup {m}
                [] mode = "global" /\ ~CountChanged(m) -> local \ {m}
                [] OTHER                               -> local
  /\ error_occurred' = FALSE

\* The file cannot be loaded, or its name is too long.
dlopenFails == error_occurred' = TRUE /\ UNCHANGED <<system, local, history>>

\* Bug: the module stays loaded.
MutNoMemory(m) ==
  /\ CountChanged(m) /\ m \notin local
  /\ LoadLibrary(m)
  /\ error_occurred' = TRUE
  /\ UNCHANGED <<local, history>>

\* No memory for the list element: the module that has just been loaded is
\* freed again, and what came with it.
dlopenNoMemory(m) ==
  /\ CountChanged(m) /\ m \notin local
  /\ error_occurred' = TRUE
  /\ UNCHANGED <<system, local, history>>

\* The program itself: nothing is loaded.
dlopenProgram == error_occurred' = FALSE /\ UNCHANGED <<system, local, history>>

dlclose(m) ==
  /\ handles[m] > 0
  /\ FreeLibrary(m)
  /\ local' = local \ {m}
  /\ error_occurred' = FALSE
  /\ handles' = [handles EXCEPT ![m] = @ - 1]
  /\ modes' = [x \in Modules |-> IF refs'[x] = 0 THEN {} ELSE modes[x]]

\* A handle of a module that is no longer loaded.
dlcloseFails(m) ==
  /\ refs[m] = 0
  /\ error_occurred' = TRUE
  /\ UNCHANGED <<system, local, history>>

Defines(m, name) == name = m \/ (name = Common /\ m # Program)

Earlier(x, y) == (x = Program /\ y # Program) \/ <<x, y>> \in before

\* The modules a lookup asks: for RTLD_NEXT those loaded after the caller, for
\* the program and RTLD_DEFAULT the program and then all of them, local objects
\* always excepted; for a module itself alone.
Searched(handle, caller) ==
  LET Global == IF enum THEN Loaded \ local ELSE {}
  IN  CASE handle = "next"    -> {m \in Global : Earlier(caller, m)}
        [] handle = "program" -> {Program} \cup Global
        [] OTHER              -> {handle}

\* The first of them that defines the name.
Lookup(handle, caller, name) ==
  LET found == {m \in Searched(handle, caller) : Defines(m, name)}
  IN  IF found = {} THEN NULL ELSE CHOOSE m \in found : \A x \in found \ {m} : Earlier(m, x)

dlsym ==
  /\ \E handle \in Loaded \cup {"next", "program"}, caller \in Loaded \cup {Program},
        name \in Modules \cup {Common} :
       error_occurred' = (Lookup(handle, caller, name) = NULL)
  /\ UNCHANGED <<system, local, history>>

\* No memory for the list of modules.
dlsymNoMemory == enum /\ error_occurred' = TRUE /\ UNCHANGED <<system, local, history>>

dlerror == error_occurred' = FALSE /\ UNCHANGED <<system, local, history>>
-----------------------------------------------------------------------------
Next ==
  \/ \E m \in Modules : \/ (\E mode \in Modes : dlopen(m, mode))
                        \/ dlopenNoMemory(m) \/ dlclose(m) \/ dlcloseFails(m)
  \/ dlopenFails \/ dlopenProgram \/ dlsym \/ dlsymNoMemory \/ dlerror

Spec == Init /\ [][Next]_vars
-----------------------------------------------------------------------------
(***************************************************************************)
(* Properties.                                                             *)
(***************************************************************************)
\* A module that was once opened globally since it was loaded stays visible to
\* lookups through the program, whatever is opened and closed before and after
\* (lines 431-436).
GlobalStaysVisible ==
  \A m \in Modules : enum /\ "global" \in modes[m] => Lookup("program", Program, m) = m

\* What the program has closed leaves nothing behind: a reference to a module
\* is a handle still open or a loaded module that depends on it, and only a
\* module with an open handle is on the list; a stale entry would hide the next
\* module loaded at the same address (lines 440-449, 469-477).
NothingLeftBehind ==
  \A m \in Modules :
    /\ refs[m] = handles[m] + Cardinality({x \in Loaded : m \in Deps[x]})
    /\ m \in local => handles[m] > 0

\* A module that was only ever opened locally is not found through the program
\* (lines 429-431).
LocalStaysHidden ==
  \A m \in Modules : modes[m] = {"local"} => Lookup("program", Program, m) = NULL
=============================================================================
