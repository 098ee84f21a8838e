-------------------------------- MODULE Bulk --------------------------------
(***************************************************************************)
(* What run_plugin relies on when it hands do_work to the pool with        *)
(* stdexec::bulk and waits for it (plugin.cpp:114-135): an index that has  *)
(* been run is not run again, and the wait ends only when every index has  *)
(* been run.                                                               *)
(***************************************************************************)
VARIABLES todo,       \* the indices that have not been run
          complete    \* the operation has completed

bulkVars == <<todo, complete>>

BulkInit == complete = FALSE

RunShare(S) == /\ ~complete
               /\ S # {} /\ S \subseteq todo
               /\ todo' = todo \ S
               /\ UNCHANGED complete

Complete == /\ ~complete
            /\ todo = {}
            /\ complete' = TRUE
            /\ UNCHANGED todo

BulkNext == Complete \/ \E S \in SUBSET todo : RunShare(S)

BulkSpec == BulkInit /\ [][BulkNext]_bulkVars
=============================================================================
