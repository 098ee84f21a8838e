---------------------------- MODULE PthreadKeys ----------------------------
(***************************************************************************)
(* The process-wide table of pthread keys (TLS indexes on Windows), as the *)
(* host and the plugin use it: PTHREAD_KEYS_MAX slots, create takes some   *)
(* free slot or fails with EAGAIN, delete frees a slot and runs no         *)
(* destructor.  The table is part of the C library, not of the repository. *)
(*                                                                         *)
(* The C library does not record who created a key.  The model does,       *)
(* because the repository is about exactly that:                           *)
(*   "foreign"  created by the host or by another library;                 *)
(*   "image"    created by code of the plugin image that is now mapped;    *)
(*   "orphan"   created by an image that has been unmapped since: nobody   *)
(*              knows the key any more, so nobody can delete it.           *)
(***************************************************************************)
CONSTANT Slots                       \* 0 .. PTHREAD_KEYS_MAX - 1

VARIABLE table                       \* who holds each slot

Owners == {"free", "foreign", "image", "orphan"}

KeysOf(owner) == {s \in Slots : table[s] = owner}
UsedKeys      == {s \in Slots : table[s] # "free"}

Full == KeysOf("free") = {}

\* pthread_key_create: any free slot.  When the table is Full it fails.
Create(s, owner) == /\ table[s] = "free"
                    /\ table' = [table EXCEPT ![s] = owner]

\* pthread_key_delete of a valid key, whoever created it.
Delete(s) == table' = [table EXCEPT ![s] = "free"]

\* Unmapping an image takes the last copies of its key numbers away.
Orphaned == [s \in Slots |-> IF table[s] = "image" THEN "orphan" ELSE table[s]]
=============================================================================
