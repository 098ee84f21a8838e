------------------------------ MODULE KeyLease ------------------------------
(***************************************************************************)
(* What the key interception promises, as the header of plugin.cpp words   *)
(* it: every key the plugin takes between dlopen and dlclose is given back *)
(* by the end of dlclose, so the number of keys in the process does not    *)
(* grow from one load to the next.  The plugin leases keys; the lease ends *)
(* with the image; the keys of other code are never touched.               *)
(***************************************************************************)
CONSTANT Slots

VARIABLES loaded,     \* the plugin image is mapped
          leased,     \* keys the plugin's code has created and not deleted
          foreign     \* keys of the host and of other libraries

leaseVars == <<loaded, leased, foreign>>

LeaseInit == /\ loaded = FALSE
             /\ leased = {}
             /\ foreign \in SUBSET Slots

Open == /\ ~loaded
        /\ loaded' = TRUE
        /\ UNCHANGED <<leased, foreign>>

Acquire(k) == /\ loaded
              /\ k \notin leased \cup foreign
              /\ leased' = leased \cup {k}
              /\ UNCHANGED <<loaded, foreign>>

Release(k) == /\ loaded
              /\ k \in leased
              /\ leased' = leased \ {k}
              /\ UNCHANGED <<loaded, foreign>>

\* The promise: the image goes only when it holds no key.
Close == /\ loaded
         /\ leased = {}
         /\ loaded' = FALSE
         /\ UNCHANGED <<leased, foreign>>

Others(k) == /\ k \notin leased
             /\ foreign' \in {foreign \cup {k}, foreign \ {k}}
             /\ UNCHANGED <<loaded, leased>>

LeaseNext == Open \/ Close \/ \E k \in Slots : Acquire(k) \/ Release(k) \/ Others(k)

LeaseSpec == LeaseInit /\ [][LeaseNext]_leaseVars
=============================================================================
