--------------------------- MODULE MCLeakChecker ---------------------------
(* LeakChecker on small instances: two workers, so that they race for the  *)
(* runtime's keys, and fewer slots than the rounds would leak.             *)
EXTENDS LeakChecker, TLC

Symmetry == Permutations(Slots) \cup Permutations(Workers)
=============================================================================
