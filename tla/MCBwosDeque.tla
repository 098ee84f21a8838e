------------------------------ MODULE MCBwosDeque ------------------------------
(* An instance of BwosDeque for TLC. *)
EXTENDS BwosDeque, TLC

CONSTANTS t1, t2
MCThieves == {t1, t2}
Symmetry  == Permutations(MCThieves)
=============================================================================
