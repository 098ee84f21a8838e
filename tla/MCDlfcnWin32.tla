----------------------------- MODULE MCDlfcnWin32 ------------------------------
(* An instance of DlfcnWin32 for TLC: app loads lib along; plug is on its own. *)
EXTENDS DlfcnWin32

CONSTANTS app, lib, plug
MCDeps == [m \in Modules |-> IF m = app THEN {lib} ELSE {}]
=============================================================================
