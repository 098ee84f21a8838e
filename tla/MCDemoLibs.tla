------------------------------ MODULE MCDemoLibs -------------------------------
(* An instance of DemoLibs for TLC. *)
EXTENDS DemoLibs
=============================================================================
