------------------------------- MODULE MCRunLoop -------------------------------
(* An instance of RunLoop for TLC. *)
EXTENDS RunLoop

CONSTANTS s1, s2, s3
=============================================================================
