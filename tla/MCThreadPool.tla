--------------------------- MODULE MCThreadPool ---------------------------
(* ThreadPool with two workers and bulks of no index, of fewer than        *)
(* workers, and of more than workers, unequally shared.                    *)
EXTENDS ThreadPool
=============================================================================
