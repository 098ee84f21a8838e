--------------------------- MODULE MCKeyTracker ---------------------------
(* KeyTracker with two pool threads beside the main thread, so that one    *)
(* can be inside the wrapper while the other is, and with slots enough for *)
(* each to carry a key while others are tracked or foreign.                *)
EXTENDS KeyTracker
=============================================================================
