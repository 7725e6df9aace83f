---------------------------- MODULE MCExecuteMany ----------------------------
(* A small instance of ExecuteMany for TLC. *)
EXTENDS ExecuteMany

(* -1 is the rowcount of an SSCursor for a statement with a result set. *)
MCCounts == {-1, 2}
=============================================================================
