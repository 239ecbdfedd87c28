----------------------------- MODULE MCExecutor -----------------------------
(* Small instance of Executor for TLC: the records are model values. *)
EXTENDS Executor
=============================================================================
