-------------------------- MODULE MCEngineLifecycle --------------------------
(* Small instances of EngineLifecycle for TLC. *)
EXTENDS EngineLifecycle
=============================================================================
