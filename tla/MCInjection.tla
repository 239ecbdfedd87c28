----------------------------- MODULE MCInjection -----------------------------
(* Small instances of Injection for TLC. *)
EXTENDS Injection
=============================================================================
