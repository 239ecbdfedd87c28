---------------------------- MODULE MCSoftwarePwm ----------------------------
(* Small instances of SoftwarePwm for TLC. *)
EXTENDS SoftwarePwm
=============================================================================
