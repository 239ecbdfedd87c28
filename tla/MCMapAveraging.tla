---------------------------- MODULE MCMapAveraging ----------------------------
(* Small instances of MapAveraging for TLC. *)
EXTENDS MapAveraging
=============================================================================
