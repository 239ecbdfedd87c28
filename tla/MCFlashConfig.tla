---------------------------- MODULE MCFlashConfig ----------------------------
(* Small instances of FlashConfig for TLC. *)
EXTENDS FlashConfig

CONSTANTS t1, t2   \* two values of a part of the tune
=============================================================================
