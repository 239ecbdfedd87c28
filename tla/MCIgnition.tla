------------------------------ MODULE MCIgnition ------------------------------
(* Small instances of Ignition for TLC. *)
EXTENDS Ignition

\* IM_INDIVIDUAL_COILS: a coil of its own for each cylinder.
IndividualCoils == [i \in Cylinder |-> {i}]
=============================================================================
