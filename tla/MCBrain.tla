------------------------------ MODULE MCBrain -------------------------------
(* Brain and Sensors for TLC. *)
EXTENDS Brain
=============================================================================
