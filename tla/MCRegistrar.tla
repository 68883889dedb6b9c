----------------------------- MODULE MCRegistrar -----------------------------
(***************************************************************************)
(* Instances of Registrar for TLC.                                         *)
(***************************************************************************)
EXTENDS Registrar, TLC

\* No action tells one client from another.
Symmetry == Permutations(Client)
=============================================================================
