----------------------------- MODULE MCMailing -----------------------------
(***************************************************************************)
(* Mailing on small instances.                                             *)
(***************************************************************************)
EXTENDS Mailing, TLC

Symmetry == Permutations(Users)
=============================================================================
