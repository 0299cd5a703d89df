----------------------------- MODULE MCPayments -----------------------------
(***************************************************************************)
(* Payments on small instances: an administrator and a user, two tries to  *)
(* pay, a reservation that stands for one unit of time.                    *)
(***************************************************************************)
EXTENDS Payments, TLC

Symmetry == Permutations(Invoices) \cup Permutations(Attempts)
=============================================================================
