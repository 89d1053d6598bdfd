----------------------------- MODULE MCWorkOrders -----------------------------
(* A small instance of WorkOrders for TLC. *)
EXTENDS WorkOrders, TLC

Symmetry == Permutations(Keys) \cup Permutations(Requests)
=============================================================================
