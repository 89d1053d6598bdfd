------------------------------ MODULE MCKnowledge ------------------------------
(* A small instance of Knowledge for TLC. *)
EXTENDS Knowledge, TLC

Symmetry == Permutations(Docs) \cup Permutations(Workers) \cup Permutations(Requests)
=============================================================================
