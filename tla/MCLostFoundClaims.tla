--------------------------- MODULE MCLostFoundClaims ---------------------------
(* Small instances of LostFoundClaims for TLC. *)
EXTENDS LostFoundClaims, TLC

Symmetry == Permutations(Users) \cup Permutations(Items)
=============================================================================
