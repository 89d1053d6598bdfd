---------------------------- MODULE MCCampusEvents ----------------------------
(* Small instances of CampusEvents for TLC. *)
EXTENDS CampusEvents, TLC

UserSymmetry == Permutations(Users)
=============================================================================
