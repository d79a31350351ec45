------------------------------ MODULE MCReviews ------------------------------
(***************************************************************************)
(* Instances of Reviews for TLC.                                           *)
(***************************************************************************)
EXTENDS Reviews, TLC

Symmetry == Permutations(Users) \cup Permutations(Apps) \cup Permutations(ReviewIds)
=============================================================================
