---------------------------- MODULE MCCategories -----------------------------
(***************************************************************************)
(* Instances of Categories for TLC.                                        *)
(***************************************************************************)
EXTENDS Categories, TLC

Symmetry == Permutations(Requests) \cup Permutations(Media) \cup Permutations(Categories)
=============================================================================
