----------------------------- MODULE MCReleases -----------------------------
(***************************************************************************)
(* Instances of Releases for TLC: sets of model values and their symmetry  *)
(* (safety runs only).                                                     *)
(***************************************************************************)
EXTENDS Releases, TLC

VersionSymmetry == Permutations(Versions)

ActorSymmetry == Permutations(Requests) \cup Permutations(Schedulers)

Symmetry == VersionSymmetry \cup ActorSymmetry
=============================================================================
