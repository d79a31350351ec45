---------------------------- MODULE MCUploadStore ----------------------------
(***************************************************************************)
(* Instances of UploadStore for TLC.                                       *)
(***************************************************************************)
EXTENDS UploadStore, TLC

Symmetry == Permutations(Uploads)
=============================================================================
