---------------------------- MODULE MCStorefront ----------------------------
(* Two devices, one or two e-mail addresses and two versions, for TLC. *)
EXTENDS Storefront, TLC

CONSTANTS v1, v2

const_CodeOf == (v1 :> 1) @@ (v2 :> 2)

Symmetry == Permutations(Devices) \cup Permutations(Emails)
=============================================================================
