----------------------------- MODULE MCScanning -----------------------------
(***************************************************************************)
(* Instances of Scanning for TLC.                                          *)
(***************************************************************************)
EXTENDS Scanning
=============================================================================
