--------------------------- MODULE MCSecondFactor ---------------------------
(* One member at a time with a manager and a colleague, for TLC. *)
EXTENDS SecondFactor

const_Identifiers == {"password", "code"}
=============================================================================
