---------------------------- MODULE MCScanVerdict ----------------------------
(***************************************************************************)
(* Instances of ScanVerdict for TLC: APKs of two packages and two signers, *)
(* the one of the other package signed by both, one that nobody signed,    *)
(* one that cannot be read, one for each refused signature, and a file of  *)
(* another format, with the wrong header, that a single engine detects.    *)
(***************************************************************************)
EXTENDS ScanVerdict
CONSTANTS p1, p2, c1, c2, e1, e2

Good == [format |-> "apk", magic |-> TRUE, readable |-> TRUE, package |-> p1,
         certificates |-> {c1}, signature |-> "unsigned", detectedBy |-> {}]

MCFiles ==
  {Good, [Good EXCEPT !.package = p2, !.certificates = {c1, c2}],
   [Good EXCEPT !.certificates = {c2}], [Good EXCEPT !.certificates = {}],
   [Good EXCEPT !.readable = FALSE],
   [Good EXCEPT !.format = "exe", !.signature = "untrusted"],
   [Good EXCEPT !.format = "msi", !.signature = "tampered"],
   [Good EXCEPT !.format = "other", !.magic = FALSE, !.detectedBy = {e1}]}
=============================================================================
