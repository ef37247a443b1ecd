--------------------------- MODULE MCCanonBackend ---------------------------
(* Instances of CanonBackend for TLC.                                       *)
EXTENDS CanonBackend, TLC
=============================================================================
