---------------------------- MODULE MCScanLoops ----------------------------
(* Instances of ScanLoops for TLC.                                          *)
EXTENDS ScanLoops, TLC
=============================================================================
