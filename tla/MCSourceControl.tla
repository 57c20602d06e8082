---------------------------- MODULE MCSourceControl ----------------------------
(* Model checking of SourceControl with a few concurrent requests.         *)
EXTENDS SourceControl, TLC

CONSTANTS j1, j2, j3, main, pump
=============================================================================
