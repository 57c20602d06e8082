---------------------------- MODULE MCPreviewOutput ----------------------------
(* One thread that starts and stops the preview, the pump, and three       *)
(* children so that a crash and a restart can follow one another.          *)
EXTENDS PreviewOutput, TLC

CONSTANTS owner, pump, p1, p2, p3

ChildSymmetry == Permutations(Children)
=============================================================================
