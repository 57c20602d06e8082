--------------------------- MODULE MCEncoderChannel ---------------------------
(* Model checking of EncoderChannel: clients, the pump and the thread that *)
(* shuts the runtime down.                                                 *)
EXTENDS EncoderChannel, TLC

CONSTANTS edge, viewer, pump, main, p1, p2, p3

ChildSymmetry == Permutations(Children)
=============================================================================
