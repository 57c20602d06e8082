----------------------- MODULE MCSubprocessEncoder -----------------------
(* Model checking of SubprocessEncoder: the owner of a channel and its     *)
(* pump share one encoder; the pump writes frames and also stops the       *)
(* encoder.                                                                *)
EXTENDS EncoderRefinement, TLC

CONSTANTS owner, other, pump, p1, p2, p3, p4

=============================================================================
