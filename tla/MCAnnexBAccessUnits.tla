-------------------------- MODULE MCAnnexBAccessUnits --------------------------
(* The parser on every stream of at most MaxInput bytes, cut into reads in *)
(* every way.                                                              *)
EXTENDS AnnexBAccessUnits
=============================================================================
