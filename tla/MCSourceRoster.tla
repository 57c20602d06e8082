----------------------------- MODULE MCSourceRoster -----------------------------
(* Three processes write the roster at once, and power is lost up to       *)
(* twice.                                                                  *)
EXTENDS SourceRoster, TLC

CONSTANTS w1, w2, w3, n1, n2, n3

Symmetry == Permutations(Writers) \cup Permutations(Names)
=============================================================================
