-------------------------- MODULE MCGschemActions --------------------------
(* Small instances of GschemActions for TLC.                               *)
EXTENDS GschemActions, TLC

Symmetry == Permutations(Objects)
=============================================================================
