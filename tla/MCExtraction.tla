---------------------------- MODULE MCExtraction ----------------------------
(* Instances of Extraction for TLC.                                         *)
EXTENDS Extraction, TLC

Symmetry == Permutations(Files)
=============================================================================
