------------------------------- MODULE MCScan -------------------------------
(* Instances of Scan for TLC.                                               *)
EXTENDS Scan, TLC

Symmetry == Permutations(Files) \cup Permutations(Stamps)
=============================================================================
