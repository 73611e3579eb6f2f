----------------------------- MODULE MCObserver -----------------------------
(* Instances of Observer for TLC.                                           *)
EXTENDS Observer, TLC

Symmetry == Permutations(Names) \cup Permutations(Stamps)
=============================================================================
