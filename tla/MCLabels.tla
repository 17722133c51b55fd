------------------------------- MODULE MCLabels -------------------------------
(* Finite instances of Labels.                                              *)
EXTENDS Labels, TLC

(* Requests, versions and label names are interchangeable.                  *)
Symmetry == Permutations(Sessions) \cup Permutations(Versions) \cup Permutations(Names)
=============================================================================
