---------------------------- MODULE MCUploadIntake ----------------------------
(* Finite instances of UploadIntake.                                        *)
EXTENDS UploadIntake, TLC

(* Requests and archives are interchangeable.                               *)
Symmetry == Permutations(Sessions) \cup Permutations(Contents)
=============================================================================
