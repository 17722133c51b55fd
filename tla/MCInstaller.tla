----------------------------- MODULE MCInstaller ------------------------------
(* Finite instances of Installer.                                           *)
EXTENDS Installer, TLC

(* Versions, edits and backup paths are interchangeable.                    *)
Symmetry == Permutations(Versions) \cup Permutations(Edits) \cup Permutations(Paths)
=============================================================================
