------------------------- MODULE MCVersionLifecycle -------------------------
(* Finite instances of VersionLifecycle.                                    *)
EXTENDS VersionLifecycle, TLC

(* Requests, workers and manifests are interchangeable.                     *)
Symmetry == Permutations(Sessions) \cup Permutations(Workers)
            \cup Permutations(Manifests)
=============================================================================
