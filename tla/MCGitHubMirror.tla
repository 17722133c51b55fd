---------------------------- MODULE MCGitHubMirror ----------------------------
(* The finite instance of GitHubMirror: no symmetry, liveness is checked.   *)
EXTENDS GitHubMirror
=============================================================================
