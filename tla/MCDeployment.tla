----------------------------- MODULE MCDeployment -----------------------------
(* Two releases, the second of which brings a migration.                   *)
EXTENDS Deployment
OneMigration == [r \in Releases |-> r]
=============================================================================
