-------------------------- MODULE MCManifestDeploy --------------------------
(* ManifestDeploy for TLC: two deployments that overlap.                   *)
EXTENDS ManifestDeploy
=============================================================================
