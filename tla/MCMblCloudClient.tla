-------------------------- MODULE MCMblCloudClient --------------------------
(***************************************************************************)
(* The instance of MblCloudClient that TLC checks.                         *)
(***************************************************************************)
EXTENDS MblCloudClient
=============================================================================
