---------------------------- MODULE MCAppUpdate ----------------------------
(***************************************************************************)
(* The instance of AppUpdate that TLC checks: packages of one and of two   *)
(* applications, and one that holds an application twice.                  *)
(***************************************************************************)
EXTENDS AppUpdate

CONSTANTS a1, a2  \* applications

TwoApps == {<<a1>>, <<a1, a2>>, <<a1, a1>>}

============================================================================
