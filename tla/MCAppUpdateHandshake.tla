------------------------ MODULE MCAppUpdateHandshake ------------------------
(***************************************************************************)
(* The instances of AppUpdateHandshake that TLC checks.                    *)
(***************************************************************************)
EXTENDS AppUpdateHandshake

CONSTANTS r1, r2, r3  \* requests

=============================================================================
