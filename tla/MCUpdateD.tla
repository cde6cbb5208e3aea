----------------------------- MODULE MCUpdateD -----------------------------
(***************************************************************************)
(* The instances of UpdateD that TLC checks.                               *)
(***************************************************************************)
EXTENDS UpdateD

CONSTANTS r1, r2, r3,  \* requests
          d1, d2       \* directories

============================================================================
