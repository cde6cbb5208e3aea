--------------------------- MODULE MCProvisioning ---------------------------
(***************************************************************************)
(* The instance of Provisioning that TLC checks: the tables hold the flag  *)
(* that the program makes, items that the device needs to connect, and     *)
(* items that only describe it.                                            *)
(***************************************************************************)
EXTENDS Provisioning

CONSTANTS c1, c2  \* sets of credentials

MCDevItems    == <<"use_bootstrap", "device_certificate", "model_number">>
MCUpdateItems == <<"update_certificate", "vendor_id">>
=============================================================================
