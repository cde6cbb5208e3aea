------------------------- MODULE MCFirmwareActivate -------------------------
(***************************************************************************)
(* Instances of FirmwareActivate for TLC.                                  *)
(***************************************************************************)
EXTENDS FirmwareActivate

CONSTANTS u1, u2, u3

\* Every kind of component, with the root file system before the applications,
\* one of the root file system alone and one of the applications alone.
Packages == (u1 :> <<"WKS_BOOTLOADER1", "BOOT", "ROOTFS", "APPS">> @@ u2 :> <<"ROOTFS">>
             @@ u3 :> <<"APPS">>)

Mmc == <<"m">>

Parts3And5 == [bank1 |-> <<"3">>, bank2 |-> <<"5">>]
=============================================================================
