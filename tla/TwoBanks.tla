------------------------------ MODULE TwoBanks ------------------------------
(***************************************************************************)
(* What the activation of a firmware update promises about the root file   *)
(* system, without the banks, the flag file and the steps of the script:   *)
(* the device runs one system and has one for the next boot; they are the  *)
(* same until an update that was asked for is staged, as a whole and in    *)
(* one step; and only a boot changes what runs.                            *)
(***************************************************************************)
CONSTANTS Updates, Factory, Corrupt, None

VARIABLES running,  \* the root file system the device runs from
          next,     \* the one it comes up from when it boots
          waiting,  \* an update waits for a reboot
          asked,    \* the update that was asked for last, since the boot
          failed    \* the storage has failed to take an image

vars == <<running, next, waiting, asked, failed>>

Init == running = Factory /\ next = Factory /\ waiting = FALSE /\ asked = None /\ failed = FALSE

Ask(u) == asked' = u /\ UNCHANGED <<running, next, waiting, failed>>

\* The update is there for the next boot.  Once the storage has failed it may be
\* incomplete: see SuccessMeansInstalled of FirmwareActivate.
Stage ==
  /\ asked # None
  /\ next' = asked \/ (failed /\ next' = Corrupt)
  /\ waiting' = TRUE
  /\ UNCHANGED <<running, asked, failed>>

\* An update that waits for its reboot is written over by another.
Spoil == waiting /\ next' = Corrupt /\ UNCHANGED <<running, waiting, asked, failed>>

Fail == failed' = TRUE /\ UNCHANGED <<running, next, waiting, asked>>

Boot == running' = next /\ waiting' = FALSE /\ asked' = None /\ UNCHANGED <<next, failed>>

Next == (\E u \in Updates : Ask(u)) \/ Stage \/ Spoil \/ Fail \/ Boot

Spec == Init /\ [][Next]_vars
=============================================================================
