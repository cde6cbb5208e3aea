--------------------------- MODULE MCWatchdogInit ---------------------------
(***************************************************************************)
(* The instance of WatchdogInit that TLC checks: int has three bits, long  *)
(* as many or five; numbers at the edges of both, and every option.        *)
(***************************************************************************)
EXTENDS WatchdogInit

Words == {-1, 0, 1, 3, 4, 9, 16, Junk}
Used  == ({"--timeout"} \X Words) \cup ({"--device"} \X {"watchdog", "other"})
           \cup {<<"-t">>, <<"-x">>, <<"--unknown">>}

MCCommandLines == UNION {[1..n -> Used] : n \in 0..2}
MCCauses       == {{}, {"POWERUNDER"}, {"OVERHEAT", "FANFAULT"}}
=============================================================================
