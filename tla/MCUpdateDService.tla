-------------------------- MODULE MCUpdateDService --------------------------
(***************************************************************************)
(* The instance of UpdateDService that TLC checks: two daemons, of which   *)
(* one may be started with any option; two clients that start updates, one *)
(* with a relative path, and one that asks for the status or is called     *)
(* wrongly.                                                                *)
(***************************************************************************)
EXTENDS UpdateDService

CONSTANTS d1, d2, c1, c2, c3, f, h1, h2

MCDaemonLines ==
  (d1 :> {<<<<"--log-level=", "WARNING">>, <<"-h">>>>, <<<<"-l", "LOUD">>>>,
          <<<<"--log-level">>, <<"word">>>>, <<<<"word">>>>, <<<<"-h">>>>, <<<<"-x">>>>,
          <<<<"--unknown">>>>})
  @@ (d2 :> {<<>>})

Send(p, h) == <<<<"-p", <<f, p>>>>, <<"-u", h>>>>

MCClientLines ==
  (c1 :> {Send("absolute", h1)}) @@ (c2 :> {Send("relative", h2)})
  @@ (c3 :> {<<>>, <<<<"-u", h1>>>>, <<<<"-p", <<f, "absolute">>>>>>, <<<<"-h">>>>, <<<<"-x">>>>,
             <<<<"--unknown">>>>})
=============================================================================
