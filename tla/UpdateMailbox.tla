--------------------------- MODULE UpdateMailbox ---------------------------
(***************************************************************************)
(* What UpdateD promises the delivery mechanism that sends it updates: it  *)
(* is a mailbox with room for one request.  A request that arrives while   *)
(* another is waiting replaces it, a waiting request is eventually handed  *)
(* to swupdate, and the death of the daemon loses the waiting request.     *)
(* UpdateD.tla is shown to implement this specification.                   *)
(***************************************************************************)
EXTENDS Sequences

CONSTANTS Requests,  \* the StartUpdate requests
          None       \* no request

VARIABLES slot,      \* the waiting request, or None
          delivered  \* the requests handed to swupdate, oldest first

mailboxVars == <<slot, delivered>>

Init == slot = None /\ delivered = <<>>

\* A request arrives, whether or not another one is waiting.
Put(r) == /\ slot' = r
          /\ UNCHANGED delivered

\* The waiting request is handed to swupdate.
Deliver == /\ slot # None
           /\ delivered' = Append(delivered, slot)
           /\ slot' = None

\* The daemon dies: the mailbox lives in its memory only.
Lose == /\ slot' = None
        /\ UNCHANGED delivered

Next == \/ \E r \in Requests : Put(r)
        \/ Deliver
        \/ Lose

SafeSpec == Init /\ [][Next]_mailboxVars

Spec == SafeSpec /\ WF_mailboxVars(Deliver)

============================================================================
