----------------------------- MODULE UpdateCall -----------------------------
(***************************************************************************)
(* What the files in /scratch stand for: a call of the update manager by   *)
(* the installer.  It applies the payload of the call once and returns how *)
(* that ended.  A reboot, or a kill of the installer, abandons the call    *)
(* that is under way; from then on files of an earlier call may be taken   *)
(* for those of a later one, and only that no call returns twice is left.  *)
(***************************************************************************)
CONSTANTS Requests, None

VARIABLES request,   \* the call under way, or None
          applied,   \* how the update manager ended on each payload
          reported,  \* what each call has returned
          abandoned  \* a call has been abandoned

vars == <<request, applied, reported, abandoned>>

Init ==
  /\ request = None /\ abandoned = FALSE
  /\ applied = [r \in Requests |-> None] /\ reported = [r \in Requests |-> None]

Call(r) == /\ request = None /\ reported[r] = None
           /\ request' = r
           /\ UNCHANGED <<applied, reported, abandoned>>

\* The payload of the call is applied, for the first time.
Apply(s) == /\ request # None /\ applied[request] = None
            /\ applied' = [applied EXCEPT ![request] = s]
            /\ UNCHANGED <<request, reported, abandoned>>

\* The call returns how that ended.
Return == /\ request # None /\ applied[request] # None /\ reported[request] = None
          /\ reported' = [reported EXCEPT ![request] = IF applied[request] = 0 THEN 0 ELSE 47]
          /\ request' = None
          /\ UNCHANGED <<applied, abandoned>>

Abandon == abandoned' = TRUE /\ request' = None /\ UNCHANGED <<applied, reported>>

\* From then on the daemon may apply the payload of an earlier call, or one
\* again, and a call may return the answer of another.
StaleApply(r, s) == /\ abandoned
                    /\ applied' = [applied EXCEPT ![r] = s]
                    /\ UNCHANGED <<request, reported, abandoned>>

StaleReturn(s) == /\ abandoned /\ request # None /\ reported[request] = None
                  /\ reported' = [reported EXCEPT ![request] = s]
                  /\ request' = None
                  /\ UNCHANGED <<applied, abandoned>>

Next ==
  \/ \E r \in Requests : Call(r)
  \/ \E s \in {0, 1} : Apply(s)
  \/ Return
  \/ Abandon
  \/ \E r \in Requests, s \in {0, 1} : StaleApply(r, s)
  \/ \E s \in {0, 47} : StaleReturn(s)

Spec == Init /\ [][Next]_vars
=============================================================================
