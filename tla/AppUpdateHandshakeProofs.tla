---------------------- MODULE AppUpdateHandshakeProofs ----------------------
(***************************************************************************)
(* Proofs about the handshake between apps_installer.sh and the daemon of  *)
(* the application update manager, for any set of requests and any number  *)
(* of reboots and kills of either script.                                  *)
(***************************************************************************)
EXTENDS AppUpdateHandshake, TLAPS

USE HandshakeAssumption

----------------------------------------------------------------------------
(* Type correctness.                                                       *)

\* The installer serves a request exactly while it runs.
ServesInv == IF inst = "idle" THEN request = None ELSE request \in Requests

\* A step of a script, a kill or a reboot keeps every variable in its type; the
\* installer can only report on a request that it serves.
LEMMA TypeStep == TypeOK /\ ServesInv /\ [Next]_vars => TypeOK' /\ ServesInv'
<1> SUFFICES ASSUME TypeOK, ServesInv, [Next]_vars PROVE TypeOK' /\ ServesInv'
  OBVIOUS
<1> USE DEF TypeOK, ServesInv, InstStates, DaemonStates, files, history, bounds
<1>1. ASSUME NEW r \in Requests, WriteFirmwarePath(r) PROVE TypeOK' /\ ServesInv'
  BY <1>1 DEF WriteFirmwarePath
<1>2. CASE TouchDoAppUpdate
  BY <1>2 DEF TouchDoAppUpdate
<1>3. CASE SeeDone
  BY <1>3 DEF SeeDone
<1>4. CASE RemoveDone
  BY <1>4 DEF RemoveDone
<1>5. CASE ReadRc
  BY <1>5 DEF ReadRc
<1>6. CASE SeeDo
  BY <1>6 DEF SeeDo
<1>7. CASE RemoveDo
  BY <1>7 DEF RemoveDo
<1>8. CASE RunUpdateManager
  BY <1>8 DEF RunUpdateManager
<1>9. CASE WriteRc
  BY <1>9 DEF WriteRc
<1>10. CASE RemoveFirmwarePath
  BY <1>10 DEF RemoveFirmwarePath
<1>11. CASE TouchDone
  BY <1>11 DEF TouchDone
<1>12. CASE Reboot
  BY <1>12 DEF Reboot
<1>13. CASE KillDaemon
  BY <1>13 DEF KillDaemon
<1>14. CASE KillInstaller
  BY <1>14 DEF KillInstaller
<1>15. CASE UNCHANGED vars
  BY <1>15 DEF vars
<1> QED BY <1>1, <1>2, <1>3, <1>4, <1>5, <1>6, <1>7,
           <1>8, <1>9, <1>10, <1>11, <1>12, <1>13, <1>14, <1>15 DEF Next, Installer, Daemon

----------------------------------------------------------------------------
(* The inductive invariant.                                                *)

\* No file of the handshake exists.
NoFiles == /\ firmware_path = None /\ app_update_rc = None
           /\ ~do_app_update /\ ~done_app_update

\* The answer to the request that the installer serves is in app_update_rc.
Answered == /\ firmware_path = None /\ ~do_app_update /\ daemon = "poll"
            /\ app_update_rc # None /\ app_update_rc = applied[request]

\* The files belong to the request that the installer serves, and say how far the
\* daemon has come with it.  A daemon that was killed after it had removed
\* do_app_update has left the installer waiting for ever, with whatever it had
\* written: then no done_app_update comes.
WaitInv ==
  /\ do_app_update => /\ daemon \in {"poll", "rmdo"}
                      /\ firmware_path = request /\ app_update_rc = None
  /\ done_app_update => Answered
  /\ daemon = "rmdo" => do_app_update
  /\ daemon = "run" => firmware_path = request /\ app_update_rc = None
  /\ daemon = "rc" => firmware_path = request /\ status = applied[request]
  /\ daemon = "rmpath" => firmware_path = request /\ app_update_rc = applied[request]
  /\ daemon \in {"rmpath", "done"} => app_update_rc # None /\ app_update_rc = applied[request]
  /\ daemon = "done" => firmware_path = None

\* Undisturbed, where the installer is determines what files there are.
FilesInv ==
  Undisturbed =>
    /\ inst = "idle" => NoFiles /\ daemon = "poll"
    /\ inst = "touch" => /\ firmware_path = request /\ app_update_rc = None
                         /\ ~do_app_update /\ ~done_app_update /\ daemon = "poll"
    /\ inst = "wait" => WaitInv
    /\ inst = "rmdone" => Answered
    /\ inst = "readrc" => Answered /\ ~done_app_update

\* A request is reported on when its installer ends, and not before.
ReportInv == inst # "idle" => reported[request] = None

\* Undisturbed, nothing is applied to a request before the daemon has seen it.
PendingInv ==
  Undisturbed =>
    /\ inst = "touch" => applied[request] = None
    /\ inst = "wait" /\ (do_app_update \/ daemon \in {"rmdo", "run"}) => applied[request] = None

IInv == /\ TypeOK /\ ServesInv
        /\ ReportInv /\ PendingInv
        /\ FilesInv
        /\ ReportsOwnResult

\* The invariant holds when the device is first started.
LEMMA InitIInv == Init => IInv
<1> SUFFICES ASSUME Init PROVE IInv
  OBVIOUS
<1>1. applied \in [Requests -> {0, 1, None}] /\ reported \in [Requests -> {0, 47, None}]
  BY DEF Init
<1>2. reboots \in 0..MaxReboots /\ aborts \in 0..MaxAborts /\ kills \in 0..MaxKills
  BY DEF Init
<1>3. TypeOK
  BY <1>1, <1>2 DEF Init, TypeOK, InstStates, DaemonStates
<1>4. ServesInv /\ ReportInv /\ PendingInv /\ FilesInv
  BY DEF Init, ServesInv, ReportInv, PendingInv, FilesInv, NoFiles
<1>5. ReportsOwnResult
  BY DEF Init, ReportsOwnResult
<1> QED BY <1>3, <1>4, <1>5 DEF IInv

\* Every step keeps it.
LEMMA StepIInv == IInv /\ [Next]_vars => IInv'
<1> SUFFICES ASSUME IInv, [Next]_vars PROVE IInv'
  OBVIOUS
<1>0. TypeOK' /\ ServesInv'
  BY TypeStep DEF IInv
<1> USE <1>0 DEF IInv, TypeOK, ServesInv, ReportInv, PendingInv, FilesInv, WaitInv, NoFiles, Answered,
        Undisturbed, ReportsOwnResult, InstStates, DaemonStates, files, history, bounds
<1>1. ASSUME NEW r \in Requests, WriteFirmwarePath(r) PROVE IInv'
  BY <1>1 DEF WriteFirmwarePath
<1>2. CASE TouchDoAppUpdate
  BY <1>2 DEF TouchDoAppUpdate
<1>3. CASE SeeDone
  BY <1>3 DEF SeeDone
<1>4. CASE RemoveDone
  BY <1>4 DEF RemoveDone
<1>5. CASE ReadRc
  BY <1>5 DEF ReadRc
<1>6. CASE SeeDo
  BY <1>6 DEF SeeDo
<1>7. CASE RemoveDo
  BY <1>7 DEF RemoveDo
<1>8. CASE RunUpdateManager
  BY <1>8 DEF RunUpdateManager
<1>9. CASE WriteRc
  BY <1>9 DEF WriteRc
<1>10. CASE RemoveFirmwarePath
  BY <1>10 DEF RemoveFirmwarePath
<1>11. CASE TouchDone
  BY <1>11 DEF TouchDone
<1>12. CASE Reboot
  BY <1>12 DEF Reboot
<1>13. CASE KillDaemon
  BY <1>13 DEF KillDaemon
<1>14. CASE KillInstaller
  BY <1>14 DEF KillInstaller
<1>15. CASE UNCHANGED vars
  BY <1>15 DEF vars
<1> QED BY <1>1, <1>2, <1>3, <1>4, <1>5, <1>6, <1>7, <1>8, <1>9, <1>10, <1>11, <1>12,
           <1>13, <1>14, <1>15 DEF Next, Installer, Daemon

LEMMA Invariance == Spec => []IInv
<1> QED BY InitIInv, StepIInv, PTL DEF Spec

----------------------------------------------------------------------------
(* The steps of the scripts as steps of UpdateCall.                        *)

\* A step that leaves the call and the history alone does nothing there.
LEMMA NotInCall ==
  ASSUME UNCHANGED <<request, applied, reported, reboots, aborts>>
  PROVE  UNCHANGED Calling!vars
  BY DEF Calling!vars, Undisturbed

\* The daemon applies the payload of the request that the installer serves, for the
\* first time, unless an installer was cut off.
LEMMA ApplyStep ==
  ASSUME IInv, RunUpdateManager
  PROVE  Calling!Next \/ UNCHANGED Calling!vars
<1>1. UNCHANGED <<request, reported, reboots, aborts>> /\ daemon = "run"
  BY DEF RunUpdateManager, bounds
<1>2. CASE firmware_path = None
  BY <1>1, <1>2, NotInCall DEF RunUpdateManager
<1>3. CASE firmware_path # None
  <2>1. PICK s \in {0, 1} : applied' = [applied EXCEPT ![firmware_path] = s]
    BY <1>3 DEF RunUpdateManager
  <2>2. firmware_path \in Requests
    BY <1>3 DEF IInv, TypeOK
  <2>3. CASE ~Undisturbed
    <3>1. Calling!StaleApply(firmware_path, s)
      BY <1>1, <2>1, <2>3 DEF Calling!StaleApply, Undisturbed
    <3> QED BY <2>2, <3>1 DEF Calling!Next
  <2>4. CASE Undisturbed
    <3>1. inst = "wait"
      BY <1>1, <2>4 DEF IInv, FilesInv, Answered, TypeOK, InstStates
    <3>2. firmware_path = request /\ applied[request] = None /\ request # None
      BY <1>1, <1>3, <2>4, <3>1 DEF IInv, FilesInv, WaitInv, PendingInv
    <3>3. Calling!Apply(s)
      BY <1>1, <2>1, <3>2 DEF Calling!Apply, Undisturbed
    <3> QED BY <3>3 DEF Calling!Next
  <2> QED BY <2>3, <2>4
<1> QED BY <1>2, <1>3

\* The installer returns how that ended, and has not returned before.
LEMMA ReturnStep ==
  ASSUME IInv, ReadRc
  PROVE  Calling!Next
<1>1. /\ UNCHANGED <<applied, reboots, aborts>> /\ inst = "readrc" /\ request' = None
      /\ reported' = [reported EXCEPT ![request] = IF app_update_rc = 1 THEN 47 ELSE 0]
  BY DEF ReadRc, bounds
<1>2. request # None /\ reported[request] = None
  BY <1>1 DEF IInv, ServesInv, ReportInv
<1>3. CASE ~Undisturbed
  <2>1. PICK s \in {0, 47} : reported' = [reported EXCEPT ![request] = s]
    BY <1>1
  <2>2. Calling!StaleReturn(s)
    BY <1>1, <1>2, <1>3, <2>1 DEF Calling!StaleReturn, Undisturbed
  <2> QED BY <2>2 DEF Calling!Next
<1>4. CASE Undisturbed
  <2>1. app_update_rc = applied[request] /\ app_update_rc \in {0, 1}
    BY <1>1, <1>4 DEF IInv, TypeOK, FilesInv, Answered
  <2>2. applied[request] # None
    BY <2>1
  <2>3. (IF app_update_rc = 1 THEN 47 ELSE 0) = IF applied[request] = 0 THEN 0 ELSE 47
    BY <2>1
  <2>4. Calling!Return
    BY <1>1, <1>2, <2>2, <2>3 DEF Calling!Return, Undisturbed
  <2> QED BY <2>4 DEF Calling!Next
<1> QED BY <1>3, <1>4

\* Each step is a step of UpdateCall or leaves its variables alone.
LEMMA CallStep == IInv /\ [Next]_vars => [Calling!Next]_(Calling!vars)
<1> SUFFICES ASSUME IInv, [Next]_vars PROVE Calling!Next \/ UNCHANGED Calling!vars
  OBVIOUS
<1>1. ASSUME NEW r \in Requests, WriteFirmwarePath(r) PROVE Calling!Next
  <2>1. Calling!Call(r)
    BY <1>1 DEF WriteFirmwarePath, history, bounds, IInv, ServesInv, Calling!Call, Undisturbed
  <2> QED BY <2>1 DEF Calling!Next
<1>2. CASE TouchDoAppUpdate \/ SeeDone \/ RemoveDone
  BY <1>2, NotInCall DEF TouchDoAppUpdate, SeeDone, RemoveDone, history, bounds
<1>3. CASE SeeDo \/ RemoveDo \/ WriteRc \/ RemoveFirmwarePath \/ TouchDone \/ KillDaemon
  BY <1>3, NotInCall DEF SeeDo, RemoveDo, WriteRc, RemoveFirmwarePath, TouchDone, KillDaemon,
     history, bounds
<1>4. CASE Reboot \/ KillInstaller
  <2>1. (~Undisturbed)' = TRUE
    BY <1>4 DEF Reboot, KillInstaller, Undisturbed, IInv, TypeOK
  <2>2. Calling!Abandon
    BY <1>4, <2>1 DEF Reboot, KillInstaller, history, Calling!Abandon
  <2> QED BY <2>2 DEF Calling!Next
<1>5. CASE UNCHANGED vars
  BY <1>5, NotInCall DEF vars
<1> QED BY <1>1, <1>2, <1>3, <1>4, <1>5, ApplyStep, ReturnStep DEF Next, Installer, Daemon

----------------------------------------------------------------------------
(* The theorems.                                                           *)

\* Every variable of the two scripts and every file of the handshake keeps its type.
THEOREM TypeCorrect == Spec => []TypeOK
<1>1. IInv => TypeOK
  BY DEF IInv
<1> QED BY <1>1, Invariance, PTL

\* As long as no installer is cut off, apps_installer.sh reports exactly how the
\* update manager ended on the payload of its own request, for any number of
\* requests and of kills of the daemon.
THEOREM OwnResultReported == Spec => []ReportsOwnResult
<1>1. IInv => ReportsOwnResult
  BY DEF IInv
<1> QED BY <1>1, Invariance, PTL

\* Between requests no file of the handshake is left in /scratch, as long as no
\* installer is cut off.
THEOREM CleanBetweenRequests == Spec => []NothingLeftBehind
<1>1. IInv => NothingLeftBehind
  BY DEF IInv, FilesInv, NoFiles, NothingLeftBehind
<1> QED BY <1>1, Invariance, PTL

\* The two polling scripts and their four files implement a call that applies its
\* payload once and returns how that ended, until an installer is cut off; and no
\* request is ever reported on twice.
THEOREM ImplementsCall == Spec => CallsOnce
<1>1. Init => Calling!Init
  BY DEF Init, Calling!Init, Undisturbed
<1> QED BY <1>1, CallStep, Invariance, PTL DEF Spec, CallsOnce, Calling!Spec

=============================================================================
