------------------------- MODULE AppUpdateHandshake -------------------------
(***************************************************************************)
(* How swupdate's apps handler (apps_installer.sh) has the update manager  *)
(* run by its daemon (mbl-app-update-manager-daemon): two shell scripts    *)
(* that poll for files in one persistent directory, /scratch.  The         *)
(* installer writes firmware_path and touches do_app_update; the daemon    *)
(* answers with app_update_rc and done_app_update.  swupdate runs one      *)
(* installer at a time.  The device may be rebooted, which ends both; the  *)
(* installer may be killed; and the daemon may be killed, after which it   *)
(* is started again.                                                       *)
(***************************************************************************)
EXTENDS Naturals

CONSTANTS Requests,    \* invocations of apps_installer.sh, and their payloads
          None,        \* no file, no payload
          MaxReboots,  \* bound: reboots of the device
          MaxAborts,   \* bound: kills of the installer alone
          MaxKills     \* bound: kills of the daemon alone

ASSUME HandshakeAssumption == /\ None \notin Requests \cup {0, 1, 47}
                              /\ MaxReboots \in Nat
                              /\ MaxAborts \in Nat
                              /\ MaxKills \in Nat

VARIABLES
  firmware_path,    \* the payload named by the file, or None
  do_app_update,    \* the file exists
  done_app_update,  \* the file exists
  app_update_rc,    \* the exit code in the file, or None
  inst,             \* where the installer is
  request,          \* the request the installer serves
  daemon,           \* where the daemon is
  status,           \* $? of mbl-app-update-manager, in the daemon
  applied,          \* how the update manager ended on each payload
  reported,         \* the exit code of each request's installer
  reboots, aborts, kills

files   == <<firmware_path, do_app_update, done_app_update, app_update_rc>>
history == <<applied, reported>>
bounds  == <<reboots, aborts, kills>>
vars    == <<firmware_path, do_app_update, done_app_update, app_update_rc, inst, request,
             daemon, status, applied, reported, reboots, aborts, kills>>

InstStates   == {"idle", "touch", "wait", "rmdone", "readrc"}
DaemonStates == {"poll", "rmdo", "run", "rc", "rmpath", "done"}

TypeOK ==
  /\ firmware_path \in Requests \cup {None}
  /\ do_app_update \in BOOLEAN
  /\ done_app_update \in BOOLEAN
  /\ app_update_rc \in {0, 1, None}
  /\ inst \in InstStates
  /\ request \in Requests \cup {None}
  /\ daemon \in DaemonStates
  /\ status \in {0, 1}
  /\ applied \in [Requests -> {0, 1, None}]
  /\ reported \in [Requests -> {0, 47, None}]
  /\ reboots \in 0..MaxReboots
  /\ aborts \in 0..MaxAborts
  /\ kills \in 0..MaxKills

Init ==
  /\ firmware_path = None /\ app_update_rc = None
  /\ do_app_update = FALSE /\ done_app_update = FALSE
  /\ inst = "idle" /\ request = None
  /\ daemon = "poll" /\ status = 0
  /\ applied = [r \in Requests |-> None]
  /\ reported = [r \in Requests |-> None]
  /\ reboots = 0 /\ aborts = 0 /\ kills = 0

----------------------------------------------------------------------------
(* apps_installer.sh                                                       *)

\* The lua handler starts the installer, which names the payload.
WriteFirmwarePath(r) ==
  /\ inst = "idle" /\ reported[r] = None /\ applied[r] = None
  /\ inst' = "touch"
  /\ request' = r
  /\ firmware_path' = r
  /\ UNCHANGED <<do_app_update, done_app_update, app_update_rc, daemon, status, history, bounds>>

TouchDoAppUpdate ==
  /\ inst = "touch"
  /\ inst' = "wait"
  /\ do_app_update' = TRUE
  /\ UNCHANGED <<firmware_path, done_app_update, app_update_rc, request, daemon, status,
                 history, bounds>>

\* Fault: the installer does not wait.
SeeDone_NoWait ==
  /\ inst = "wait"
  /\ inst' = "rmdone"
  /\ UNCHANGED <<files, request, daemon, status, history, bounds>>

\* The polling loop finds the file.
SeeDone ==
  /\ inst = "wait" /\ done_app_update
  /\ inst' = "rmdone"
  /\ UNCHANGED <<files, request, daemon, status, history, bounds>>

\* Fault: the file is not removed.
RemoveDone_Keep ==
  /\ inst = "rmdone"
  /\ inst' = "readrc"
  /\ UNCHANGED <<files, request, daemon, status, history, bounds>>

RemoveDone ==
  /\ inst = "rmdone"
  /\ inst' = "readrc"
  /\ done_app_update' = FALSE
  /\ UNCHANGED <<firmware_path, do_app_update, app_update_rc, request, daemon, status,
                 history, bounds>>

\* A missing file reads as the empty string, on which the test [ -ne 0 ] fails
\* too: only a non-zero number makes the installer exit with 47.
ReadRc ==
  /\ inst = "readrc"
  /\ inst' = "idle"
  /\ reported' = [reported EXCEPT ![request] = IF app_update_rc = 1 THEN 47 ELSE 0]
  /\ request' = None
  /\ app_update_rc' = None
  /\ UNCHANGED <<firmware_path, do_app_update, done_app_update, daemon, status, applied, bounds>>

----------------------------------------------------------------------------
(* mbl-app-update-manager-daemon                                           *)

\* wait_for_app_update_file finds the file ...
SeeDo ==
  /\ daemon = "poll" /\ do_app_update
  /\ daemon' = "rmdo"
  /\ UNCHANGED <<files, inst, request, status, history, bounds>>

\* Fault: the file is left in place.
RemoveDo_Keep ==
  /\ daemon = "rmdo"
  /\ daemon' = "run"
  /\ UNCHANGED <<files, inst, request, status, history, bounds>>

\* ... and removes it.
RemoveDo ==
  /\ daemon = "rmdo"
  /\ daemon' = "run"
  /\ do_app_update' = FALSE
  /\ UNCHANGED <<firmware_path, done_app_update, app_update_rc, inst, request, status,
                 history, bounds>>

\* The update manager runs on the payload that firmware_path names; without
\* the file it has no package to open and fails.
RunUpdateManager ==
  /\ daemon = "run"
  /\ daemon' = "rc"
  /\ IF firmware_path = None
     THEN status' = 1 /\ UNCHANGED applied
     ELSE /\ status' \in {0, 1}
          /\ applied' = [applied EXCEPT ![firmware_path] = status']
  /\ UNCHANGED <<files, inst, request, reported, bounds>>

WriteRc ==
  /\ daemon = "rc"
  /\ daemon' = "rmpath"
  /\ app_update_rc' = status
  /\ UNCHANGED <<firmware_path, do_app_update, done_app_update, inst, request, status,
                 history, bounds>>

RemoveFirmwarePath ==
  /\ daemon = "rmpath"
  /\ daemon' = "done"
  /\ firmware_path' = None
  /\ UNCHANGED <<do_app_update, done_app_update, app_update_rc, inst, request, status,
                 history, bounds>>

\* Fault: the daemon goes back to its loop without an answer.
TouchDone_Skip ==
  /\ daemon = "done"
  /\ daemon' = "poll"
  /\ UNCHANGED <<files, inst, request, status, history, bounds>>

TouchDone ==
  /\ daemon = "done"
  /\ daemon' = "poll"
  /\ done_app_update' = TRUE
  /\ UNCHANGED <<firmware_path, do_app_update, app_update_rc, inst, request, status,
                 history, bounds>>

----------------------------------------------------------------------------
(* Failures.                                                               *)

\* A reboot ends the installer, with swupdate, and the daemon; the files stay.
Reboot ==
  /\ reboots < MaxReboots
  /\ reboots' = reboots + 1
  /\ inst' = "idle" /\ request' = None
  /\ daemon' = "poll" /\ status' = 0
  /\ UNCHANGED <<files, history, aborts, kills>>

\* The installer dies, alone; the daemon goes on with what it was asked.
KillInstaller ==
  /\ aborts < MaxAborts
  /\ inst # "idle"
  /\ aborts' = aborts + 1
  /\ inst' = "idle" /\ request' = None
  /\ UNCHANGED <<files, daemon, status, history, reboots, kills>>

\* The daemon dies, alone, and is started again.
KillDaemon ==
  /\ kills < MaxKills
  /\ kills' = kills + 1
  /\ daemon' = "poll" /\ status' = 0
  /\ UNCHANGED <<files, inst, request, history, reboots, aborts>>

Installer == TouchDoAppUpdate \/ SeeDone \/ RemoveDone \/ ReadRc

Daemon == \/ SeeDo \/ RemoveDo \/ RunUpdateManager \/ WriteRc \/ RemoveFirmwarePath
          \/ TouchDone

Next == \/ \E r \in Requests : WriteFirmwarePath(r)
        \/ Installer
        \/ Daemon
        \/ Reboot
        \/ KillInstaller
        \/ KillDaemon

\* Both scripts are processes that keep polling, and the update manager ends.
Spec == Init /\ [][Next]_vars /\ WF_vars(Installer) /\ WF_vars(Daemon)

----------------------------------------------------------------------------
(* Properties.                                                             *)

\* No installer was ended before it had its answer.
Undisturbed == reboots = 0 /\ aborts = 0

\* As long as no installer was cut off, by a reboot or a kill, the installer reports
\* success exactly when the update manager succeeded on the payload of this very
\* request (SuccessMeansApplied below is the claim without this proviso).
ReportsOwnResult ==
  Undisturbed => \A r \in Requests : reported[r] # None =>
    /\ reported[r] = 0 <=> applied[r] = 0
    /\ reported[r] = 47 <=> applied[r] = 1

\* Between requests no file of the handshake is left that a later one could take for
\* its own, as long as no installer was cut off.
NothingLeftBehind ==
  inst = "idle" /\ Undisturbed =>
    /\ firmware_path = None /\ app_update_rc = None
    /\ ~do_app_update /\ ~done_app_update

\* Every installer ends, whatever files installers cut off left in /scratch, unless
\* the daemon is killed alone: the polling loop has no limit.
InstallerEnds == inst # "idle" ~> (inst = "idle" \/ kills > 0)

\* "Update the apps component. Exits on failure." (apps_installer.sh): an
\* installer that reports success has had its payload installed.
SuccessMeansApplied == \A r \in Requests : reported[r] = 0 => applied[r] = 0

\* Until an installer is cut off the files behave as a call: the daemon applies the
\* payload of the request once, never that of another, and the installer returns how
\* that ended; and no request is reported on twice, come what may.
Calling == INSTANCE UpdateCall WITH abandoned <- ~Undisturbed

CallsOnce == Calling!Spec

=============================================================================
