# A TLA+ development of mbl-core

mbl-core is the user space of Mbed Linux OS that keeps a device up to date: a
cloud client, an update daemon, the scripts and handlers that install firmware,
and the managers that install and run applications. This directory holds TLA+
models of the parts that change state, the TLC configurations that check them
on small instances, and proofs that TLAPS checks.

## The system: inventory

| Part | State it keeps | Operations | What is hard |
|---|---|---|---|
| `firmware-management/updated` | mutex, flag, header, hard link to the payload | RPCs `StartUpdate`, `GetUpdateHeader`; loop over `UpdateCoordinator::run`; SIGINT | gRPC threads against the main thread, condition variable, unlocked read, death of the process |
| `updated`: set-up, RPC server and the clients `updated-start-update`, `updated-get-status` | lock file, log level, connections | start, lock, serve, call | processes racing for the lock, lost replies, daemons that die in a call |
| `mbl-app-update-manager` | `/home/app/<name>/<version>`, the list of applications installed by this update | unpack, install, stop, run, remove, roll back | failure of any step for one of several applications, power cuts |
| `mbl-app-manager` | the same directories | `install_app`, `remove_app`, `get_app_name` | opkg may stop part way |
| `mbl-app-lifecycle-manager` | runC containers | run, run-all, terminate, kill | time-outs, applications that end by themselves, state that changes between two commands |
| `apps_installer.sh` and `mbl-app-update-manager-daemon` | four files in `/scratch` | a request and an answer by polling | files that outlive their process, no limit on the wait |
| `arm_update_activate.sh`, installers, `swupdate-handlers` | two rootfs banks, boot flag, boot and bootloader partitions, saved header, `do_not_reboot` | activation of an update, one component after the other | power cuts between steps, components that fail after others were installed, retry before the reboot |
| `mbl-firmware-update-manager` | temporary header and package | create the header, call the activation, reboot | as above |
| `mbl-cloud-client` | `s_instance`, registration state, signal flags, log stream | register, callbacks of the mbed event loop, shutdown, log reopen | callbacks against the destructor, signals, a timer, widths of integers |
| `cloud-provisioning` | keys and certificates in storage | provision a device, tell its status | partial failure, power cuts, the daemon starting meanwhile |
| `mbl-firmware-update-header-util` | none | pack and unpack the binary header | field limits |
| `mbl-watchdog-init` | the watchdog device | report the last boot, set the time-out | error paths with the watchdog running, widths of integers |

Interaction: the cloud client downloads a package and calls
`arm_update_activate.sh`, as an operator does through
`mbl-firmware-update-manager`. The script calls swupdate, which calls a handler
for each component. The handler of the applications reaches
`mbl-app-update-manager` through the file handshake, because the daemon has to
run outside swupdate. The update manager calls the application manager (opkg) and
the lifecycle manager (runC). At boot the lifecycle manager's `run-all` starts
what is on disk. `updated` is the successor of this path: it accepts requests by
gRPC and is to call swupdate itself; at this commit the call is a line in the log.

## Modules

| Module | Models |
|---|---|
| `UpdateD` | `UpdateCoordinator`, `ServiceImpl`, `PayloadHardLink`, the loop of `main()`, `sigint_handler` |
| `UpdateMailbox` | what `updated` promises: a mailbox of one place that a later request overwrites |
| `UpdateDService` | processes of `updated` from the command line over the lock to the RPC server, and both client programs |
| `AppManager` | outcomes of `install_app`, `remove_app`, `get_app_name`, and which directories count as bundles |
| `AppLifecycle` | outcomes of `run_app`, `terminate_app`, `kill_app` on a container |
| `AppUpdate` | the update manager step by step, with run-all, operator, applications and power cuts |
| `AppVersions` | what an application update promises about the versions that boot |
| `AppUpdateHandshake` | the two shell scripts that hand an application update over by files |
| `UpdateCall` | what the handshake promises: a call that returns once |
| `FirmwareActivate` | `arm_update_activate.sh`, the Lua and shell installers, `rootfsv4_handler` |
| `TwoBanks` | what an activation promises about the root file system: staged as a whole, in one step |
| `MblCloudClient` | `main()`, `MblCloudClient` with its handlers and its destructor, signals, update handlers, the broker's stub |
| `CloudClientLog` | `log.cpp`: the print handler of mbed-trace, SIGHUP and rotation |
| `MblError` | the error codes and the two switches over them |
| `Provisioning` | `pelion-provisioning-util` and the check of the key storage by the daemon |
| `WatchdogInit` | `mbl-watchdog-init`, the watchdog and the boot after it |
| `UpdateDProofs`, `UpdateDServiceProofs`, `AppUpdateProofs`, `AppUpdateHandshakeProofs`, `FirmwareActivateProofs`, `MblCloudClientProofs`, `ProvisioningProofs`, `WatchdogInitProofs` | theorems about the module of that name, with their proofs |
| `MC...` | the instances for TLC |

`MblCloudClient` extends `CloudClientLog` and `MblError`: the two threads share the
log as they share `*s_instance`, and `MblCloudClient`'s steps print through it.
`UpdateDService` serves a call in one step where `UpdateD` has its threads.
`AppUpdate` extends `AppLifecycle`, which extends `AppManager`. These two define,
for each operation of the libraries, the set of its outcomes: how it ends (a
return, or the exception by name) and what it leaves. A step of `AppUpdate` picks
one outcome and follows the `except` clauses of `manager.py`, so an exception that
no clause names ends the update, as in the code. `FirmwareActivate` takes the
result of the applications' installer as arbitrary; `AppUpdateHandshake` takes the
result of the update manager as arbitrary. Operators named `X_...` with a comment
"Fault:" are wrong versions of `X`; the project's mutation tests put them in X's
place and expect a property to fail.

Four modules are abstract specifications, each implemented by the module that
instantiates it, with the refinement both model-checked and proved:
`UpdateMailbox` by `UpdateD` (`MailboxSpec`), `AppVersions` by `AppUpdate`
(`BootsForward`), `UpdateCall` by `AppUpdateHandshake` (`CallsOnce`) and `TwoBanks` by
`FirmwareActivate` (`StagesWhole`).

### UpdateD

An element of `Requests` is one `StartUpdate` call on a gRPC thread and stands for
its header and its payload as well. `start()` is cut where another thread can see a
difference: lock (`StartLock`), the assignment of the header (`StartHeader`: a
reader without the mutex may see the old value, the new one or neither, `Torn`),
link (`StartLink`), flag and unlock, notification. `StartTerminate` is the end of
the process: `start()` is `noexcept` and asserts. `run()` is `RunLock`, `RunWait`,
`RunWake` or `SpuriousWake`, and `RunHandOff`. `links` is the file system:
`ReplaceLink` performs constructor and destructor in the order of
`payload_link = make_unique(...)`, new object first. `sigint` has a copy per
translation unit, because the header defines it `static`.

### AppUpdate

`dirs[a][v]` is what `/home/app/a/v` holds: nothing, something that is no OCI
bundle, something with a `config.json` that `json.load` raises on (empty, cut short or
no JSON: a power cut or a failure of opkg may leave it, and a package may bring it), an
incomplete tree that looks like a bundle, or a release. `get_oci_bundle_paths` has no
result where one version is unreadable, and its callers raise: run-all leaves the
application alone, an update ends. An empty parent directory, which a power cut between
the two calls of `rmtree` leaves, is not told apart from one that holds a partial
version: to the code both are a directory without a bundle. The phases are the
loops of `install_apps` and `start_installed_apps` and those of `_rollback_apps`.
`Crash` cuts the power: containers are gone, and run-all goes over the
applications. `run_app_from_parent_dir` runs the lowest version and removes the
others. An update and run-all, or an operator's command, do not overlap in the
model; that case is listed as a hazard. A record of `_installed_apps` has, besides the
new version and the lowest that was there (`cur`, as in the code), the version that was
in use when it was made (`used`, history), which is what a rollback should restore.

For `AppVersions` an application boots the lowest version that looks like a bundle
(`Lowest`), as `run_app_from_parent_dir` finds it; the phases up to the removal of
previous versions, rollback included, are one phase "trying", in which only
applications that had no version before may come to have one or lose it again. An
application with an unreadable version is `blocked`: a boot runs none of its versions.

### AppUpdateHandshake

One step per command that touches a file. `Reboot` ends both scripts and keeps the
files, since `/scratch` is persistent; `KillInstaller` and `KillDaemon` end one script
alone. Both scripts have the same directory. The daemon's is `/scratch`; the
installer's is `UPDATE_PAYLOAD_DIR`, whose default in `scripts/CMakeLists.txt` is `/tmp`
and which the build of a device has to set to `/scratch`: with two directories no
request is ever answered. A missing
`app_update_rc` reads as the empty string, for which `[ -ne 0 ]` is not true.

For `UpdateCall` the files and the places of the scripts disappear; what is left is the
request, how the update manager ended on each payload, and what the installers
returned. The abstract call knows whether an installer was cut off, by a reboot or a
kill (`abandoned`), because from then on the files of an earlier call may be taken for
those of a later one.

### FirmwareActivate

One step per change of the device. Each may fail where the code has an error path, and
`PowerCut` may come between any two. A write goes through `Corrupt`.
`find_target_partition` compares the end of the device path with the part numbers,
which are sequences of characters here; `ActivateAssumption` says that they differ and
that the path of the disk has no p. Where one number ends with the other, as 13 with 3,
the code may take one bank for the other, which nothing in it rules out:
`MountedBankKept` excepts exactly the case in which the mounted bank is taken for the
other, and the other properties are claimed for numbers that tell the banks apart
(`BanksDistinguished`, a hypothesis of the theorems; 3 and 5 in the runs).
`do_not_reboot` is in
`/tmp` and is gone after a boot. `ioError` and `rewrote` are history: a write of the
root file system failed, and a root file system was written to the bank that the flag
already selects. `skipped` is the partition information of the device and is chosen at
the start.

For `TwoBanks` the running system is the content of the mounted bank and the next one
that of the bank which the flag selects; an update waits for its reboot when that is
not the mounted bank. Opening the target, copying and setting the flag are then three
steps of which only the last shows. What the code leaves open shows as well: a failed
copy that returns 0 (`Fail`, and a corrupt `Stage` after it) and a second update
before the reboot, which goes to the bank the flag already selects (`Spoil`).

### UpdateDService

A daemon or a client is a process that runs once; a restart is another daemon.
`StartDaemon`, `OpenLock`, `TryLock`, `Initialise` and `create_grpc_server` are
`main()` of `updated` up to its loop, in the order of the code: the init system is
told before there is a server. The lock is on a file, not on a path: `inode` is the
file a daemon opened, `current` the one at the path, and `CleanTmp` makes them
differ. A command line is a sequence of options; the outcomes of `parse_args` include
the crash of a missing argument and the anything of a table without an end.
A call of `StartUpdate` is two steps: the assignment of the header, and the payload
link with what follows. Between them another client's `GetUpdateHeader`, which reads
without the mutex, may get the old header, the new one or neither (`Torn`). The link
ends the daemon for a payload that is gone, for a relative path, and where the
payload's file system refuses `remove_all`, `create_directories` or `create_hard_link`
(`broken`, which the environment changes at will), because `UpdateCoordinator::start`
is `noexcept` and asserts. `Deliver` brings the
reply or, when the daemon has died, `UNAVAILABLE`.

### MblCloudClient, CloudClientLog, MblError

`pc` walks through `main()` and `run()`, `loop` through the handler of an event. The
five handlers have the same shape (print, lock, test `s_instance`, use it, unlock) and
share those steps, which tell the events apart where the code does. The destructor's
three steps are three actions; `waits` says whether the library's functions wait for
the event being handled, which its comment leaves open, and both cases are checked.
A step that prints leaves its thread in a call of mbed-trace, whose print handler is
four steps, so that SIGHUP, rotation and the other thread come in between. Time
passes in `Tick`, where `run()` sleeps or waits for the library; `due` and `age` are
the seconds to the next registration and since the last. Products and casts keep
their width (`Word` stands for 2^32). The two switches of `MblError.cpp` are two tables
with a row per case, in the order of the code, over the numbers of the enumeration; that
they agree is a property (`ErrorsTold`), not part of the definitions.

### Provisioning

One step per call of KCM. `storage` gives for each item the set of credentials it
comes from; a run may fail at each call, and a power cut may come at each step.
`lost` counts the calls of `store` that did not come to their end since the last
success, and bounds what may be missing. The daemon's start is three steps of its own:
in a build in developer mode `fcc_developer_flow` stores built-in credentials where there
are none; `application_init_fcc` verifies that the required items are there; and
`cloud_client_setup` reads the items, one by one and in any order, while the tool may
run. `overlap` says that an item was touched between the first read and the last, or
that the reads began while a run was storing or after one that had failed.

### WatchdogInit

One step per option of the `getopt_long` loop (`ParseOption`, a later option overrides
an earlier one), one for the test of the time-out (`RequireTimeout`) and one per ioctl,
each of which may fail. A number on the command line is its
value, `strtol` clamps it to a long and the program narrows it to an int, with widths
scaled down to a few bits and a long either wider than an int or as wide. The argument
of `WDIOC_SETTIMEOUT` is in and out: the driver may round or clamp it, so `limit` becomes
any value that the driver supports, `asked` is what it was asked for, and the program
looks at neither. The driver
is built with nowayout, so that closing the file does not stop the watchdog.

## Runs

Passing runs. Each property has a mutant of the code's model that breaks it. `TypeOK`
says what the variables hold; no run is spent on it, since the proofs below have it for
every instance; in `UpdateDService`, which reads a client's command line with a fold, it
is documentation.

| Run | Instance | Shows |
|---|---|---|
| `updated_safety` | 3 requests, 2 directories, 1 kill | `MutexInv`, `FlagInv` (the assertion in `run()`), `HandOffMatchesHeader`, `LinkExistsUnlessShared`, `NoLeakedLink`, `HandedOffOnce`; refinement of the mailbox with liveness (`MailboxSpec`) |
| `updated_service` | 2 daemons, 3 clients, 1 payload, 1 cleaning of `/tmp` (`MaxCleans`) | `OneInstancePerLockFile`, `ExitZeroMeansAccepted`, `StatusNotStale`, `RequestKills`, `ClientsEnd` |
| `appupdate_safety` | 2 applications, packages of one, two and twice the same application, 3 versions, 3 ipks over all updates (`MaxIpks`), 1 power cut (`MaxCrashes`) | `SuccessInstalls`, `RollbackRestores`, `CleanUpRestores`, `BootVersionKept`, `RemovesIdleOnly`, `UpdateEnds`; refinement of the versions that boot (`BootsForward`) |
| `handshake_safety` | 3 requests, 2 reboots (`MaxReboots`), 1 kill of the installer (`MaxAborts`) and 1 of the daemon (`MaxKills`) | `ReportsOwnResult`, `NothingLeftBehind`, `InstallerEnds`; refinement of the call (`CallsOnce`) |
| `activate_safety` | 3 packages, 3 activations, 2 power cuts, with and without `WKS_BOOTLOADER_FS` | `MountedBankKept`, `NextBootBankSound`, `RebootWhenNeeded`, `SuccessInstalls`; refinement of the two banks (`StagesWhole`) |
| `cloudclient_safety` | a lifetime of 4 s, delays of 1 s (`MaxDelay`), every event, any number of signals and rotations | `NoUseAfterDelete`, `StateFollowsEvents`, `RegistrationKept`, `LinesReachNewFile`, `PercentSound`, `ErrorsTold`, `ShutdownEnds` |
| `provisioning_safety` | tables of 4 and 2 items, 2 sets of credentials, 2 runs (`MaxRuns`), 1 power cut (`MaxCuts`) | `SuccessMeansStored`, `FewItemsLost`, `DaemonUsesOneSet` |
| `watchdog_safety` | command lines of up to 2 options, int of 3 bits, long of 3 or 5 | `TimeoutAsAsked`, `FailedRootfsReboots` |

Violations: each states what a document or comment says and TLC shows a behaviour
of the code that does otherwise.

| Run | Claim | What the code does |
|---|---|---|
| `updated_link` | `payload.h`, `updated.cpp`: the link is kept until it is handed over | two payloads in one directory: the destructor of the old link removes the new one |
| `updated_sigint` | `handlers.h`: SIGINT causes a clean shutdown | the loop reads another copy of the variable |
| `handshake_stale` | `apps_installer.sh`: exits on failure | a `done_app_update` left by a reboot is taken for the answer |
| `activate_success` | README: 0 means firmware correctly installed | a failed `copyimage` returns 0, because the assignment of -1 follows the `goto` |

Known divergences without a run, which the properties excuse by name and do not hide:

* `GetUpdateHeader` answers with the header of the last request, applied or not, and
  possibly torn, where `ServiceImpl.h` says that of the most recent successful update.
  `StatusNotStale` says what the code does give.
* A request ends the daemon when the file system of its payload is full or read-only,
  as when its path is relative or the payload gone (`RequestKills`).
* A `config.json` that a power cut or a failed opkg leaves empty or cut short makes
  `json.load` raise in `get_oci_bundle_paths`. The old version is intact, and still
  neither run-all nor another update finds it, nor does the clean-up of an update
  (`BootVersionKept` and `BootsForward` have this as their only exception).
* Of an application left with several versions the record has the lowest, which need
  not be the one in use; a rollback then starts the lowest (`RollbackRestores`, last
  conjunct). A rollback also starts an application that was not in use.
* A version of an application that an interrupted update left on disk may lie below the
  one just installed; the next boot then runs it and deletes the new one.
* When a new version fails to run because its container exists already, or its state
  cannot be read, there is no rollback, since the loop names other exceptions.
* A second rootfs update before the reboot goes to the bank that the flag selects
  (`rewrote` in `NextBootBankSound`, `Spoil` in `TwoBanks`).
* A kill of `apps_installer.sh` alone leaves files to the next installer as a reboot does.
* A daemon that reads the key storage while the tool replaces items may have credentials
  of two sets (`overlap` in `DaemonUsesOneSet`).
* A SIGHUP between `fopen` and the reset of `g_log_need_reopen` is lost, which
  `LinesReachNewFile` excuses.

Bounds. Two applications are enough for one to fail after the other was handled; three
versions for an old, a left-over and a new one; three ipks for an update of both
applications after an interrupted one, or for three updates of one. One power cut leaves
every intermediate state of an update to the ones after it, which errors may end early
as well. Three requests are enough for one to be delivered, one superseded and one
waiting. Three activations let a failed one be followed by a retry and by another
update. Two reboots let the request after a stale answer leave one of its own, and one
kill of the installer meets every place of the daemon. Two daemons are enough for a race
and for a restart; the first may be started with any option. A lifetime of four seconds
has a period of two, in which a delayed iteration still fits (`ClientAssumption`). In
`Provisioning` a table of several items is enough for a failure at the first, in the
middle and at the last; a second run stores over what the first left. `CHECK_DEADLOCK
FALSE` stands only where requests, activations or processes are bounded and the system
then rests with nothing to do.

Fairness. `UpdateD`: weak fairness of the main thread's steps and of the steps of a call
in progress (threads of a running process get scheduled), none for clients, crashes,
spurious wake-ups and signals. A mutex that is passed on for ever past one thread is not
considered: each call takes it once and calls are finite. `AppUpdate`: the manager is a
sequential process whose commands return. `AppUpdateHandshake`: both scripts keep
polling, and the update manager ends. `FirmwareActivate` has no liveness property.
`UpdateDService`: daemons, with each handler of a call, and clients that can take a step
are scheduled; nothing is assumed of kills, starts and the environment.
`MblCloudClient`: both threads are scheduled and time passes; the threads have strong
fairness, because each takes the mutexes again and again and a waiting thread is assumed
to get one in the end. `Provisioning` has no liveness property. `WatchdogInit`: the
program and the watchdog run; a reboot for another reason need not come.

## Proofs

Each component's theorems are in a module of its own. They hold for every value of
the constants that satisfies the module's assumption: any number of requests,
daemons, clients, applications, versions, packages, table items, power cuts and
kills. Every safety property of the passing runs, and the safety part of every
refinement, is stated by a theorem; the run shows it on a small instance, and that the
case it is about happens.

None of the invariants is inductive alone. Each module defines `IInv`, which joins the
properties with what their proofs need, and proves that `Init` implies it, that each
action preserves it (a lemma per action or per kind of action) and that it implies the
property. All parts of `IInv` were model-checked before they were proved.

### UpdateDProofs

`TypeCorrect`, `MutualExclusion`, `FlagAgreesWithLink`, `PayloadAndHeaderAgree`,
`LinkKept`, `LinksCleanedUp`, `AtMostOneHandOff`, and `ImplementsMailbox` (initial
states map to initial states, each step to a step of the mailbox or a stutter). The
assumptions, `ConstantsAssumption` and `MainAssumption`, say that the special values
differ from the requests and from each other. Added to the properties:

* `HeaderInv`: a call past the assignment of the header and inside the critical
  section owns the header, and owns the link once that is made; and unless a call is
  between the two, the header is that of the waiting request. This carries
  `HandOffMatchesHeader` across the unlock.
* `PendingInv`: the waiting request has been linked by its call, and its directory
  holds nothing left by a dead process.
* `DeliveredInv`: a request that was handed over has left the critical section and
  is not the one that waits, so the hand-over never repeats an earlier one.

### UpdateDServiceProofs

`LockFileExcludes`, `ExitZeroSound`, `StatusFresh`, `OnlyBadRequestsKill`; the last
three are about steps. `LockInv` says that a daemon from its lock on has one of the
lock files there have been, so that a new file is nobody's. `HeaderInv` is what
`StatusFresh` rests on: with a single lock file the daemon that has a HEADER is the one
that assigned the last, because no other can have come past the lock meanwhile; a read
during an assignment is torn, one after it is of that assignment or a later one.
`AnswerInv` carries the truth of an answer from the daemon over a delivery that may
come when the daemon is dead. `PayloadInv` says that the payload of a call was there
when the client looked, so that a missing one was removed since.

### AppUpdateProofs

`TypeCorrect`, `SuccessSound`, `RollbackSound`, `CleanUpSound`, `PowerCutSafe`,
`RemovalSafe`, for packages of any length that may hold an application several times.
The argument:

* `RecordInv`: a record of `_installed_apps` has a new version that was not there
  before the update, and as current version the lowest that was; a second record of
  the same application has a current version in any case.
* `DirsInv`: every bundle was there before or is the new version of a record, and
  until versions are removed for good those from before are all there. With
  `RecordInv` this makes "all new versions are absent" the same as "the versions are
  those from before", which is what a rollback and a clean-up promise.
* `BootInv`: the lowest version is kept as it was while the update does not remove
  previous ones. A new version is above all others, so run-all still picks the old one.
* `LoopInv`: what the loop of each phase has done at index `i`, and what the phases
  before it left: in "remove" every container has the new version, in "rbrun" every
  new version is gone and the current versions run up to `i`.
* `ContainerInv`, `ControlInv`, `InstalledInv`: which container has a version, when
  the manager and run-all run, and that new versions stay until a rollback.

A second invariant on top of it, `JInv`, carries what a rollback and a clean-up restore.
`ReadInv`: an unreadable `config.json` was there before the update or came with a version
of a record, so that once the new versions are gone those from before can be found
again. `UseInv` and `UsedInv`: the version that was in use when a record was made is one
of those from before, so that with a single one it is the one that the rollback starts.

The minima and maxima of version sets come from the well-foundedness of the naturals,
the number of an application's occurrences in the rest of a package from the theorems
about finite sets.

`ImplementsVersions` is the refinement of `AppVersions`. The argument is about
`Lowest`: it stays as it is while that bundle stays and nothing comes below it
(`SameLowest`); run-all and the operator remove versions above it (`BootKeepsLowest`);
an installation adds one above it, so that `BootInv` makes every step up to the
removal a `Try` (`TryingBoots`); and the removal of a record's current version, while
the new one is there, either leaves the lowest version where it is, leaves an
incomplete tree in its place, or moves to a higher one (`RemovalMovesForward`,
`ReplacingBoots`). `InstalledInv` is what makes sure that there is one to move to.

### AppUpdateHandshakeProofs

`TypeCorrect`, `OwnResultReported`, `CleanBetweenRequests`. Both properties are about
a device on which no installer was cut off (the run `handshake_stale` shows why they
must be), and follow from `FilesInv`: where the installer is determines what files there are, and
while it waits the files and the place of the daemon agree on its request and on the
result of the update manager. A daemon killed alone leaves the installer waiting; it
never leaves an answer for the next one.

`ImplementsCall` is the refinement of `UpdateCall`. It needs `PendingInv`: until an
installer is cut off, a request that the daemon has not yet taken on has not been applied, so that
`RunUpdateManager` applies a payload for the first time; and `ServesInv`, that an
installer under way has a request and an idle one has none. After that each step
of the daemon is at least a `StaleApply`, and each answer at least a `StaleReturn`.

### FirmwareActivateProofs

`TypeCorrect`, `PowerCutSafe`, `RebootNotForgotten`, `SuccessSound`,
`MountedNotWritten`, for packages of any components in any order and with repetitions.
`MountedNotWritten` is for any two partition numbers, and has an invariant of its own
(`MountInv`): the running copy writes the bank that `find_target_partition` named, which
`TargetIsOther` shows to be the mounted one exactly when bank 2 is mounted and its
number ends with that of bank 1. The other theorems have `BanksDistinguished` as a
hypothesis, which is a conjunct of their `IInv`. `StageInv` says what the running
handler serves and writes; it has that the target of the root file system is the bank
that is not mounted, the result of `find_target_partition`. That operator works on
sequences of characters: lemmas show that stripping the partition from the device path
leaves the disk (`DiskOfPath`), that the end of a path is compared with the part numbers
as they are with each other (`EndOfPath`), and which bank comes of it (`TargetFound`).
`RebootInv`, `RootfsInv`, `BootInv` and `LoaderInv` say for each component already done
that its content is in place and `do_not_reboot` is gone, except where the same package
is writing it again.

`ImplementsTwoBanks` is the refinement of `TwoBanks`. `WrittenInv` says what is in the
target: it is corrupt while the copy runs, and between the copy and the flag it is the
root file system of the package or, if the storage has failed, still corrupt. The steps
that touch neither banks nor flag are the request or stutters (`OtherSteps`); opening
the target and copying do not show while the flag selects the mounted bank, and spoil
a waiting update otherwise, or stage it again (`CopyOutcome`); the write or removal of
the flag is the `Stage` (`StagingStep`).

### MblCloudClientProofs

`TypeCorrect`, `NoHandlerUsesDeleted`, `EventsNotOverwritten`, `RegistrationNotLost`,
`PercentCorrect`, `LogFollowsRotation`, `ErrorsNamed`. `ThreadInv` gives the owner of
`s_mutex` by the place of the event loop and what there is of the instance by the
place of the main thread; what a handler found in its test still holds when it uses
it. `TimeInv` bounds the seconds to the next registration and since the last at each
place of `run()`. `LogInv` says that a SIGHUP that counts is not forgotten before the
file is opened again. `PercentCorrect` is about every size that fits in the word and
needs the word to be larger than 100. `ErrorsNamed` rests on the tables of `MblError`: each group of
codes has fewer than the 256 numbers between its first code and that of the next
(`GroupSizes`), so no two codes are equal (`CodesDiffer`) and `MblError_to_str` finds the
case of a code (`StringOfCode`); that the first switch has a case for every error, and
the second the string of what the first returns, is read off the two tables row by row
(`StringCases` and the lemma before it).

### ProvisioningProofs

`TypeCorrect`, `ProvisionedAsAsked`, `LossBounded`, `DaemonConsistent`, for tables of
any length. `RunInv` says that the items before `n`,
and the first table once it is done without an error, are from the files of this run.
`OneSetInv` says that with no call failed or cut off the storage is of one set while no
run stores; `ReadInv`, that what a daemon has read without an `overlap` is of one set and,
while it still reads, the set that the storage holds.

### WatchdogInitProofs

`TypeCorrect` and `TimeoutExact`, for command lines of any length, any width of int and
any long at least as wide. `ParseInv` says that a `timeout` other than 0 is the number
of the last `--timeout` among the options read so far; each turn of the loop extends it by
an option, and that a positive result of `numeric_string_to_positive_int` is the number
itself, never one that came out of the clamping or the narrowing, is the arithmetic
under it. `DeviceInv` says that a program on its way to success has opened the watchdog,
and after the ioctl has asked the driver for that number.

### What the proofs changed

* `ActivateAssumption` was too weak: with the letter p in the path of the disk or in a
  part number, `find_target_partition` need not find the other bank. It now says
  that the path of the disk has no p and that partition numbers are digits. That neither
  number ends with the other is not assumed: it is a hypothesis of the theorems that
  need it, and `MountedNotWritten` says what happens without it.
* `ClientAssumption`: with a lifetime of 0 or 1 the period of the registration is 0,
  and the registration may run out. The assumption excludes them; the code's
  lifetime is 600 (`MBED_CLOUD_CLIENT_LIFETIME`).
* `Room`, the bound on the versions in `AppUpdate`, let a version number exceed
  `MaxVersion` for an application without versions; `Occurrences` bounds that too.
* `WatchdogInit` read its command line with a fold, about which nothing can be proved
  for every length. It is now the loop of the code, one step per option, and the
  induction over the options is that over the steps.
* `NothingLeftBehind` no longer excuses a killed daemon: the proof did not need it.
* The special value `None` is assumed different from exit codes and names where it
  stands beside them.

### Only model-checked

Liveness, which the prover does not handle: the fairness half of `MailboxSpec`,
`UpdateEnds`, `InstallerEnds`, `ClientsEnd`, `ShutdownEnds`, `FailedRootfsReboots`. The
violations are shown by TLC's counterexamples.

## Not modelled

The wording and layout of logs and messages, the archive checks of `unpack`, the
contents of packages, the temporary files of `mbl-firmware-update-manager`, parts of
`mbl-app-manager` that an update does not use, `pal-platform`, the mbedtls
configuration, tests, CI and tutorials. `mbl-firmware-update-header-util` packs and
unpacks a header without any state. The client library, gRPC, FCC and KCM, swupdate,
opkg and runC are external: the models have the outcomes that the code here
distinguishes. Timers of the application managers are nondeterministic: a time-out
may or may not come first. Where a table of long options has no end, or a null
`optarg` is read, the models allow a failure and a crash. A download of size 0 would
be divided by; the model's sizes begin at 1. The boot partitions and bootloaders have
one bank, and nothing protects them from a power cut: the model has it and no
property claims otherwise. run-all leaves the applications after a failing one
untried, `updated` drops a request that a later one replaces, and a firmware update
that fails after the boot flag was set still takes effect at the next boot without
its header: the models show these behaviours, and no run is devoted to them.

## Plan

What is left: run-all against a running update, and two activations at once. Both are
listed as hazards; nothing in the code excludes them, and a model of either has to
cut the operations of the managers and of swupdate into finer steps than those here.
