----------------------------- MODULE AppUpdate -----------------------------
(***************************************************************************)
(* mbl-app-update-manager: one process that installs the applications of   *)
(* an update package beside the versions in use, stops those, runs the new *)
(* ones and removes the old ones, and that rolls back when a version       *)
(* cannot be stopped or run.  Around it: the applications, which may end   *)
(* by themselves, an operator with the lifecycle manager's commands, power *)
(* cuts, and run-all, which starts the installed applications at boot.     *)
(***************************************************************************)
EXTENDS AppLifecycle, Sequences, FiniteSetsExt, Functions

CONSTANTS Apps,        \* application names
          Packages,    \* update packages: sequences of the applications they hold
          MaxIpks,     \* bound: ipks in the update packages applied
          MaxCrashes   \* bound: power cuts

ASSUME AppUpdateAssumption == /\ Packages \subseteq Seq(Apps) \ {<<>>}
                              /\ MaxIpks \in Nat
                              /\ MaxCrashes \in Nat

VARIABLES
  dirs,        \* dirs[a][v]: what /home/app/a/v holds
  container,   \* the container of each application
  pc,          \* the phase of the update manager, "idle" when it does not run
  i,           \* the index of its loop over _installed_apps
  ipks,        \* the packages it has not installed yet
  installed,   \* _installed_apps
  result,      \* how the last update ended
  booting,     \* applications run-all has not come to yet
  before,      \* dirs when the last update began
  committing,  \* the last update began to remove previous versions
  ipkCount, crashes

control == <<pc, i, result, committing>>
disk    == <<dirs, before>>
bounds  == <<ipkCount, crashes>>
vars    == <<dirs, container, pc, i, ipks, installed, result, booting,
             before, committing, ipkCount, crashes>>

\* AppRecord.  The field used is history: the version of the application's container
\* at that time.
Records == [name : Apps, cur : Versions \cup {NoVersion}, new : Versions,
            used : Versions \cup {NoVersion}]

Phases == {"install", "cleanup", "stop", "run", "remove", "rbstop", "rbremove", "rbrun"}

Results == {"none", "success", "restored", "cleaned", "error"}

TypeOK ==
  /\ dirs \in [Apps -> [Versions -> Kinds]]
  /\ container \in [Apps -> Containers]
  /\ pc \in Phases \cup {"idle"}
  /\ i \in Nat \ {0}
  /\ pc \in Phases \ {"install"} => i <= Len(installed)
  /\ ipks \in Seq(Apps)
  /\ installed \in Seq(Records)
  /\ result \in Results
  /\ booting \subseteq Apps
  /\ before \in [Apps -> [Versions -> Kinds]]
  /\ committing \in BOOLEAN
  /\ ipkCount \in 0..MaxIpks
  /\ crashes \in 0..MaxCrashes

\* Some applications are installed and running, as version 0.
Init ==
  /\ \E have \in SUBSET Apps :
       /\ dirs = [a \in Apps |-> [v \in Versions |->
                    IF a \in have /\ v = 0 THEN "release" ELSE "absent"]]
       /\ container = [a \in Apps |-> IF a \in have
                         THEN [state |-> "running", version |-> 0] ELSE NoContainer]
  /\ before = dirs
  /\ pc = "idle" /\ i = 1 /\ ipks = <<>> /\ installed = <<>>
  /\ result = "none" /\ committing = FALSE
  /\ booting = {}
  /\ ipkCount = 0 /\ crashes = 0

----------------------------------------------------------------------------
(* The control flow of the update manager.                                 *)

Goto(phase) == /\ pc' = phase
               /\ i' = 1
               /\ committing' = (committing \/ phase = "remove")
               /\ UNCHANGED result

Finish(res) == /\ pc' = "idle"
               /\ i' = 1
               /\ result' = res
               /\ UNCHANGED committing

\* An exception that reaches _main: the exit code is 1.
Raise == Finish("error")

\* The loop over _installed_apps goes on, or the given step follows it.
Continue(after) ==
  IF i < Len(installed) THEN i' = i + 1 /\ UNCHANGED <<pc, result, committing>>
                        ELSE after

App == installed[i]

\* Run the operation that has these outcomes on the container of an application.
OnContainer(a, o) == /\ container' = [container EXCEPT ![a] = o.container]
                     /\ UNCHANGED dirs

OnDirs(a, o) == /\ dirs' = [dirs EXCEPT ![a] = o.dirs]
                /\ UNCHANGED container

\* Fault: the next path is the path of the latest version.
get_app_bundle_paths_Latest(a) ==
  LET bundles == OciBundles(dirs[a])
  IN  IF bundles = {} THEN {[cur |-> NoVersion, new |-> 0]}
      ELSE {[cur |-> Min(bundles), new |-> Max(bundles)]}

\* _get_app_bundle_paths: the paths, or {} where it falls through to None or raises.
get_app_bundle_paths(a) ==
  IF ~HasParentDir(dirs[a]) THEN {[cur |-> NoVersion, new |-> 0]}
  ELSE {[cur |-> Min(bundles), new |-> Max(bundles) + 1] :
          bundles \in get_oci_bundle_paths(dirs[a]) \ {{}}}

\* The ipks of an application in a package.
Occurrences(pkg, a) == Cardinality({k \in DOMAIN pkg : pkg[k] = a})

\* The version numbers have room for one more installation of each ipk.
Room(pkg) ==
  \A a \in Apps : /\ Occurrences(pkg, a) <= MaxVersion + 1
                 /\ \A v \in OciBundles(dirs[a]) :
                      v + Occurrences(pkg, a) <= MaxVersion

----------------------------------------------------------------------------
(* The phases of an update.                                                *)

\* unpack: the package is refused, or its ipks are extracted.
Unpack(pkg) ==
  /\ pc = "idle" /\ booting = {}
  /\ ipkCount + Len(pkg) <= MaxIpks
  /\ Room(pkg)
  /\ ipkCount' = ipkCount + Len(pkg)
  /\ before' = dirs
  /\ installed' = <<>>
  /\ committing' = FALSE
  /\ i' = 1
  /\ \/ pc' = "install" /\ ipks' = pkg /\ result' = "none"
     \/ pc' = "idle" /\ ipks' = <<>> /\ result' = "error"
  /\ UNCHANGED <<dirs, container, booting, crashes>>

\* Fault: applications installed before the failure are left behind.
InstallFailed_NoCleanUp == Finish("cleaned")

\* install_apps' handler of AppIdError and AppInstallError.
InstallFailed == IF installed = <<>> THEN Finish("cleaned") ELSE Goto("cleanup")

\* One turn of the loop of install_apps: _manage_app_installation.
InstallApp ==
  /\ pc = "install" /\ ipks # <<>>
  /\ LET a == Head(ipks) IN
     \/ /\ "AppIdError" \in get_app_name /\ InstallFailed
        /\ UNCHANGED <<dirs, container, ipks, installed>>
     \/ /\ "ValueError" \in get_app_name /\ Raise
        /\ UNCHANGED <<dirs, container, ipks, installed>>
     \/ /\ get_app_bundle_paths(a) = {} /\ Raise
        /\ UNCHANGED <<dirs, container, ipks, installed>>
     \/ \E p \in get_app_bundle_paths(a) : \E o \in install_app(dirs[a], p.new) :
          /\ OnDirs(a, o)
          /\ \/ /\ o.res = "ok"
                /\ installed' = Append(installed, [name |-> a, cur |-> p.cur, new |-> p.new,
                                                   used |-> container[a].version])
                /\ ipks' = Tail(ipks)
                /\ UNCHANGED control
             \/ /\ o.res = "AppInstallError" /\ InstallFailed
                /\ UNCHANGED <<ipks, installed>>
             \/ /\ o.res = "AppUninstallError" /\ Raise
                /\ UNCHANGED <<ipks, installed>>
  /\ UNCHANGED <<booting, before, bounds>>

\* start_installed_apps begins.
StartInstalledApps ==
  /\ pc = "install" /\ ipks = <<>>
  /\ Goto("stop")
  /\ UNCHANGED <<disk, container, ipks, installed, booting, bounds>>

\* The exceptions that _stop_running_versions and _stop_all_newly_installed_apps
\* name, and those that _run_new_installed_versions names.
StopErrors == {"ContainerKillError", "ContainerDeleteError", "AppStopTimeoutError"}
RunErrors  == {"ContainerCreationError", "ContainerStartError"}

\* _stop_running_versions
StopRunning ==
  /\ pc = "stop"
  /\ \E o \in terminate_app(container[App.name]) :
       /\ OnContainer(App.name, o)
       /\ \/ o.res = "ok" /\ Continue(Goto("run"))
          \/ o.res \in StopErrors /\ Goto("rbstop")
          \/ o.res \notin StopErrors \cup {"ok"} /\ Raise
  /\ UNCHANGED <<ipks, installed, booting, before, bounds>>

\* Fault: an application that fails to run is passed over.
RunNew_Ignore ==
  /\ pc = "run"
  /\ \E o \in run_app(container[App.name], dirs[App.name], App.new) :
       OnContainer(App.name, o) /\ Continue(Goto("remove"))
  /\ UNCHANGED <<ipks, installed, booting, before, bounds>>

\* _run_new_installed_versions
RunNew ==
  /\ pc = "run"
  /\ \E o \in run_app(container[App.name], dirs[App.name], App.new) :
       /\ OnContainer(App.name, o)
       /\ \/ o.res = "ok" /\ Continue(Goto("remove"))
          \/ o.res \in RunErrors /\ Goto("rbstop")
          \/ o.res \notin RunErrors \cup {"ok"} /\ Raise
  /\ UNCHANGED <<ipks, installed, booting, before, bounds>>

\* One turn of the loop of _remove_apps_bundles.
RemoveBundle(v, after) ==
  \/ v = NoVersion /\ Continue(after) /\ UNCHANGED <<dirs, container>>
  \/ /\ v # NoVersion
     /\ \E o \in remove_app(dirs[App.name], v) :
          /\ OnDirs(App.name, o)
          /\ \/ o.res = "ok" /\ Continue(after)
             \/ o.res # "ok" /\ Raise

\* Fault: the wrong path attribute is removed.
RemovePrevious_New ==
  /\ pc = "remove"
  /\ RemoveBundle(App.new, Finish("success"))
  /\ UNCHANGED <<ipks, installed, booting, before, bounds>>

\* _remove_previous_versions, after which the exit code is 0.
RemovePrevious ==
  /\ pc = "remove"
  /\ RemoveBundle(App.cur, Finish("success"))
  /\ UNCHANGED <<ipks, installed, booting, before, bounds>>

\* The handler in install_apps removes what was installed before the failure.
CleanUp ==
  /\ pc = "cleanup"
  /\ RemoveBundle(App.new, Finish("cleaned"))
  /\ UNCHANGED <<ipks, installed, booting, before, bounds>>

\* Fault: a failure to stop during the rollback starts the rollback over.
RollbackStop_StartOver ==
  /\ pc = "rbstop"
  /\ \E o \in terminate_app(container[App.name]) :
       /\ OnContainer(App.name, o)
       /\ \/ o.res = "ok" /\ Continue(Goto("rbremove"))
          \/ o.res # "ok" /\ Goto("rbstop")
  /\ UNCHANGED <<ipks, installed, booting, before, bounds>>

\* _rollback_apps: _stop_all_newly_installed_apps.  An error whose text says that the
\* container does not exist is passed over.
RollbackStop ==
  /\ pc = "rbstop"
  /\ \E o \in terminate_app(container[App.name]) :
       /\ OnContainer(App.name, o)
       /\ \/ o.res = "ok" /\ Continue(Goto("rbremove"))
          \/ /\ o.res \in StopErrors /\ o.container.state = "does not exist"
             /\ Continue(Goto("rbremove"))
          \/ o.res # "ok" /\ Raise
  /\ UNCHANGED <<ipks, installed, booting, before, bounds>>

\* Fault: the new versions are not removed.
RollbackRemove_Skip ==
  /\ pc = "rbremove"
  /\ Goto("rbrun")
  /\ UNCHANGED <<disk, container, ipks, installed, booting, bounds>>

\* _rollback_apps: _remove_apps_bundles(NEW_BUNDLE_PATH)
RollbackRemove ==
  /\ pc = "rbremove"
  /\ RemoveBundle(App.new, Goto("rbrun"))
  /\ UNCHANGED <<ipks, installed, booting, before, bounds>>

\* _rollback_apps: _run_previous_app_versions
RollbackRun ==
  /\ pc = "rbrun"
  /\ \/ /\ App.cur = NoVersion /\ Continue(Finish("restored"))
        /\ UNCHANGED <<dirs, container>>
     \/ /\ App.cur # NoVersion
        /\ \E o \in run_app(container[App.name], dirs[App.name], App.cur) :
             /\ OnContainer(App.name, o)
             /\ \/ o.res = "ok" /\ Continue(Finish("restored"))
                \/ o.res # "ok" /\ Raise
  /\ UNCHANGED <<ipks, installed, booting, before, bounds>>

----------------------------------------------------------------------------
(* Boot, power cuts, applications and the operator.                        *)

\* Fault: the parent directory is removed, with the version that runs.
Removed_Parent(ds, gone) == [v \in Versions |-> IF gone = {} THEN ds[v] ELSE "absent"]

Removed(ds, gone) == [v \in Versions |-> IF v \in gone THEN "absent" ELSE ds[v]]

\* run_app_from_parent_dir: run the lowest version, then remove the others;
\* rmtree may fail part way through.
run_app_from_parent_dir(a) ==
  LET ds      == dirs[a]
      bundles == OciBundles(ds)
      others  == bundles \ {Min(bundles)}
      runs    == run_app(container[a], ds, Min(bundles))
      ran     == {o \in runs : o.res = "ok"}
      Both(res, d, c) == [res |-> res, dirs |-> d, container |-> c]
  IN  IF get_oci_bundle_paths(ds) = {} THEN {Both("ValueError", ds, container[a])}
      ELSE IF bundles = {} THEN {Both("ok", ds, container[a])}
      ELSE {Both(o.res, ds, o.container) : o \in runs \ ran}
        \cup {Both("ok", Removed(ds, others), o.container) : o \in ran}
        \cup UNION {{Both("OSError", [Removed(ds, gone) EXCEPT ![w] = k], o.container) :
                       o \in ran, gone \in SUBSET (others \ {w}), k \in Remains(ds[w])} :
                     w \in others}

\* The device loses power: the manager and every container are gone.  What is left
\* of an operation that is cut is among what is left when it fails.  At the next boot
\* run-all finds the applications that have a directory.
Crash ==
  /\ crashes < MaxCrashes
  /\ crashes' = crashes + 1
  /\ container' = [a \in Apps |-> NoContainer]
  /\ pc' = "idle" /\ i' = 1 /\ ipks' = <<>> /\ result' = "none"
  /\ booting' = {a \in Apps : HasParentDir(dirs[a])}
  /\ installed' = <<>>
  /\ UNCHANGED <<disk, committing, ipkCount>>

\* run_all_action: one turn of its loop; an exception ends the loop.
RunAll(a) ==
  /\ a \in booting
  /\ \E o \in run_app_from_parent_dir(a) :
       /\ dirs' = [dirs EXCEPT ![a] = o.dirs]
       /\ container' = [container EXCEPT ![a] = o.container]
       /\ \/ o.res = "ok" /\ booting' = booting \ {a}
          \/ o.res # "ok" /\ booting' = {}
  /\ UNCHANGED <<control, ipks, installed, before, bounds>>

\* The process of an application ends by itself.
AppExits(a) ==
  /\ container[a].state = "running"
  /\ container' = [container EXCEPT ![a] = Stopped(@)]
  /\ UNCHANGED <<control, disk, ipks, installed, booting, bounds>>

\* The operator uses the run, terminate and kill commands while no update runs.
Operator(a) ==
  /\ pc = "idle" /\ booting = {}
  /\ \/ \E o \in run_app_from_parent_dir(a) :
          /\ dirs' = [dirs EXCEPT ![a] = o.dirs]
          /\ container' = [container EXCEPT ![a] = o.container]
     \/ \E o \in terminate_app(container[a]) \cup kill_app(container[a]) : OnContainer(a, o)
  /\ result' = "none" /\ installed' = <<>> /\ ipks' = <<>>
  /\ UNCHANGED <<pc, i, committing, booting, before, bounds>>

----------------------------------------------------------------------------
Manager == \/ InstallApp \/ StartInstalledApps \/ StopRunning \/ RunNew \/ RemovePrevious
           \/ CleanUp \/ RollbackStop \/ RollbackRemove \/ RollbackRun

Next == \/ \E pkg \in Packages : Unpack(pkg)
        \/ Manager
        \/ Crash
        \/ \E a \in Apps : RunAll(a) \/ AppExits(a) \/ Operator(a)

\* The manager is a sequential process whose commands and waits all end.
Spec == Init /\ [][Next]_vars /\ WF_vars(Manager)

----------------------------------------------------------------------------
(* Properties.                                                             *)

BundlesOf(ds, a) == OciBundles(ds[a])

\* Exit code 0 means that every application of the package has its new release
\* installed, in use and without a predecessor, provided that each had at most
\* one version before.  Without this proviso it does not hold: only the lowest of
\* several versions is removed, and the next boot runs the next higher one.
StartedClean == \A a \in Apps : Cardinality(BundlesOf(before, a)) <= 1

SuccessInstalls ==
  result = "success" /\ StartedClean =>
    \A r \in Range(installed) : /\ BundlesOf(dirs, r.name) = {r.new}
                                /\ dirs[r.name][r.new] = "release"
                                /\ container[r.name].version = r.new

\* The application has the versions that it had when the update began, and the update
\* left no config.json that keeps them from being found.
AsBefore(a) == /\ BundlesOf(dirs, a) = BundlesOf(before, a)
               /\ Readable(before[a]) => Readable(dirs[a])

\* A rollback that ends without an exception leaves every application of the
\* package with the versions it had and with a container of the lowest of them; this
\* is the version that was in use, if one was and there was one version only.  Of
\* several versions, left by an earlier error, the lowest need not be the one that
\* was in use, and an application that was not in use is started.
RollbackRestores ==
  result = "restored" =>
    \A r \in Range(installed) :
      /\ AsBefore(r.name)
      /\ container[r.name].version = r.cur
      /\ r.used # NoVersion /\ Cardinality(BundlesOf(before, r.name)) <= 1 =>
           container[r.name].version = r.used

\* A failed installation that could be cleaned up leaves every application with
\* the versions it had.
CleanUpRestores == result = "cleaned" => \A a \in Apps : AsBefore(a)

\* Until the update begins to remove previous versions, a power cut at any
\* point of installing, stopping, running and rolling back leaves the version
\* that run-all would have started before the update intact, and still the one that
\* it starts: unless config.json of another version is unreadable now, when run-all
\* raises and starts no version at all.
BootVersionKept ==
  ~committing => \A a \in Apps : BundlesOf(before, a) # {} =>
    LET v == Min(BundlesOf(before, a))
    IN  /\ dirs[a][v] = before[a][v]
        /\ \A bundles \in get_oci_bundle_paths(dirs[a]) : v = Min(bundles)

\* No version is removed under the container that uses it: while previous
\* versions are being removed, the container of every application of the
\* package was created from the new version.
RemovesIdleOnly ==
  pc = "remove" => \A r \in Range(installed) : container[r.name].version = r.new

\* Every update ends: no failure during a rollback starts it over.
UpdateEnds == pc # "idle" ~> pc = "idle"

\* What run_app_from_parent_dir runs, if it does not raise: the lowest version that
\* looks like a bundle.
Lowest(ds) ==
  LET bundles == OciBundles(ds)
      v       == Min(bundles)
  IN  IF bundles = {} THEN [version |-> NoVersion, kind |-> "absent"]
      ELSE [version |-> v, kind |-> ds[v]]

\* What boots changes in the phase that removes previous versions only, each time
\* to a later version and never to none; before it the new versions of applications
\* that had one do not boot, and run-all, the operator and the errors and power
\* cuts at any step change nothing.  An application comes to be blocked, and boots no
\* version, by an unreadable config.json that an installation leaves, and by nothing
\* else: the update implements AppVersions.
Booting == INSTANCE AppVersions WITH
             boots <- [a \in Apps |-> Lowest(dirs[a])],
             phase <- (IF pc = "idle" THEN "rest" ELSE IF pc = "remove" THEN "replacing" ELSE "trying"),
             fresh <- {a \in Apps : BundlesOf(before, a) = {}},
             blocked <- {a \in Apps : ~Readable(dirs[a])}

BootsForward == Booting!Spec
============================================================================
