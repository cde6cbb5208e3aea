---------------------------- MODULE AppLifecycle ----------------------------
(***************************************************************************)
(* mbl-app-lifecycle-manager: running and stopping one application in a    *)
(* runC container.  An operation maps the container to the set of its      *)
(* outcomes: how it ends and the container it leaves.  Any runc command    *)
(* may fail; the application may or may not obey a signal in time.         *)
(***************************************************************************)
EXTENDS AppManager

\* runC's view of the container named after the application, and the version
\* whose bundle it was created from.
ContainerStates == {"does not exist", "created", "running", "stopped"}

Containers == [state : ContainerStates, version : Versions \cup {NoVersion}]

NoContainer == [state |-> "does not exist", version |-> NoVersion]

Live(c) == c.state \in {"created", "running"}

Stopped(c) == [c EXCEPT !.state = "stopped"]

End(res, c) == [res |-> res, container |-> c]

\* container.delete
delete(c) == {End("ok", NoContainer), End("ContainerDeleteError", c)}

\* _wait_for_app_stop found the container stopped and delete follows; or
\* get_state failed.  The time-out is with the callers.
WaitAndDelete(c) == delete(Stopped(c)) \cup {End("ContainerStateError", x) : x \in {c, Stopped(c)}}

\* kill_app, SIGKILL.  runc kill fails, with "not running" if the process ended.
kill_app(c) ==
  {End("ContainerKillError", c)}
    \cup (IF c.state = "stopped" THEN delete(c) ELSE {})
    \cup (IF Live(c) THEN WaitAndDelete(c) \cup {End("AppStopTimeoutError", c)} ELSE {})

\* terminate_app, SIGTERM and then SIGKILL: a container that does not exist is
\* not an error, and the process may end between the time-out and SIGKILL.
terminate_app(c) ==
  {End("ContainerKillError", c)}
    \cup (IF c.state = "does not exist" THEN {End("ok", c)} ELSE {})
    \cup (IF c.state = "stopped" THEN delete(c) ELSE {})
    \cup (IF Live(c) THEN WaitAndDelete(c) \cup kill_app(c) \cup kill_app(Stopped(c)) ELSE {})

\* run_app: create checks the state first, a failed start leaves the created
\* container behind.
run_app(c, ds, v) ==
  {End("ContainerStateError", c)}
    \cup IF c.state # "does not exist"
         THEN {End("ContainerAlreadyExistError", c)}
         ELSE {End("ContainerCreationError", c)}
                \cup IF ds[v] \notin Bundles THEN {}
                     ELSE {End("ok", [state |-> "running", version |-> v]),
                           End("ContainerStartError", [state |-> "created", version |-> v])}

=============================================================================
