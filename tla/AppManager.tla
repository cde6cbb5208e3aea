----------------------------- MODULE AppManager -----------------------------
(***************************************************************************)
(* mbl-app-manager: installing and removing one application with opkg.     *)
(* The installation directory of an application, /home/app/<name>, holds   *)
(* numbered version directories.  An operation maps the version            *)
(* directories of one application to the set of its outcomes: how it ends  *)
(* (a return or the exception it raises) and the directories it leaves.    *)
(* opkg may fail at any time, having done part of its work.                *)
(***************************************************************************)
EXTENDS Naturals

CONSTANTS MaxVersion,  \* bound: the highest version number
          NoVersion    \* None, in place of a version path

ASSUME AppManagerAssumption == MaxVersion \in Nat /\ NoVersion \notin Nat

Versions == 0..MaxVersion

\* What a version directory holds.  An incomplete one may look like an OCI
\* bundle (config.json and the root directory are there) or may not; "unreadable"
\* is one whose config.json is empty, cut short or no JSON.
Kinds   == {"absent", "partial", "unreadable", "incomplete", "release"}
Bundles == {"incomplete", "release"}

\* A removal that fails part way through takes files away and changes none.
Remains(k) == CASE k = "release"    -> {"partial", "incomplete", "release"}
                [] k = "incomplete" -> {"partial", "incomplete"}
                [] k = "unreadable" -> {"partial", "unreadable"}
                [] OTHER            -> {"partial"}

Outcome(res, ds) == [res |-> res, dirs |-> ds]

\* os.path.isdir of the parent directory, which remove_app deletes when empty.  An
\* empty one, left by a power cut between the two calls of rmtree, is to the code as
\* one that holds a partial version directory: it is there and has no bundle.
HasParentDir(ds) == \E v \in Versions : ds[v] # "absent"

\* The versions that get_oci_bundle_paths returns.
OciBundles(ds) == {v \in Versions : ds[v] \in Bundles}

\* json.load raises on a config.json that is not one.
Readable(ds) == \A v \in Versions : ds[v] # "unreadable"

\* get_oci_bundle_paths: the bundles, or no result where it raises ValueError.
get_oci_bundle_paths(ds) == IF Readable(ds) THEN {OciBundles(ds)} ELSE {}

remove_app(ds, v) ==
  IF ds[v] = "absent"
  THEN {Outcome("AppPathInexistent", ds)}
  ELSE {Outcome("ok", [ds EXCEPT ![v] = "absent"])}
         \cup {Outcome("AppUninstallError", [ds EXCEPT ![v] = k]) : k \in Remains(ds[v])}

\* The clean-up of a failed installation: AppInstallError follows a successful
\* removal, the exception of a failed one replaces it.
AfterCleanUp(o) == IF o.res = "ok" THEN Outcome("AppInstallError", o.dirs) ELSE o

\* The package may hold no OCI bundle at all, or one with a wrong config.json: opkg
\* installs it all the same.  One that fails, or that a power cut ends, may have
\* written part of config.json.
install_app(ds, v) ==
  {Outcome("ok", [ds EXCEPT ![v] = k]) : k \in {"partial", "unreadable", "release"}}
    \cup (IF ds[v] = "absent" THEN {Outcome("AppInstallError", ds)} ELSE {})
    \cup {AfterCleanUp(o) : o \in UNION {remove_app([ds EXCEPT ![v] = k], v) :
                                         k \in {"partial", "unreadable", "incomplete"}}}

\* get_app_name: opkg info fails or names no package (AppIdError), or a line
\* of its output holds a second colon (ValueError from the unpacking).
get_app_name == {"ok", "AppIdError", "ValueError"}

=============================================================================
