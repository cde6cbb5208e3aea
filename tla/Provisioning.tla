---------------------------- MODULE Provisioning ----------------------------
(***************************************************************************)
(* pelion-provisioning-util (mbl-cloud-client/cloud-provisioning), which   *)
(* stores the developer's and the update credentials of the device, one    *)
(* item at a time, in the key storage (KCM), and the cloud client daemon,  *)
(* which verifies that storage when it starts and reads the credentials    *)
(* from it later, in setup().  The two processes are not synchronised, and *)
(* the power may be cut between any two calls of KCM.                      *)
(*                                                                         *)
(* The data of an item is modelled by the set of credentials it is from.   *)
(* KCM, its verification of the device and the library's reading of the    *)
(* credentials are external.                                               *)
(***************************************************************************)
EXTENDS Naturals, Sequences, FiniteSets, Functions

CONSTANTS DevItems,      \* the developer's credentials, in the order of their table
          UpdateItems,   \* the update credentials, likewise
          Generated,     \* items made by the program (the bootstrap flag), not read from files
          Credentials,   \* sets of credential files a developer may put on the device
          Required,      \* items without which fcc_verify fails (external)
          BuiltIn,       \* the credentials built into a daemon in developer mode, or None
          Missing,       \* an item that is not stored
          None,          \* no file, no exit code
          MaxRuns,       \* bound: runs of --provision
          MaxCuts        \* bound: power cuts

Items    == Range(DevItems) \cup Range(UpdateItems)
Files    == Items \ Generated
Table    == [dev |-> DevItems, update |-> UpdateItems]
Commands == {"--provision", "--get-pelion-status"}

\* In the code the tables have twelve and three items; no item is in both.
ASSUME ProvisioningAssumption ==
  /\ DevItems \in Seq(Items) /\ DevItems # <<>>
  /\ UpdateItems \in Seq(Items) /\ UpdateItems # <<>>
  /\ Range(DevItems) \cap Range(UpdateItems) = {}
  /\ Missing \notin Credentials /\ None \notin Items /\ None \notin {0, 1, 2}
  /\ Required \subseteq Items /\ BuiltIn \in Credentials \cup {None}
  /\ MaxRuns \in Nat /\ MaxCuts \in Nat

VARIABLES
  storage,   \* the credentials each item of the key storage is from, or Missing
  pc,        \* where the tool is
  command,   \* the command it runs or ran last
  source,    \* the credentials in the directory of the files
  bad,       \* a file of it that cannot be read, or None
  table, n,  \* the table being stored, and the item of it
  devRet,    \* what store returned for the developer's table
  code,      \* the exit code of the last command that ended, or None
  daemon,    \* the cloud client daemon: "off", in "setup" or "running"
  unread,    \* the items that setup() has still to read
  creds,     \* the sets of credentials of the items that it has read
  overlap,   \* setup() began to read while an item was lost or the tool storing,
             \* or the tool stored between its first and its last read
  lost,      \* items never stored, and calls of store that failed or were cut off,
             \* since the last run that succeeded
  runs, cuts

tool == <<pc, command, source, bad, table, n, devRet, code>>
vars == <<storage, tool, daemon, unread, creds, overlap, lost, runs, cuts>>

TypeOK ==
  /\ storage \in [Items -> Credentials \cup {Missing}]
  /\ pc \in {"idle", "init", "load", "delete", "store", "finalize", "status"}
  /\ command \in Commands \cup {"usage"}
  /\ source \in Credentials /\ bad \in Files \cup {None}
  /\ table \in DOMAIN Table /\ n \in 1..Len(Table[table])
  /\ devRet \in {"success", "failure"}
  /\ code \in {0, 1, 2, None}
  /\ daemon \in {"off", "setup", "running"} /\ unread \subseteq Items /\ overlap \in BOOLEAN
  /\ creds \subseteq Credentials \cup {Missing}
  /\ lost \in Nat /\ runs \in 0..MaxRuns /\ cuts \in 0..MaxCuts

\* The device has never been provisioned, or has been in the factory.
Init ==
  /\ \E c \in Credentials \cup {Missing} :
       /\ storage = [i \in Items |-> c]
       /\ lost = IF c = Missing THEN Cardinality(Items) ELSE 0
  /\ pc = "idle" /\ command = "usage"
  /\ source \in Credentials /\ bad = None
  /\ table = "dev" /\ n = 1 /\ devRet = "success"
  /\ code = None
  /\ daemon = "off" /\ unread = Items /\ creds = {} /\ overlap = FALSE
  /\ runs = 0 /\ cuts = 0

outside == <<daemon, unread, creds, runs, cuts>>

----------------------------------------------------------------------------
(* The commands (main.cpp)                                                 *)

\* main(): more than one argument, or none that it knows, is refused.
Command(args) ==
  /\ pc = "idle"
  /\ command' = IF Len(args) = 1 /\ args[1] \in Commands THEN args[1] ELSE "usage"
  /\ \/ /\ command' = "usage"
        /\ code' = IF args = <<"--help">> THEN 0 ELSE 2
        /\ UNCHANGED <<pc, source, bad, table, n, devRet, runs>>
     \/ /\ command' = "--provision" /\ runs < MaxRuns
        /\ pc' = "init" /\ code' = None
        /\ source' \in Credentials /\ bad' \in Files \cup {None}
        /\ table' = "dev" /\ n' = 1 /\ devRet' = "success"
        /\ runs' = runs + 1
     \/ /\ command' = "--get-pelion-status"
        /\ pc' = "status" /\ code' = None
        /\ UNCHANGED <<source, bad, table, n, devRet, runs>>
  /\ UNCHANGED <<storage, daemon, unread, creds, overlap, cuts, lost>>

\* The command returns c; the destructor of PelionProvisioner finalises FCC.
Exit(c) == pc' = "finalize" /\ code' = c

\* PelionProvisioner::init
InitFcc ==
  /\ pc = "init"
  /\ \/ pc' = "load" /\ UNCHANGED code
     \/ Exit(1)
  /\ UNCHANGED <<storage, command, source, bad, table, n, devRet, outside, overlap, lost>>

\* binary_file_to_bytes
binary_file_to_bytes(f) == f # bad

load_developer_update_certificate == \A f \in Range(UpdateItems) \ Generated : binary_file_to_bytes(f)

load_developer_cloud_credentials ==
  \A f \in Range(DevItems) \ Generated : binary_file_to_bytes(f)

\* Both tables are loaded before anything is stored.
Load ==
  /\ pc = "load"
  /\ LET loaded == load_developer_cloud_credentials /\ load_developer_update_certificate
     IN  \/ loaded /\ pc' = "delete" /\ UNCHANGED code
         \/ ~loaded /\ Exit(1)
  /\ UNCHANGED <<storage, command, source, bad, table, n, devRet, outside, overlap, lost>>

----------------------------------------------------------------------------
(* PelionProvisioner::store                                                *)

Item == Table[table][n]

\* setup() has read some of the items, and not all.
Reading == daemon = "setup" /\ unread # Items

\* The tool changes the storage, perhaps while the daemon reads it.
Touches == overlap' = (overlap \/ Reading)

\* Fault: what store returned for the developer's table is forgotten.
StoreReturns_Forget(ret) ==
  \/ /\ table = "dev"
     /\ pc' = "delete" /\ table' = "update" /\ n' = 1
     /\ lost' = lost + IF ret = "failure" THEN 1 ELSE 0
     /\ UNCHANGED <<devRet, code>>
  \/ /\ table = "update"
     /\ Exit(IF ret = "success" THEN 0 ELSE 1)
     /\ lost' = IF code' = 0 THEN 0 ELSE lost + 1
     /\ UNCHANGED <<table, n, devRet>>

\* store returns ret.  handle_store_command stores the second table whatever it
\* returned for the first, then succeeds if both are stored.
StoreReturns(ret) ==
  \/ /\ table = "dev"
     /\ pc' = "delete" /\ table' = "update" /\ n' = 1
     /\ devRet' = ret
     /\ lost' = lost + IF ret = "failure" THEN 1 ELSE 0
     /\ UNCHANGED code
  \/ /\ table = "update"
     /\ Exit(IF devRet = "success" /\ ret = "success" THEN 0 ELSE 1)
     /\ lost' = IF code' = 0 THEN 0 ELSE lost + IF ret = "failure" THEN 1 ELSE 0
     /\ UNCHANGED <<table, n, devRet>>

\* Fault: the whole table is deleted before its items are stored.
DeleteItem_All ==
  /\ pc = "delete"
  /\ \/ /\ storage' = [i \in Items |-> IF n = 1 /\ i \in Range(Table[table]) THEN Missing
                                        ELSE storage[i]]
        /\ pc' = "store"
        /\ UNCHANGED <<table, n, devRet, code, lost>>
     \/ StoreReturns("failure") /\ UNCHANGED storage
  /\ Touches
  /\ UNCHANGED <<command, source, bad, outside>>

\* Fault: when an item cannot be deleted the run starts over.
DeleteItem_StartOver ==
  /\ pc = "delete"
  /\ \/ /\ storage' = [storage EXCEPT ![Item] = Missing]
        /\ pc' = "store"
        /\ UNCHANGED <<table, n, devRet, code, lost>>
     \/ pc' = "load" /\ table' = "dev" /\ n' = 1 /\ UNCHANGED <<storage, devRet, code, lost>>
  /\ Touches
  /\ UNCHANGED <<command, source, bad, outside>>

\* kcm_item_delete: the item is gone, if there was one, or it fails.
DeleteItem ==
  /\ pc = "delete"
  /\ \/ /\ storage' = [storage EXCEPT ![Item] = Missing]
        /\ pc' = "store"
        /\ UNCHANGED <<table, n, devRet, code, lost>>
     \/ StoreReturns("failure") /\ UNCHANGED storage
  /\ Touches
  /\ UNCHANGED <<command, source, bad, outside>>

\* kcm_item_store fails if there is such an item.  On failure the item stays
\* deleted and the rest of the table is left as it was.
StoreItem ==
  /\ pc = "store"
  /\ \/ /\ storage[Item] = Missing
        /\ storage' = [storage EXCEPT ![Item] = source]
        /\ IF n < Len(Table[table])
           THEN pc' = "delete" /\ n' = n + 1 /\ UNCHANGED <<table, devRet, code, lost>>
           ELSE StoreReturns("success")
     \/ StoreReturns("failure") /\ UNCHANGED storage
  /\ Touches
  /\ UNCHANGED <<command, source, bad, outside>>

\* The process and its variables are gone.
ProcessEnds == pc' = "idle" /\ bad' = None /\ table' = "dev" /\ n' = 1 /\ devRet' = "success"

\* ~PelionProvisioner; whether FCC is finalised does not change the exit code.
Finalize ==
  /\ pc = "finalize"
  /\ ProcessEnds
  /\ UNCHANGED <<storage, command, source, code, outside, overlap, lost>>

\* fcc_verify_device_configured_4mbed_cloud looks for the required items.
Verified == \A i \in Required : storage[i] # Missing

\* --get-pelion-status: init and get_provisioned_status.
StatusCommand ==
  /\ pc = "status"
  /\ \/ Exit(IF Verified THEN 0 ELSE 1)
     \/ Exit(1)
  /\ UNCHANGED <<storage, command, source, bad, table, n, devRet, outside, overlap, lost>>

----------------------------------------------------------------------------
(* The daemon and the power                                                *)

Storing == pc \in {"delete", "store"}

\* fcc_developer_flow, in a build in developer mode: the daemon that starts stores
\* an item from the built-in credentials where there is none.  It goes on, or
\* stops with an error or at an item that exists.
fcc_developer_flow(i) ==
  /\ daemon = "off" /\ BuiltIn # None
  /\ storage[i] = Missing
  /\ storage' = [storage EXCEPT ![i] = BuiltIn]
  /\ UNCHANGED <<tool, outside, overlap, lost>>

\* application_init_fcc: the daemon looks at the key storage, or cannot initialise
\* FCC; it exits unless the device is configured.
application_init_fcc ==
  /\ daemon = "off"
  /\ \/ Verified /\ daemon' = "setup" /\ unread' = Items /\ creds' = {} /\ overlap' = FALSE
     \/ UNCHANGED <<daemon, unread, creds, overlap>>
  /\ UNCHANGED <<storage, tool, lost, runs, cuts>>

\* cloud_client_setup: the library reads the credentials one by one, in any order.
cloud_client_setup(i) ==
  /\ daemon = "setup" /\ i \in unread
  /\ unread' = unread \ {i} /\ creds' = creds \cup {storage[i]}
  /\ daemon' = IF unread' = {} THEN "running" ELSE "setup"
  /\ overlap' = (overlap \/ (unread = Items /\ (Storing \/ lost > 0)))
  /\ UNCHANGED <<storage, tool, lost, runs, cuts>>

\* The daemon exits: setup() failed, or it was asked to.
DaemonExits ==
  /\ daemon # "off"
  /\ daemon' = "off" /\ unread' = Items /\ creds' = {} /\ overlap' = FALSE
  /\ UNCHANGED <<storage, tool, lost, runs, cuts>>

\* The power is cut and comes back; a call of KCM is done or not.
PowerCut ==
  /\ cuts < MaxCuts
  /\ cuts' = cuts + 1
  /\ ProcessEnds /\ code' = None
  /\ lost' = IF Storing THEN lost + 1 ELSE lost
  /\ daemon' = "off" /\ unread' = Items /\ creds' = {} /\ overlap' = FALSE
  /\ UNCHANGED <<storage, command, source, runs>>

Arguments == {<<>>, <<"--provision">>, <<"--get-pelion-status">>, <<"--help">>, <<"other">>,
              <<"--provision", "other">>}

Tool == InitFcc \/ Load \/ DeleteItem \/ StoreItem \/ Finalize \/ StatusCommand

Next == \/ Tool \/ application_init_fcc \/ DaemonExits \/ PowerCut
        \/ \E i \in Items : fcc_developer_flow(i) \/ cloud_client_setup(i)
        \/ \E args \in Arguments : Command(args)

Spec == Init /\ [][Next]_vars

----------------------------------------------------------------------------
(* Properties                                                              *)

\* handle_store_command returns success only when every item of both tables is
\* from the files of this run, whatever was stored before and wherever an
\* earlier run failed or was cut off.
SuccessMeansStored ==
  command = "--provision" /\ code = 0 => \A i \in Items : storage[i] = source

\* Replacing an item deletes it first: each call of store that fails or is cut
\* off loses at most the item that it was at.
FewItemsLost ==
  Cardinality({i \in Items : storage[i] = Missing})
    <= lost + IF pc = "store" THEN 1 ELSE 0

\* The daemon verifies the storage and reads the credentials later, item by item.
\* It has read two different sets of credentials, or missed an item, only if the
\* tool was storing between its first read and its last, or if it began to read
\* with an item lost or a run failed or cut off; whatever ran between the
\* verification and the first read.
DaemonUsesOneSet == ~overlap => Cardinality(creds) <= 1 /\ Missing \notin creds
=============================================================================
