------------------------------ MODULE UpdateD ------------------------------
(***************************************************************************)
(* The update daemon (firmware-management/updated).  gRPC threads serve    *)
(* StartUpdate and GetUpdateHeader; the main thread loops over             *)
(* UpdateCoordinator::run, which waits on a condition variable for a       *)
(* request and hands its payload to swupdate.  The two sides share the     *)
(* coordinator's fields under one mutex, except that manifest() reads the  *)
(* header without it.  PayloadHardLink keeps the payload alive as a hard   *)
(* link in the directory "updated" beside the payload.                     *)
(*                                                                         *)
(* One element of Requests is one StartUpdate call, served by a gRPC       *)
(* thread of its own; it also stands for the call's HEADER blob and for    *)
(* its payload file, which are opaque to the daemon.                       *)
(***************************************************************************)
EXTENDS Naturals, Sequences, Functions

CONSTANTS Requests,    \* StartUpdate calls
          Dirs,        \* directories that payload files live in
          None,        \* no request, no owner
          Torn,        \* the result of reading the header during a write
          MaxCrashes   \* bound: times the process is killed from outside

ASSUME ConstantsAssumption == /\ None \notin Requests
                              /\ Torn \notin Requests
                              /\ None # Torn
                              /\ MaxCrashes \in Nat

Main == "main"         \* the main thread, as the owner of the mutex

ASSUME MainAssumption == Main \notin Requests /\ Main # None

VARIABLES
  alive,         \* the daemon process exists
  mutex,         \* UpdateCoordinator::mutex: its owner, or None
  updating,      \* UpdateCoordinator::updating
  payload_link,  \* UpdateCoordinator::payload_link: the linked request, or None
  header,        \* update_manifest.header
  mainPc,        \* where the main thread is
  notified,      \* the main thread was notified since it began to wait
  rpcPc,         \* where each StartUpdate call is
  dir,           \* the directory of each call's payload
  links,         \* the link found in each "updated" directory
  orphans,       \* the directories whose link outlived the process
  swupdateCalls, \* the requests handed to swupdate, oldest first
  answer,        \* the last answer to GetUpdateHeader
  sigint,        \* the copies of signal::sigint, one per translation unit
  crashes        \* kills so far

memory  == <<alive, mutex, updating, payload_link, header>>
disk    == <<links, orphans>>
history == <<swupdateCalls, answer>>
vars    == <<alive, mutex, updating, payload_link, header, mainPc, notified, rpcPc, dir,
             links, orphans, swupdateCalls, answer, sigint, crashes>>

\* handlers.h defines sigint with internal linkage, so the translation unit of
\* the signal handler and the one of main() each have a copy of their own.
TranslationUnits == {"handlers", "updated"}

RpcStates  == {"idle", "called", "writing", "linking", "linked", "unlocked", "success",
               "failed"}
MainStates == {"loop", "enter", "pred", "wait", "exited"}

InFlight(r) == rpcPc[r] \in {"called", "writing", "linking", "linked", "unlocked"}

TypeOK ==
  /\ alive \in BOOLEAN
  /\ mutex \in Requests \cup {Main, None}
  /\ updating \in BOOLEAN
  /\ payload_link \in Requests \cup {None}
  /\ header \in Requests \cup {None}
  /\ mainPc \in MainStates
  /\ notified \in BOOLEAN
  /\ rpcPc \in [Requests -> RpcStates]
  /\ dir \in [Requests -> Dirs]
  /\ links \in [Dirs -> Requests \cup {None}]
  /\ orphans \subseteq Dirs
  /\ swupdateCalls \in Seq(Requests)
  /\ answer \in Requests \cup {None, Torn}
  /\ sigint \in [TranslationUnits -> BOOLEAN]
  /\ crashes \in 0..MaxCrashes

Init ==
  /\ alive = TRUE
  /\ mutex = None
  /\ updating = FALSE
  /\ payload_link = None
  /\ header = None
  /\ mainPc = "loop"
  /\ notified = FALSE
  /\ rpcPc = [r \in Requests |-> "idle"]
  /\ dir \in [Requests -> Dirs]
  /\ links = [d \in Dirs |-> None]
  /\ orphans = {}
  /\ swupdateCalls = <<>>
  /\ answer = None
  /\ sigint = [t \in TranslationUnits |-> FALSE]
  /\ crashes = 0

----------------------------------------------------------------------------
(* The StartUpdate call r on its gRPC thread.                              *)

RpcStep(r, from, to) == /\ alive
                        /\ rpcPc[r] = from
                        /\ rpcPc' = [rpcPc EXCEPT ![r] = to]

\* A client sends the request.
StartUpdate(r) ==
  /\ RpcStep(r, "idle", "called")
  /\ UNCHANGED <<memory, disk, history, mainPc, notified, dir, sigint, crashes>>

\* Fault: a call enters without waiting for the mutex.
StartLock_NoWait(r) ==
  /\ RpcStep(r, "called", "writing")
  /\ mutex' = r
  /\ UNCHANGED <<alive, updating, payload_link, header, disk, history, mainPc, notified,
                 dir, sigint, crashes>>

\* start() takes the mutex and begins to assign update_manifest.header.
StartLock(r) ==
  /\ RpcStep(r, "called", "writing")
  /\ mutex = None
  /\ mutex' = r
  /\ UNCHANGED <<alive, updating, payload_link, header, disk, history, mainPc, notified,
                 dir, sigint, crashes>>

\* The assignment is complete.
StartHeader(r) ==
  /\ RpcStep(r, "writing", "linking")
  /\ header' = r
  /\ UNCHANGED <<alive, mutex, updating, payload_link, disk, history, mainPc, notified, dir,
                 sigint, crashes>>

\* ~PayloadHardLink removes the directory of the link it owns.
UnlinkDir(ls, r) == IF r = None THEN ls ELSE [ls EXCEPT ![dir[r]] = None]

\* Fault: the link object that was there before is not destroyed.
ReplaceLink_KeepOld(r) == [links EXCEPT ![dir[r]] = r]

\* make_unique clears the directory and creates the link; the assignment to
\* payload_link then destroys the link object that was there before.
ReplaceLink(r) == UnlinkDir([links EXCEPT ![dir[r]] = r], payload_link)

StartLink(r) ==
  /\ RpcStep(r, "linking", "linked")
  /\ links' = ReplaceLink(r)
  /\ orphans' = orphans \ {dir[r]}
  /\ payload_link' = r
  /\ UNCHANGED <<alive, mutex, updating, header, history, mainPc, notified, dir, sigint,
                 crashes>>

\* The flag is raised and the mutex released.
StartUnlock(r) ==
  /\ RpcStep(r, "linked", "unlocked")
  /\ updating' = TRUE
  /\ mutex' = None
  /\ UNCHANGED <<alive, payload_link, header, disk, history, mainPc, notified, dir, sigint,
                 crashes>>

\* notify_all, return from start() and the SUCCESS response.
StartNotify(r) ==
  /\ RpcStep(r, "unlocked", "success")
  /\ notified' = TRUE
  /\ UNCHANGED <<memory, disk, history, mainPc, dir, sigint, crashes>>

\* The process dies: its memory is gone, calls in flight fail at their
\* clients, the links of this process stay behind in the file system.
Die(ls) ==
  /\ alive' = FALSE
  /\ mutex' = None
  /\ updating' = FALSE
  /\ payload_link' = None
  /\ header' = None
  /\ mainPc' = "loop"
  /\ notified' = FALSE
  /\ rpcPc' = [r \in Requests |-> IF InFlight(r) THEN "failed" ELSE rpcPc[r]]
  /\ links' = ls
  /\ orphans' = {d \in Dirs : ls[d] # None}
  /\ sigint' = [t \in TranslationUnits |-> FALSE]
  /\ UNCHANGED <<dir, history>>

\* start() is noexcept: an exception of PayloadHardLink (the payload file is
\* gone, the link cannot be made) ends the process, as a failed assert does
\* (an empty path or header, a relative path).  The directory may have been
\* cleared before.
StartTerminate(r) ==
  /\ alive
  /\ \/ rpcPc[r] = "called" /\ Die(links)
     \/ rpcPc[r] = "linking" /\ \/ Die(links)
                                \/ Die([links EXCEPT ![dir[r]] = None])
  /\ UNCHANGED crashes

\* manifest() copies the header without the mutex.  While a gRPC thread is
\* assigning it the copy may be the old value, the new one or neither.
manifest == {header} \cup UNION {{r, Torn} : r \in {q \in Requests : rpcPc[q] = "writing"}}

GetUpdateHeader ==
  /\ alive
  /\ answer' \in manifest
  /\ UNCHANGED <<memory, disk, swupdateCalls, mainPc, notified, rpcPc, dir, sigint, crashes>>

----------------------------------------------------------------------------
(* The main thread.                                                        *)

MainStep(from, to) == /\ alive
                      /\ mainPc = from
                      /\ mainPc' = to

\* The loop condition of main().
LoopTest ==
  /\ MainStep("loop", IF sigint["updated"] THEN "exited" ELSE "enter")
  /\ UNCHANGED <<memory, disk, history, notified, rpcPc, dir, sigint, crashes>>

\* run() takes the mutex.
RunLock ==
  /\ MainStep("enter", "pred")
  /\ mutex = None
  /\ mutex' = Main
  /\ UNCHANGED <<alive, updating, payload_link, header, disk, history, notified, rpcPc,
                 dir, sigint, crashes>>

\* Fault: a wait without a predicate, as condition_var.wait(ul).
RunWait_NoPredicate ==
  /\ MainStep("pred", "wait")
  /\ mutex' = None
  /\ notified' = FALSE
  /\ UNCHANGED <<alive, updating, payload_link, header, disk, history, rpcPc, dir, sigint,
                 crashes>>

\* condition_var.wait: the predicate is false, so release the mutex and sleep.
RunWait ==
  /\ MainStep("pred", "wait")
  /\ ~updating
  /\ mutex' = None
  /\ notified' = FALSE
  /\ UNCHANGED <<alive, updating, payload_link, header, disk, history, rpcPc, dir, sigint,
                 crashes>>

\* condition_var.wait returns to the predicate with the mutex taken again.
Wake ==
  /\ MainStep("wait", "pred")
  /\ mutex = None
  /\ mutex' = Main
  /\ UNCHANGED <<alive, updating, payload_link, header, disk, history, notified, rpcPc,
                 dir, sigint, crashes>>

RunWake == notified /\ Wake

SpuriousWake == ~notified /\ Wake

\* Faults: the flag stays up, the link object stays, or both do.
HandOffLeaving(flag, link) ==
  /\ MainStep("pred", "loop")
  /\ updating
  /\ swupdateCalls' = Append(swupdateCalls, payload_link)
  /\ updating' = flag
  /\ links' = UnlinkDir(links, payload_link)
  /\ payload_link' = link
  /\ mutex' = None
  /\ UNCHANGED <<alive, header, orphans, answer, notified, rpcPc, dir, sigint, crashes>>

RunHandOff_KeepFlag == HandOffLeaving(TRUE, None)

RunHandOff_KeepLink == HandOffLeaving(FALSE, payload_link)

RunHandOff_KeepBoth == HandOffLeaving(TRUE, payload_link)

\* The predicate is true: hand the payload to swupdate, drop the link, return.
RunHandOff ==
  /\ MainStep("pred", "loop")
  /\ updating
  /\ swupdateCalls' = Append(swupdateCalls, payload_link)
  /\ updating' = FALSE
  /\ links' = UnlinkDir(links, payload_link)
  /\ payload_link' = None
  /\ mutex' = None
  /\ UNCHANGED <<alive, header, orphans, answer, notified, rpcPc, dir, sigint, crashes>>

----------------------------------------------------------------------------
(* The environment.                                                        *)

\* SIGINT: the handler writes the copy of its own translation unit.
Sigint ==
  /\ alive
  /\ ~sigint["handlers"]
  /\ sigint' = [sigint EXCEPT !["handlers"] = TRUE]
  /\ UNCHANGED <<memory, disk, history, mainPc, notified, rpcPc, dir, crashes>>

\* SIGKILL or a power cut.
Crash ==
  /\ alive
  /\ crashes < MaxCrashes
  /\ crashes' = crashes + 1
  /\ Die(links)

\* The init system starts the daemon again.
Restart ==
  /\ ~alive
  /\ alive' = TRUE
  /\ UNCHANGED <<mutex, updating, payload_link, header, disk, history, mainPc, notified,
                 rpcPc, dir, sigint, crashes>>

----------------------------------------------------------------------------
Rpc(r) == \/ StartUpdate(r) \/ StartLock(r) \/ StartHeader(r) \/ StartLink(r)
          \/ StartUnlock(r) \/ StartNotify(r) \/ StartTerminate(r)

MainThread == LoopTest \/ RunLock \/ RunWait \/ RunWake \/ SpuriousWake \/ RunHandOff

Next == \/ \E r \in Requests : Rpc(r)
        \/ GetUpdateHeader
        \/ MainThread
        \/ Sigint
        \/ Crash
        \/ Restart

\* A thread that can run is scheduled and a notified waiter wakes up.  Clients,
\* signals, kills, failures, restarts and spurious wake-ups need never come.
Fairness ==
  /\ WF_vars(LoopTest) /\ WF_vars(RunLock) /\ WF_vars(RunWait)
  /\ WF_vars(RunWake) /\ WF_vars(RunHandOff)
  /\ \A r \in Requests : /\ WF_vars(StartLock(r)) /\ WF_vars(StartHeader(r))
                         /\ WF_vars(StartLink(r))
                         /\ WF_vars(StartUnlock(r)) /\ WF_vars(StartNotify(r))

Spec == Init /\ [][Next]_vars /\ Fairness

----------------------------------------------------------------------------
(* Properties.                                                             *)

\* UpdateD implements the one-place mailbox: the waiting request is the one
\* payload_link holds.  The liveness half says that no wake-up is lost: a
\* request whose link exists is handed to swupdate unless a later request
\* replaces it or the process dies.
Mailbox == INSTANCE UpdateMailbox WITH slot <- payload_link, delivered <- swupdateCalls

MailboxSpec == Mailbox!Spec

\* The mutex protects exactly the critical sections of start() and run().
HoldsMutex(r) == rpcPc[r] \in {"writing", "linking", "linked"}

MutexInv ==
  /\ \A r \in Requests : HoldsMutex(r) <=> mutex = r
  /\ mainPc = "pred" <=> mutex = Main
  /\ ~alive => mutex = None

\* The assertion of run() (payload_link != nullptr) holds whenever the
\* predicate is true, and no link is left waiting behind a lowered flag.
FlagInv == (\A r \in Requests : rpcPc[r] # "linked") => (updating <=> payload_link # None)

\* When run() reads the payload to hand over, the header that manifest() serves
\* is the header of that same request, although start() writes the two in
\* separate steps and two clients may call it at once.
HandOffMatchesHeader == mainPc = "pred" /\ updating => header = payload_link

\* The link of the waiting request exists, whatever was superseded, delivered
\* or lost in a crash before, as long as no other request has used its
\* directory (HandOffLinkExists below is the claim without this proviso).
LinkExists == payload_link # None => links[dir[payload_link]] = payload_link

SharesDirectory(r) == \E q \in Requests \ {r} : dir[q] = dir[r] /\ rpcPc[q] # "idle"

LinkExistsUnlessShared ==
  payload_link # None /\ ~SharesDirectory(payload_link) => LinkExists

\* Every hard link left in the file system belongs to the waiting request or
\* outlived a process that died: superseded and delivered links are removed.
NoLeakedLink ==
  \A d \in Dirs : links[d] # None => \/ d \in orphans
                                     \/ payload_link = links[d] /\ dir[payload_link] = d

\* No request is handed to swupdate twice, whatever the interleaving of
\* spurious wake-ups, notifications, crashes and restarts.
HandedOffOnce == \A i, j \in DOMAIN swupdateCalls :
                   swupdateCalls[i] = swupdateCalls[j] => i = j

----------------------------------------------------------------------------
(* What comments of the repository say, which the code does not do.        *)

\* "ensure it is cleaned up in an exception safe way" (payload.h) and "UpdateD
\* will hand off responsibility for applying the update to swupdate"
\* (updated.cpp): the payload that run() passes on exists.
HandOffLinkExists == mainPc = "pred" /\ updating => LinkExists

\* "writes to std::sig_atomic_t sigint, which causes a clean shutdown"
\* (handlers.h): after SIGINT the main loop ends.
SigintShutsDown == sigint["handlers"] ~> (mainPc = "exited" \/ ~alive)

============================================================================
