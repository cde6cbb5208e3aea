--------------------------- MODULE UpdateDProofs ---------------------------
(***************************************************************************)
(* Proofs about the update daemon, for any set of requests, any set of     *)
(* payload directories and any number of kills.                            *)
(***************************************************************************)
EXTENDS UpdateD, TLAPS

USE ConstantsAssumption, MainAssumption

----------------------------------------------------------------------------
(* Type correctness.                                                       *)

LEMMA DieType ==
  ASSUME TypeOK, NEW ls \in [Dirs -> Requests \cup {None}], Die(ls), crashes' \in 0..MaxCrashes
  PROVE  TypeOK'
  BY DEF TypeOK, Die, RpcStates, MainStates, history, TranslationUnits

LEMMA UnlinkType ==
  ASSUME TypeOK, NEW ls \in [Dirs -> Requests \cup {None}], NEW p \in Requests \cup {None}
  PROVE  UnlinkDir(ls, p) \in [Dirs -> Requests \cup {None}]
  BY DEF TypeOK, UnlinkDir

\* A step of the daemon keeps every variable in its type.  The hand-off needs
\* FlagInv and MutexInv: without them it could pass a null link to swupdate.
LEMMA TypeStep == TypeOK /\ FlagInv /\ MutexInv /\ [Next]_vars => TypeOK'
<1> SUFFICES ASSUME TypeOK, FlagInv, MutexInv, [Next]_vars PROVE TypeOK'
  OBVIOUS
<1>1. ASSUME NEW r \in Requests, StartUpdate(r) PROVE TypeOK'
  BY <1>1 DEF TypeOK, StartUpdate, RpcStep, RpcStates, memory, disk, history
<1>2. ASSUME NEW r \in Requests, StartLock(r) PROVE TypeOK'
  BY <1>2 DEF TypeOK, StartLock, RpcStep, RpcStates, disk, history
<1>3. ASSUME NEW r \in Requests, StartHeader(r) PROVE TypeOK'
  BY <1>3 DEF TypeOK, StartHeader, RpcStep, RpcStates, disk, history
<1>4. ASSUME NEW r \in Requests, StartLink(r) PROVE TypeOK'
  <2>1. ReplaceLink(r) \in [Dirs -> Requests \cup {None}]
    BY UnlinkType DEF ReplaceLink, TypeOK
  <2> QED BY <1>4, <2>1 DEF TypeOK, StartLink, RpcStep, RpcStates, history
<1>5. ASSUME NEW r \in Requests, StartUnlock(r) PROVE TypeOK'
  BY <1>5 DEF TypeOK, StartUnlock, RpcStep, RpcStates, disk, history
<1>6. ASSUME NEW r \in Requests, StartNotify(r) PROVE TypeOK'
  BY <1>6 DEF TypeOK, StartNotify, RpcStep, RpcStates, memory, disk, history
<1>7. ASSUME NEW r \in Requests, StartTerminate(r) PROVE TypeOK'
  <2>1. crashes' \in 0..MaxCrashes
    BY <1>7 DEF StartTerminate, TypeOK
  <2>2. links \in [Dirs -> Requests \cup {None}]
    BY DEF TypeOK
  <2>3. [links EXCEPT ![dir[r]] = None] \in [Dirs -> Requests \cup {None}]
    BY DEF TypeOK
  <2> QED BY <1>7, <2>1, <2>2, <2>3, DieType DEF StartTerminate
<1>8. CASE GetUpdateHeader
  <2>1. manifest \subseteq Requests \cup {None, Torn}
    BY DEF manifest, TypeOK
  <2> QED BY <1>8, <2>1 DEF TypeOK, GetUpdateHeader, memory, disk
<1>9. CASE LoopTest
  BY <1>9 DEF TypeOK, LoopTest, MainStep, MainStates, memory, disk, history
<1>10. CASE RunLock
  BY <1>10 DEF TypeOK, RunLock, MainStep, MainStates, disk, history
<1>11. CASE RunWait
  BY <1>11 DEF TypeOK, RunWait, MainStep, MainStates, disk, history
<1>12. CASE RunWake \/ SpuriousWake
  BY <1>12 DEF TypeOK, RunWake, SpuriousWake, Wake, MainStep, MainStates, disk, history
<1>13. CASE RunHandOff
  <2>1. payload_link \in Requests
    BY <1>13 DEF TypeOK, FlagInv, MutexInv, HoldsMutex, RunHandOff, MainStep
  <2>2. Append(swupdateCalls, payload_link) \in Seq(Requests)
    BY <2>1 DEF TypeOK
  <2>3. UnlinkDir(links, payload_link) \in [Dirs -> Requests \cup {None}]
    BY UnlinkType DEF TypeOK
  <2> QED BY <1>13, <2>2, <2>3 DEF TypeOK, RunHandOff, MainStep, MainStates
<1>14. CASE Sigint
  BY <1>14 DEF TypeOK, Sigint, TranslationUnits, memory, disk, history
<1>15. CASE Crash
  <2>1. crashes' \in 0..MaxCrashes
    BY <1>15 DEF TypeOK, Crash
  <2> QED BY <1>15, <2>1, DieType DEF Crash, TypeOK
<1>16. CASE Restart
  BY <1>16 DEF TypeOK, Restart, disk, history
<1>17. CASE UNCHANGED vars
  BY <1>17 DEF TypeOK, vars
<1> QED BY <1>1, <1>2, <1>3, <1>4, <1>5, <1>6, <1>7, <1>8, <1>9, <1>10, <1>11, <1>12,
           <1>13, <1>14, <1>15, <1>16, <1>17 DEF Next, Rpc, MainThread

----------------------------------------------------------------------------
(* The inductive invariant.                                                *)

\* Between the two writes of start() the header runs ahead of the link; the
\* thread that holds the mutex accounts for the difference.
HeaderInv ==
  /\ \A r \in Requests : rpcPc[r] \in {"linking", "linked"} => header = r
  /\ \A r \in Requests : rpcPc[r] = "linked" => payload_link = r
  /\ payload_link # None /\ (\A r \in Requests : rpcPc[r] # "linking")
       => header = payload_link

\* The waiting request has been linked by its call, and its directory is its own.
PendingInv ==
  payload_link # None => /\ rpcPc[payload_link] \in {"linked", "unlocked", "success"}
                         /\ dir[payload_link] \notin orphans

\* A request handed over left the critical section before and waits no more.
DeliveredInv ==
  \A i \in DOMAIN swupdateCalls :
    /\ rpcPc[swupdateCalls[i]] \in {"unlocked", "success", "failed"}
    /\ swupdateCalls[i] # payload_link

IInv == /\ TypeOK
        /\ MutexInv
        /\ FlagInv
        /\ HeaderInv
        /\ PendingInv
        /\ LinkExistsUnlessShared
        /\ NoLeakedLink
        /\ DeliveredInv
        /\ HandedOffOnce

USE DEF HoldsMutex

\* The invariant holds when the daemon starts.
LEMMA InitIInv == Init => IInv
<1> SUFFICES ASSUME Init PROVE IInv
  OBVIOUS
<1>1. TypeOK
  <2>1. links \in [Dirs -> Requests \cup {None}] /\ rpcPc \in [Requests -> RpcStates]
    BY DEF Init, RpcStates
  <2>2. sigint \in [TranslationUnits -> BOOLEAN] /\ crashes \in 0..MaxCrashes
    BY DEF Init
  <2>3. swupdateCalls \in Seq(Requests) /\ orphans \subseteq Dirs
    BY DEF Init
  <2>4. alive \in BOOLEAN /\ updating \in BOOLEAN /\ notified \in BOOLEAN
    BY DEF Init
  <2> QED BY <2>1, <2>2, <2>3, <2>4 DEF Init, TypeOK, MainStates
<1>2. MutexInv /\ FlagInv /\ HeaderInv /\ PendingInv /\ LinkExistsUnlessShared
  BY DEF Init, MutexInv, FlagInv, HeaderInv, PendingInv, LinkExistsUnlessShared
<1>3. NoLeakedLink /\ DeliveredInv /\ HandedOffOnce
  BY DEF Init, NoLeakedLink, DeliveredInv, HandedOffOnce
<1> QED BY <1>1, <1>2, <1>3 DEF IInv

\* The death of the process keeps the rest of the invariant: whatever links it
\* leaves in the file system are recorded as orphans.
LEMMA DieStep ==
  ASSUME IInv, NEW ls \in [Dirs -> Requests \cup {None}], Die(ls), crashes' \in 0..MaxCrashes
  PROVE  IInv'
<1>1. TypeOK'
  BY DieType DEF IInv
<1>2. MutexInv' /\ FlagInv' /\ HeaderInv' /\ PendingInv' /\ LinkExistsUnlessShared'
  BY <1>1 DEF TypeOK, Die, InFlight, RpcStates, MutexInv, FlagInv, HeaderInv, PendingInv,
              LinkExistsUnlessShared, IInv
<1>3. NoLeakedLink'
  BY <1>1 DEF TypeOK, Die, NoLeakedLink
<1>4. DeliveredInv' /\ HandedOffOnce'
  <2>1. swupdateCalls' = swupdateCalls
    BY DEF Die, history
  <2>2. \A i \in DOMAIN swupdateCalls : swupdateCalls[i] \in Requests
    BY DEF IInv, TypeOK
  <2> QED BY <2>1, <2>2 DEF Die, InFlight, DeliveredInv, HandedOffOnce, IInv
<1> QED BY <1>1, <1>2, <1>3, <1>4 DEF IInv

\* Steps that change neither the shared fields of the coordinator nor the
\* phase of a call nor the file system keep all but the mutex part.
LEMMA QuietStep ==
  ASSUME IInv, TypeOK', MutexInv',
         UNCHANGED <<updating, payload_link, header, rpcPc, dir, disk, swupdateCalls>>
  PROVE  IInv'
<1>1. FlagInv' /\ HeaderInv' /\ PendingInv'
  BY DEF IInv, FlagInv, HeaderInv, PendingInv, disk
<1>2. LinkExistsUnlessShared' /\ NoLeakedLink'
  BY DEF IInv, LinkExistsUnlessShared, LinkExists, SharesDirectory, NoLeakedLink, disk
<1>3. DeliveredInv' /\ HandedOffOnce'
  BY DEF IInv, DeliveredInv, HandedOffOnce
<1> QED BY <1>1, <1>2, <1>3 DEF IInv

\* Steps of one call that leave the waiting request alone: the call was not
\* yet linked, or was and remains so.
LEMMA CallStep ==
  ASSUME IInv, TypeOK', NEW r \in Requests, NEW to \in RpcStates,
         rpcPc' = [rpcPc EXCEPT ![r] = to], rpcPc[r] # "linking", rpcPc[r] # "failed",
         to \notin {"idle", "failed"},
         rpcPc[r] \in {"linked", "unlocked", "success"} => to \in {"unlocked", "success"},
         UNCHANGED <<payload_link, dir, disk, swupdateCalls>>
  PROVE  PendingInv' /\ LinkExistsUnlessShared' /\ NoLeakedLink' /\ DeliveredInv'
           /\ HandedOffOnce'
<1> USE DEF IInv, TypeOK
<1>1. PendingInv'
  BY DEF PendingInv, disk
<1>2. LinkExistsUnlessShared'
  BY DEF LinkExistsUnlessShared, LinkExists, SharesDirectory, disk
<1>3. NoLeakedLink'
  BY DEF NoLeakedLink, disk
<1>4. DeliveredInv'
  <2> SUFFICES ASSUME NEW i \in DOMAIN swupdateCalls
               PROVE  /\ rpcPc'[swupdateCalls[i]] \in {"unlocked", "success", "failed"}
                      /\ swupdateCalls[i] # payload_link
    BY DEF DeliveredInv
  <2>1. swupdateCalls[i] \in Requests
    OBVIOUS
  <2>2. /\ rpcPc[swupdateCalls[i]] \in {"unlocked", "success", "failed"}
        /\ swupdateCalls[i] # payload_link
    BY DEF DeliveredInv
  <2> QED BY <2>1, <2>2
<1>5. HandedOffOnce'
  BY DEF HandedOffOnce
<1> QED BY <1>1, <1>2, <1>3, <1>4, <1>5

\* Replacing the waiting link removes the old one and keeps the new one,
\* unless the two share a directory.
LEMMA LinkStep ==
  ASSUME IInv, TypeOK', NEW r \in Requests, StartLink(r)
  PROVE  IInv'
<1> USE DEF IInv, TypeOK, StartLink, RpcStep
<1>1. \A q \in Requests : HoldsMutex(q) => q = r
  BY DEF MutexInv
<1>2. payload_link # r /\ \A i \in DOMAIN swupdateCalls : swupdateCalls[i] # r
  BY DEF PendingInv, DeliveredInv
<1>3. MutexInv' /\ FlagInv' /\ HeaderInv'
  BY <1>1 DEF MutexInv, FlagInv, HeaderInv
<1>4. PendingInv'
  BY DEF PendingInv
<1>5. LinkExistsUnlessShared'
  <2>1. CASE payload_link = None
    BY <2>1 DEF LinkExistsUnlessShared, LinkExists, ReplaceLink, UnlinkDir
  <2>2. CASE payload_link # None /\ dir[payload_link] = dir[r]
    <3>1. payload_link \in Requests \ {r} /\ rpcPc'[payload_link] # "idle"
      BY <2>2, <1>2 DEF PendingInv
    <3> QED BY <2>2, <3>1 DEF LinkExistsUnlessShared, SharesDirectory
  <2>3. CASE payload_link # None /\ dir[payload_link] # dir[r]
    BY <2>3 DEF LinkExistsUnlessShared, LinkExists, ReplaceLink, UnlinkDir
  <2> QED BY <2>1, <2>2, <2>3
<1>6. NoLeakedLink'
  BY DEF NoLeakedLink, ReplaceLink, UnlinkDir
<1>7. DeliveredInv' /\ HandedOffOnce'
  <2>1. \A i \in DOMAIN swupdateCalls : swupdateCalls[i] \in Requests \ {r}
    BY <1>2
  <2>2. UNCHANGED swupdateCalls
    BY DEF history
  <2> QED BY <2>1, <2>2 DEF DeliveredInv, HandedOffOnce
<1> QED BY <1>3, <1>4, <1>5, <1>6, <1>7

\* The hand-off empties the mailbox and appends a request that was never
\* appended before.
LEMMA HandOffStep ==
  ASSUME IInv, TypeOK', RunHandOff
  PROVE  IInv'
<1> USE DEF IInv, TypeOK, RunHandOff, MainStep
<1>1. mutex = Main /\ \A q \in Requests : ~HoldsMutex(q)
  BY DEF MutexInv
<1>2. payload_link \in Requests /\ rpcPc[payload_link] \in {"unlocked", "success"}
  BY <1>1 DEF FlagInv, PendingInv
<1>3. MutexInv' /\ FlagInv' /\ HeaderInv' /\ PendingInv' /\ LinkExistsUnlessShared'
  BY <1>1 DEF MutexInv, FlagInv, HeaderInv, PendingInv, LinkExistsUnlessShared
<1>4. NoLeakedLink'
  BY <1>2 DEF NoLeakedLink, UnlinkDir
<1>5. DeliveredInv' /\ HandedOffOnce'
  <2>1. \A i \in DOMAIN swupdateCalls' :
          \/ i \in DOMAIN swupdateCalls /\ swupdateCalls'[i] = swupdateCalls[i]
          \/ i = Len(swupdateCalls) + 1 /\ swupdateCalls'[i] = payload_link
    BY <1>2
  <2>2. DeliveredInv'
    BY <1>2, <2>1 DEF DeliveredInv
  <2>3. HandedOffOnce'
    BY <1>2, <2>1 DEF DeliveredInv, HandedOffOnce
  <2> QED BY <2>2, <2>3
<1> QED BY <1>3, <1>4, <1>5

\* Every step of the daemon, of its clients and of its environment keeps the
\* invariant.
LEMMA NextIInv == IInv /\ [Next]_vars => IInv'
<1> SUFFICES ASSUME IInv, [Next]_vars PROVE IInv'
  OBVIOUS
<1> TypeOK'
  BY TypeStep DEF IInv
<1> DEFINE Rest == PendingInv /\ LinkExistsUnlessShared /\ NoLeakedLink /\ DeliveredInv
                     /\ HandedOffOnce
<1>1. ASSUME NEW r \in Requests, StartUpdate(r) PROVE IInv'
  <2>1. MutexInv' /\ FlagInv' /\ HeaderInv'
    BY <1>1 DEF StartUpdate, RpcStep, memory, IInv, TypeOK, MutexInv, FlagInv, HeaderInv
  <2>2. Rest'
    BY <1>1, CallStep DEF StartUpdate, RpcStep, RpcStates, memory, history
  <2> QED BY <2>1, <2>2 DEF IInv
<1>2. ASSUME NEW r \in Requests, StartLock(r) PROVE IInv'
  <2>1. MutexInv' /\ FlagInv' /\ HeaderInv'
    BY <1>2 DEF StartLock, RpcStep, IInv, TypeOK, MutexInv, FlagInv, HeaderInv
  <2>2. Rest'
    BY <1>2, CallStep DEF StartLock, RpcStep, RpcStates, history
  <2> QED BY <2>1, <2>2 DEF IInv
<1>3. ASSUME NEW r \in Requests, StartHeader(r) PROVE IInv'
  <2>1. MutexInv' /\ FlagInv' /\ HeaderInv'
    BY <1>3 DEF StartHeader, RpcStep, IInv, TypeOK, MutexInv, FlagInv, HeaderInv
  <2>2. Rest'
    BY <1>3, CallStep DEF StartHeader, RpcStep, RpcStates, history
  <2> QED BY <2>1, <2>2 DEF IInv
<1>4. ASSUME NEW r \in Requests, StartLink(r) PROVE IInv'
  BY <1>4, LinkStep
<1>5. ASSUME NEW r \in Requests, StartUnlock(r) PROVE IInv'
  <2>1. MutexInv' /\ FlagInv' /\ HeaderInv'
    BY <1>5 DEF StartUnlock, RpcStep, IInv, TypeOK, MutexInv, FlagInv, HeaderInv
  <2>2. Rest'
    BY <1>5, CallStep DEF StartUnlock, RpcStep, RpcStates, history
  <2> QED BY <2>1, <2>2 DEF IInv
<1>6. ASSUME NEW r \in Requests, StartNotify(r) PROVE IInv'
  <2>1. MutexInv' /\ FlagInv' /\ HeaderInv'
    BY <1>6 DEF StartNotify, RpcStep, memory, IInv, TypeOK, MutexInv, FlagInv, HeaderInv
  <2>2. Rest'
    BY <1>6, CallStep DEF StartNotify, RpcStep, RpcStates, memory, history
  <2> QED BY <2>1, <2>2 DEF IInv
<1>7. ASSUME NEW r \in Requests, StartTerminate(r) PROVE IInv'
  <2>1. crashes' \in 0..MaxCrashes
    BY <1>7 DEF StartTerminate, IInv, TypeOK
  <2>2. /\ links \in [Dirs -> Requests \cup {None}]
        /\ [links EXCEPT ![dir[r]] = None] \in [Dirs -> Requests \cup {None}]
    BY DEF IInv, TypeOK
  <2> QED BY <1>7, <2>1, <2>2, DieStep DEF StartTerminate
<1>8. CASE GetUpdateHeader \/ LoopTest \/ Sigint
  <2>1. MutexInv'
    BY <1>8 DEF GetUpdateHeader, LoopTest, Sigint, MainStep, memory, IInv, TypeOK, MutexInv
  <2> QED BY <1>8, <2>1, QuietStep
          DEF GetUpdateHeader, LoopTest, Sigint, MainStep, memory, disk, history
<1>9. CASE RunLock \/ RunWait \/ RunWake \/ SpuriousWake
  <2>1. MutexInv'
    BY <1>9 DEF RunLock, RunWait, RunWake, SpuriousWake, Wake, MainStep, IInv, TypeOK,
                MutexInv
  <2> QED BY <1>9, <2>1, QuietStep
          DEF RunLock, RunWait, RunWake, SpuriousWake, Wake, disk, history
<1>10. CASE RunHandOff
  BY <1>10, HandOffStep
<1>11. CASE Crash
  <2>1. crashes' \in 0..MaxCrashes /\ links \in [Dirs -> Requests \cup {None}]
    BY <1>11 DEF Crash, IInv, TypeOK
  <2> QED BY <1>11, <2>1, DieStep DEF Crash
<1>12. CASE Restart
  <2>1. MutexInv'
    BY <1>12 DEF Restart, IInv, TypeOK, MutexInv
  <2> QED BY <1>12, <2>1, QuietStep DEF Restart, disk, history
<1>13. CASE UNCHANGED vars
  <2>1. MutexInv'
    BY <1>13 DEF vars, IInv, MutexInv
  <2> QED BY <1>13, <2>1, QuietStep DEF vars, disk
<1> QED BY <1>1, <1>2, <1>3, <1>4, <1>5, <1>6, <1>7, <1>8, <1>9, <1>10, <1>11, <1>12,
           <1>13 DEF Next, Rpc, MainThread

LEMMA Invariance == Spec => []IInv
BY InitIInv, NextIInv, PTL DEF Spec

----------------------------------------------------------------------------
(* The results.                                                            *)

\* Every variable of the daemon stays in its type.  In particular swupdate is
\* only ever handed real requests, so the assertion of run() never fails.
THEOREM TypeCorrect == Spec => []TypeOK
<1>1. IInv => TypeOK
  BY DEF IInv
<1> QED BY <1>1, Invariance, PTL

\* The critical sections of start() and run() exclude each other.
THEOREM MutualExclusion == Spec => []MutexInv
<1>1. IInv => MutexInv
  BY DEF IInv
<1> QED BY <1>1, Invariance, PTL

\* Outside the critical section the flag of the condition variable and the
\* link agree.
THEOREM FlagAgreesWithLink == Spec => []FlagInv
<1>1. IInv => FlagInv
  BY DEF IInv
<1> QED BY <1>1, Invariance, PTL

\* The payload that run() hands over and the header that manifest() serves
\* belong to one request, however many clients call start() at once.
THEOREM PayloadAndHeaderAgree == Spec => []HandOffMatchesHeader
<1>1. IInv => HandOffMatchesHeader
  <2> SUFFICES ASSUME IInv, mainPc = "pred", updating PROVE header = payload_link
    BY DEF HandOffMatchesHeader
  <2>1. \A r \in Requests : ~HoldsMutex(r)
    BY DEF IInv, MutexInv
  <2> QED BY <2>1 DEF IInv, FlagInv, HeaderInv
<1> QED BY <1>1, Invariance, PTL

\* The link of a request that shares its directory with no other request
\* exists until it is handed over.
THEOREM LinkKept == Spec => []LinkExistsUnlessShared
<1>1. IInv => LinkExistsUnlessShared
  BY DEF IInv
<1> QED BY <1>1, Invariance, PTL

\* The daemon removes every link it makes, unless it dies first.
THEOREM LinksCleanedUp == Spec => []NoLeakedLink
<1>1. IInv => NoLeakedLink
  BY DEF IInv
<1> QED BY <1>1, Invariance, PTL

\* No request is handed to swupdate twice.
THEOREM AtMostOneHandOff == Spec => []HandedOffOnce
<1>1. IInv => HandedOffOnce
  BY DEF IInv
<1> QED BY <1>1, Invariance, PTL

\* The daemon implements the safety half of the one-place mailbox: linking a
\* payload puts a request, the hand-off delivers the waiting one, and dying
\* loses it.
THEOREM ImplementsMailbox == Spec => Mailbox!SafeSpec
<1>1. Init => Mailbox!Init
  BY DEF Init, Mailbox!Init
<1>2. IInv /\ [Next]_vars => [Mailbox!Next]_(Mailbox!mailboxVars)
  <2> SUFFICES ASSUME IInv, [Next]_vars PROVE [Mailbox!Next]_(Mailbox!mailboxVars)
    OBVIOUS
  <2> USE DEF Mailbox!mailboxVars, Mailbox!Next, Mailbox!Put, Mailbox!Deliver, Mailbox!Lose
  <2>1. ASSUME NEW r \in Requests, StartLink(r) PROVE Mailbox!Next
    BY <2>1 DEF StartLink, history
  <2>2. ASSUME NEW ls, Die(ls) PROVE Mailbox!Next
    BY <2>2 DEF Die, history
  <2>3. CASE RunHandOff
    <3>1. payload_link # None
      BY <2>3 DEF RunHandOff, MainStep, IInv, FlagInv, MutexInv
    <3> QED BY <2>3, <3>1 DEF RunHandOff
  <2>4. ASSUME NEW r \in Requests, Rpc(r) PROVE [Mailbox!Next]_(Mailbox!mailboxVars)
    <3>1. CASE StartTerminate(r)
      BY <3>1, <2>2 DEF StartTerminate
    <3>2. CASE StartLink(r)
      BY <3>2, <2>1
    <3>3. CASE ~StartTerminate(r) /\ ~StartLink(r)
      BY <2>4, <3>3 DEF Rpc, StartUpdate, StartLock, StartHeader, StartUnlock, StartNotify,
                        memory, history
    <3> QED BY <3>1, <3>2, <3>3
  <2>5. CASE MainThread
    BY <2>5, <2>3 DEF MainThread, LoopTest, RunLock, RunWait, RunWake, SpuriousWake, Wake,
                      memory, history
  <2>6. CASE Crash
    BY <2>6, <2>2 DEF Crash
  <2>7. CASE GetUpdateHeader \/ Sigint \/ Restart \/ UNCHANGED vars
    BY <2>7 DEF GetUpdateHeader, Sigint, Restart, vars, memory, history
  <2> QED BY <2>4, <2>5, <2>6, <2>7 DEF Next
<1> QED BY <1>1, <1>2, Invariance, PTL DEF Spec, Mailbox!SafeSpec

============================================================================
