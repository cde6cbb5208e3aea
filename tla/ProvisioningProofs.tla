------------------------ MODULE ProvisioningProofs --------------------------
(***************************************************************************)
(* Proofs about the provisioning of the key storage, for tables of any     *)
(* length, any sets of credentials and any number of runs and power cuts.  *)
(***************************************************************************)
EXTENDS Provisioning, FiniteSetTheorems, TLAPS

----------------------------------------------------------------------------
(* The tables.                                                             *)

LEMMA Tables ==
  /\ DOMAIN Table = {"dev", "update"}
  /\ Table["dev"] = DevItems /\ Table["update"] = UpdateItems
  /\ DevItems \in Seq(Items) /\ UpdateItems \in Seq(Items)
  /\ \A t \in DOMAIN Table :
       /\ Table[t] \in Seq(Items) /\ Len(Table[t]) \in Nat /\ 1 \in 1..Len(Table[t])
       /\ DOMAIN Table[t] = 1..Len(Table[t])
       /\ \A k \in 1..Len(Table[t]) : Table[t][k] \in Items
<1>1. DOMAIN Table = {"dev", "update"} /\ Table["dev"] = DevItems /\ Table["update"] = UpdateItems
  BY DEF Table
<1>2. \A s \in Seq(Items) : s # <<>> => /\ Len(s) \in Nat /\ 1 \in 1..Len(s)
                                        /\ DOMAIN s = 1..Len(s)
                                        /\ \A k \in 1..Len(s) : s[k] \in Items
  OBVIOUS
<1> QED BY <1>1, <1>2, ProvisioningAssumption

\* The items of a sequence are finitely many.
LEMMA RangeFinite ==
  ASSUME NEW S, NEW s \in Seq(S)
  PROVE  IsFiniteSet(Range(s))
<1>1. IsFiniteSet(1..Len(s))
  BY FS_Interval
<1>2. s \in Surjection(1..Len(s), Range(s))
  <2>1. DOMAIN s = 1..Len(s) /\ s = [k \in 1..Len(s) |-> s[k]]
    OBVIOUS
  <2>2. s \in [1..Len(s) -> Range(s)]
    BY <2>1 DEF Range
  <2>3. \A x \in Range(s) : \E k \in 1..Len(s) : s[k] = x
    BY <2>1 DEF Range
  <2> QED BY <2>2, <2>3 DEF Surjection
<1> QED BY <1>1, <1>2, FS_Surjection

LEMMA ItemsFinite == IsFiniteSet(Items)
<1>1. IsFiniteSet(Range(DevItems)) /\ IsFiniteSet(Range(UpdateItems))
  BY ProvisioningAssumption, RangeFinite
<1> QED BY <1>1, FS_Union DEF Items

\* The items that are not stored; there is a number of them.
Lost(st) == {i \in Items : st[i] = Missing}

LEMMA LostFinite ==
  ASSUME NEW st
  PROVE  IsFiniteSet(Lost(st)) /\ Cardinality(Lost(st)) \in Nat
<1>1. IsFiniteSet(Lost(st))
  BY ItemsFinite, FS_Subset DEF Lost
<1> QED BY <1>1, FS_CardinalityType

----------------------------------------------------------------------------
(* The inductive invariant.                                                *)

\* The item k of the table is from the files of this run, unless it is the one
\* that is being replaced.
Stored(k) == storage[Table[table][k]] = source \/ (pc = "store" /\ Table[table][k] = Item)

\* What the tool has done so far.
RunInv ==
  /\ pc \in {"init", "load", "delete", "store"} => command = "--provision" /\ code = None
  /\ pc \in {"init", "load"} => table = "dev" /\ n = 1 /\ devRet = "success"
  /\ pc = "status" => command = "--get-pelion-status" /\ code = None
  /\ Storing => /\ \A k \in 1..(n - 1) : Stored(k)
                /\ table = "update" /\ devRet = "success" =>
                     \A i \in Range(DevItems) : storage[i] = source
                /\ table = "update" /\ devRet = "failure" => lost > 0

\* With no call of store failed or cut off, the storage is of one set.
OneSetInv == lost = 0 /\ ~Storing => \E c \in Credentials : \A i \in Items : storage[i] = c

\* What setup() has read, unless the tool was storing or an item lost, is of the one
\* set that the storage still holds.
ReadInv ==
  /\ daemon = "off" => creds = {}
  /\ daemon = "setup" /\ unread = Items => creds = {}
  /\ ~overlap => \E c \in Credentials :
       creds \subseteq {c} /\ (Reading => \A i \in Items : storage[i] = c)

IInv == TypeOK /\ RunInv /\ OneSetInv /\ ReadInv /\ SuccessMeansStored /\ FewItemsLost

LEMMA InitIInv == Init => IInv
<1> SUFFICES ASSUME Init PROVE IInv
  OBVIOUS
<1>1. PICK c \in Credentials \cup {Missing} :
        /\ storage = [i \in Items |-> c]
        /\ lost = IF c = Missing THEN Cardinality(Items) ELSE 0
  BY DEF Init
<1>2. Cardinality(Items) \in Nat
  BY ItemsFinite, FS_CardinalityType
<1>3. TypeOK
  <2>1. table \in DOMAIN Table /\ n \in 1..Len(Table[table])
    BY Tables DEF Init
  <2>2. runs \in 0..MaxRuns /\ cuts \in 0..MaxCuts
    BY ProvisioningAssumption DEF Init
  <2>4. overlap \in BOOLEAN
    BY Zenon DEF Init
  <2>3. storage \in [Items -> Credentials \cup {Missing}] /\ lost \in Nat
    BY <1>1, <1>2
  <2> QED BY <2>1, <2>2, <2>3, <2>4 DEF Init, TypeOK
<1>4. RunInv
  BY DEF Init, RunInv, Storing
<1>5. OneSetInv
  <2>1. Items # {}
    BY Tables
  <2>2. Cardinality(Items) # 0
    BY <2>1, ItemsFinite, FS_EmptySet
  <2> QED BY <1>1, <2>2 DEF OneSetInv
<1>6. SuccessMeansStored
  BY DEF Init, SuccessMeansStored
<1>7. FewItemsLost
  <2>1. CASE c = Missing
    <3>1. {i \in Items : storage[i] = Missing} = Items
      BY <1>1, <2>1
    <3>2. lost = Cardinality(Items) /\ pc = "idle"
      BY <1>1, <2>1 DEF Init
    <3> QED BY <1>2, <3>1, <3>2 DEF FewItemsLost
  <2>2. CASE c # Missing
    <3>1. {i \in Items : storage[i] = Missing} = {}
      BY <1>1, <2>2
    <3> QED BY <1>1, <2>2, <3>1, FS_EmptySet DEF FewItemsLost, Init
  <2> QED BY <2>1, <2>2
<1>8. ReadInv
  BY DEF Init, ReadInv, Reading
<1> QED BY <1>3, <1>4, <1>5, <1>6, <1>7, <1>8 DEF IInv

\* The item the tool is at.
LEMMA AtItem ==
  ASSUME TypeOK
  PROVE  /\ Item \in Items /\ n \in Nat /\ n >= 1 /\ n <= Len(Table[table])
         /\ table = "update" => Item \notin Range(DevItems)
<1>1. /\ table \in DOMAIN Table /\ n \in 1..Len(Table[table]) /\ Len(Table[table]) \in Nat
      /\ DOMAIN Table[table] = 1..Len(Table[table]) /\ Table[table][n] \in Items
  BY Tables DEF TypeOK
<1>2. Item \in Range(Table[table])
  BY <1>1 DEF Item, Range
<1>3. table = "update" => Item \in Range(UpdateItems)
  BY <1>2, Tables
<1>4. table = "update" => Item \notin Range(DevItems)
  BY <1>3, ProvisioningAssumption
<1> QED BY <1>1, <1>4 DEF Item

\* Every step keeps every variable in its type.
LEMMA TypeStep == IInv /\ [Next]_vars => TypeOK'
<1> SUFFICES ASSUME IInv, [Next]_vars PROVE TypeOK'
  OBVIOUS
<1>0. TypeOK
  BY DEF IInv
<1>o. overlap' \in BOOLEAN
  <2>1. overlap \in BOOLEAN
    BY <1>0, Zenon DEF TypeOK
  <2>2. CASE Touches
    BY <2>2, Zenon DEF Touches
  <2>3. ASSUME NEW i \in Items, cloud_client_setup(i) PROVE overlap' \in BOOLEAN
    BY <2>3, Zenon DEF cloud_client_setup
  <2>4. CASE overlap' \in {overlap, FALSE}
    BY <2>1, <2>4, Zenon
  <2>5. \/ overlap' \in {overlap, FALSE} \/ Touches \/ \E i \in Items : cloud_client_setup(i)
    BY DEF Next, Tool, Command, InitFcc, Load, DeleteItem, StoreItem, Finalize, StatusCommand,
           application_init_fcc, DaemonExits, PowerCut, fcc_developer_flow, vars
  <2> QED BY <2>2, <2>3, <2>4, <2>5
<1> USE <1>0, <1>o DEF TypeOK, outside, Exit
<1>a. "dev" \in DOMAIN Table /\ "update" \in DOMAIN Table
      /\ 1 \in 1..Len(Table["dev"]) /\ 1 \in 1..Len(Table["update"])
  BY Tables
<1>b. ASSUME NEW ret \in {"success", "failure"}, StoreReturns(ret)
      PROVE  /\ pc' \in {"delete", "finalize"} /\ code' \in {0, 1, 2, None}
             /\ table' \in DOMAIN Table /\ n' \in 1..Len(Table[table'])
             /\ devRet' \in {"success", "failure"} /\ lost' \in Nat
  <2>1. CASE table = "dev"
    BY <1>a, <1>b, <2>1 DEF StoreReturns
  <2>2. CASE table # "dev"
    BY <1>b, <2>2 DEF StoreReturns
  <2> QED BY <2>1, <2>2
<1>1. ASSUME NEW args \in Arguments, Command(args) PROVE TypeOK'
  <2>1. command' \in Commands \cup {"usage"}
    BY <1>1 DEF Command
  <2>2. runs' \in 0..MaxRuns
    BY <1>1, ProvisioningAssumption DEF Command
  <2>3. table' \in DOMAIN Table /\ n' \in 1..Len(Table[table'])
    BY <1>1, <1>a DEF Command
  <2>4. code' \in {0, 1, 2, None} /\ pc' \in {"idle", "init", "status"}
    BY <1>1 DEF Command
  <2> QED BY <1>1, <2>1, <2>2, <2>3, <2>4 DEF Command
<1>2. CASE InitFcc \/ Load
  BY <1>2 DEF InitFcc, Load
<1>3. CASE DeleteItem
  <2>1. storage' \in [Items -> Credentials \cup {Missing}]
    BY <1>3 DEF DeleteItem
  <2> QED BY <1>3, <1>b, <2>1 DEF DeleteItem
<1>4. CASE StoreItem
  <2>1. storage' \in [Items -> Credentials \cup {Missing}]
    BY <1>4 DEF StoreItem
  <2>2. CASE \E ret \in {"success", "failure"} : StoreReturns(ret)
    BY <1>4, <1>b, <2>1, <2>2 DEF StoreItem
  <2>3. CASE n < Len(Table[table]) /\ pc' = "delete" /\ n' = n + 1
             /\ UNCHANGED <<table, devRet, code, lost>>
    <3>1. n' \in 1..Len(Table[table'])
      BY <2>3, AtItem, Tables
    <3> QED BY <1>4, <2>1, <2>3, <3>1 DEF StoreItem
  <2> QED BY <1>4, <2>2, <2>3 DEF StoreItem
<1>5. CASE Finalize
  BY <1>5, <1>a DEF Finalize, ProcessEnds
<1>6. CASE StatusCommand
  BY <1>6 DEF StatusCommand
<1>7. CASE application_init_fcc \/ DaemonExits
  BY <1>7 DEF application_init_fcc, DaemonExits, tool
<1>10. ASSUME NEW i \in Items, cloud_client_setup(i) PROVE TypeOK'
  <2>1. creds' \subseteq Credentials \cup {Missing} /\ unread' \subseteq Items
        /\ daemon' \in {"setup", "running"}
    BY <1>10 DEF cloud_client_setup
  <2> QED BY <1>10, <2>1 DEF cloud_client_setup, tool
<1>11. ASSUME NEW i \in Items, fcc_developer_flow(i) PROVE TypeOK'
  <2>1. storage' \in [Items -> Credentials \cup {Missing}]
    BY <1>11, ProvisioningAssumption DEF fcc_developer_flow
  <2> QED BY <1>11, <2>1 DEF fcc_developer_flow, tool
<1>8. CASE PowerCut
  <2>1. cuts' \in 0..MaxCuts /\ lost' \in Nat
    BY <1>8, ProvisioningAssumption DEF PowerCut
  <2> QED BY <1>8, <1>a, <2>1 DEF PowerCut, ProcessEnds
<1>9. CASE UNCHANGED vars
  BY <1>9 DEF vars, tool
<1> QED BY <1>1, <1>2, <1>3, <1>4, <1>5, <1>6, <1>7, <1>8, <1>9, <1>10, <1>11 DEF Next, Tool

\* What the invariant says beyond the types.
Sound == RunInv /\ OneSetInv /\ ReadInv /\ SuccessMeansStored /\ FewItemsLost

\* A step of the tool, which leaves the storage alone or counts as an overlap with
\* a daemon that is reading.
LEMMA ReadKept ==
  ASSUME ReadInv, UNCHANGED <<daemon, unread, creds>>,
         Touches \/ UNCHANGED <<storage, overlap>>
  PROVE  ReadInv'
<1>1. CASE UNCHANGED <<storage, overlap>>
  BY <1>1 DEF ReadInv, Reading
<1>2. CASE Touches
  <2>1. ~overlap' => ~overlap /\ ~Reading
    BY <1>2, Zenon DEF Touches
  <2>2. Reading' = Reading
    BY DEF Reading
  <2> QED BY <2>1, <2>2 DEF ReadInv
<1> QED BY <1>1, <1>2

\* A step that leaves the storage alone, with nothing being stored before it.
LEMMA QuietStep ==
  ASSUME IInv, ~Storing, storage' = storage, lost' = lost, RunInv',
         UNCHANGED <<daemon, unread, creds, overlap>>,
         pc' # "store",
         command' = "--provision" /\ code' = 0 =>
           command = "--provision" /\ code = 0 /\ source' = source
  PROVE  Sound'
<1> USE DEF IInv
<1>1. SuccessMeansStored'
  BY DEF SuccessMeansStored
<1>2. OneSetInv'
  BY DEF OneSetInv
<1>3. FewItemsLost'
  BY DEF FewItemsLost, Storing
<1>4. ReadInv'
  BY ReadKept
<1> QED BY <1>1, <1>2, <1>3, <1>4 DEF Sound

\* The commands, the loading of the files and the end of the process.
LEMMA CommandStep ==
  ASSUME IInv,
         (\E args \in Arguments : Command(args)) \/ InitFcc \/ Load \/ Finalize \/ StatusCommand
  PROVE  Sound'
<1> USE DEF IInv, outside, Exit
<1>0. None # 0
  BY ProvisioningAssumption
<1>1. ~Storing /\ storage' = storage /\ lost' = lost /\ UNCHANGED <<daemon, unread, creds, overlap>>
      /\ pc' # "store"
  BY DEF Command, InitFcc, Load, Finalize, StatusCommand, ProcessEnds, Storing
<1>2. RunInv'
  <2>1. ASSUME NEW args \in Arguments, Command(args) PROVE RunInv'
    BY <2>1 DEF Command, RunInv, Storing
  <2>2. CASE InitFcc \/ Finalize \/ StatusCommand
    BY <2>2 DEF InitFcc, Finalize, ProcessEnds, StatusCommand, RunInv, Storing
  <2>3. CASE Load
    <3>1. pc' \in {"delete", "finalize"} /\ (pc' = "delete" => code' = code)
          /\ command' = command /\ table' = "dev" /\ n' = 1 /\ command = "--provision"
          /\ code = None
      BY <2>3 DEF Load, RunInv
    <3>2. 1..(n' - 1) = {}
      BY <3>1
    <3> QED BY <3>1, <3>2 DEF RunInv, Storing
  <2> QED BY <2>1, <2>2, <2>3
<1>3. command' = "--provision" /\ code' = 0 =>
        command = "--provision" /\ code = 0 /\ source' = source
  BY <1>0 DEF Command, InitFcc, Load, Finalize, ProcessEnds, StatusCommand, RunInv
<1> QED BY <1>1, <1>2, <1>3, QuietStep

\* store returns: a failure counts as lost, and exit code 0 is for a run that has
\* stored both tables.
LEMMA ReturnStep ==
  ASSUME IInv, Storing, NEW ret \in {"success", "failure"}, StoreReturns(ret),
         UNCHANGED <<command, source, daemon, unread, creds>>, Touches,
         ret = "success" => \A k \in 1..Len(Table[table]) : storage'[Table[table][k]] = source,
         table = "update" => \A i \in Range(DevItems) : storage'[i] = storage[i],
         Cardinality(Lost(storage')) <= lost + IF ret = "failure" THEN 1 ELSE 0
  PROVE  Sound'
<1>0. /\ TypeOK /\ RunInv /\ ReadInv /\ None # 0 /\ command = "--provision"
      /\ code = None /\ lost \in Nat /\ table \in {"dev", "update"} /\ source \in Credentials
      /\ devRet \in {"success", "failure"} /\ source # Missing
  BY ProvisioningAssumption, Tables DEF IInv, RunInv, TypeOK, Storing
<1>1. ReadInv'
  BY <1>0, ReadKept
<1>2. Cardinality(Lost(storage')) \in Nat
  BY LostFinite
<1>3. CASE table = "dev"
  <2>1. /\ pc' = "delete" /\ table' = "update" /\ n' = 1 /\ devRet' = ret /\ code' = None
        /\ lost' = lost + IF ret = "failure" THEN 1 ELSE 0
    BY <1>0, <1>3 DEF StoreReturns
  <2>2. ret = "success" => \A i \in Range(DevItems) : storage'[i] = source
    <3>1. Table[table] = DevItems /\ DOMAIN DevItems = 1..Len(DevItems)
      BY <1>3, Tables
    <3> QED BY <3>1 DEF Range
  <2>3. RunInv'
    <3>1. 1..(n' - 1) = {}
      BY <2>1
    <3>2. ret = "failure" => lost' > 0
      BY <1>0, <2>1
    <3> QED BY <1>0, <2>1, <2>2, <3>1, <3>2 DEF RunInv, Storing
  <2>4. OneSetInv' /\ SuccessMeansStored'
    BY <1>0, <2>1 DEF OneSetInv, SuccessMeansStored, Storing
  <2>5. FewItemsLost'
    <3>1. Cardinality(Lost(storage')) <= lost'
      BY <2>1
    <3>2. Cardinality(Lost(storage')) <= lost' + 0
      BY <1>0, <1>2, <2>1, <3>1
    <3> QED BY <2>1, <3>2 DEF FewItemsLost, Lost
  <2> QED BY <1>1, <2>3, <2>4, <2>5 DEF Sound
<1>4. CASE table = "update"
  <2>1. /\ pc' = "finalize" /\ code' = IF devRet = "success" /\ ret = "success" THEN 0 ELSE 1
        /\ lost' = IF code' = 0 THEN 0 ELSE lost + IF ret = "failure" THEN 1 ELSE 0
    BY <1>4 DEF StoreReturns, Exit
  <2>2. RunInv'
    BY <2>1 DEF RunInv, Storing
  <2>3. ASSUME devRet = "success", ret = "success"
        PROVE  \A i \in Items : storage'[i] = source
    <3>1. \A i \in Range(DevItems) : storage'[i] = source
      BY <1>0, <1>4, <2>3 DEF RunInv
    <3>2. \A i \in Range(UpdateItems) : storage'[i] = source
      <4>1. Table[table] = UpdateItems /\ DOMAIN UpdateItems = 1..Len(UpdateItems)
        BY <1>4, Tables
      <4> QED BY <2>3, <4>1 DEF Range
    <3> QED BY <3>1, <3>2 DEF Items
  <2>4. SuccessMeansStored'
    BY <2>1, <2>3 DEF SuccessMeansStored
  <2>5. OneSetInv'
    <3>1. CASE devRet = "success" /\ ret = "success"
      BY <1>0, <2>3, <3>1 DEF OneSetInv
    <3>2. CASE ~(devRet = "success" /\ ret = "success")
      <4>1. lost' > 0
        BY <1>0, <1>4, <2>1, <3>2 DEF RunInv
      <4> QED BY <4>1 DEF OneSetInv
    <3> QED BY <3>1, <3>2
  <2>6. FewItemsLost'
    <3>1. CASE devRet = "success" /\ ret = "success"
      <4>1. Lost(storage') = {}
        BY <1>0, <2>3, <3>1 DEF Lost
      <4> QED BY <2>1, <3>1, <4>1, FS_EmptySet DEF FewItemsLost, Lost
    <3>2. CASE ~(devRet = "success" /\ ret = "success")
      BY <1>0, <1>2, <2>1, <3>2 DEF FewItemsLost, Lost
    <3> QED BY <3>1, <3>2
  <2> QED BY <1>1, <2>2, <2>4, <2>5, <2>6 DEF Sound
<1> QED BY <1>0, <1>3, <1>4

\* kcm_item_delete.
LEMMA DeleteStep ==
  ASSUME IInv, DeleteItem
  PROVE  Sound'
<1> USE DEF outside
<1>0. /\ TypeOK /\ RunInv /\ ReadInv /\ pc = "delete" /\ Storing
      /\ Cardinality(Lost(storage)) <= lost /\ lost \in Nat
  <2>1. TypeOK /\ RunInv /\ ReadInv /\ FewItemsLost /\ pc = "delete"
    BY DEF IInv, DeleteItem
  <2>2. Storing /\ lost \in Nat
    BY <2>1 DEF Storing, TypeOK
  <2>3. Cardinality(Lost(storage)) <= lost + 0
    BY <2>1 DEF FewItemsLost, Lost
  <2> QED BY <2>1, <2>2, <2>3
<1>1. ASSUME StoreReturns("failure"), UNCHANGED storage PROVE Sound'
  <2>1. Cardinality(Lost(storage')) <= lost + 1
    BY <1>0, <1>1, LostFinite
  <2>2. UNCHANGED <<command, source, daemon, unread, creds>> /\ Touches
    BY DEF DeleteItem
  <2> QED BY <1>0, <1>1, <2>1, <2>2, ReturnStep
<1>2. ASSUME storage' = [storage EXCEPT ![Item] = Missing], pc' = "store",
             UNCHANGED <<table, n, devRet, code, lost>>
      PROVE  Sound'
  <2>0. UNCHANGED <<command, source, daemon, unread, creds>> /\ Touches /\ Item' = Item
    BY <1>2 DEF DeleteItem, Item
  <2>1. /\ Item \in Items /\ storage'[Item] = Missing
        /\ \A i \in Items : i # Item => storage'[i] = storage[i]
        /\ table = "update" => Item \notin Range(DevItems)
    BY <1>0, <1>2, AtItem DEF TypeOK
  <2>2. \A k \in 1..(n - 1) : Stored(k)'
    <3> TAKE k \in 1..(n - 1)
    <3>1. storage[Table[table][k]] = source
      BY <1>0 DEF RunInv, Stored
    <3>2. Table[table][k] \in Items
      BY <1>0, AtItem, Tables DEF TypeOK
    <3> QED BY <1>2, <2>0, <2>1, <3>1, <3>2 DEF Stored
  <2>3. RunInv'
    <3>1. table = "update" /\ devRet = "success" =>
            \A i \in Range(DevItems) : storage'[i] = source
      BY <1>0, <2>1 DEF RunInv, Items
    <3> QED BY <1>0, <1>2, <2>0, <2>1, <2>2, <3>1 DEF RunInv, Storing
  <2>4. OneSetInv' /\ SuccessMeansStored' /\ ReadInv'
    <3>1. code' # 0
      BY <1>0, <1>2, ProvisioningAssumption DEF RunInv, Storing
    <3>2. ReadInv'
      BY <1>0, <2>0, ReadKept
    <3> QED BY <1>0, <1>2, <2>0, <3>1, <3>2 DEF OneSetInv, SuccessMeansStored, Storing
  <2>5. FewItemsLost'
    <3>1. Lost(storage') = Lost(storage) \cup {Item}
      BY <2>1 DEF Lost
    <3>2. /\ IsFiniteSet(Lost(storage)) /\ Cardinality(Lost(storage)) \in Nat
      BY LostFinite
    <3>3. Cardinality(Lost(storage')) <= Cardinality(Lost(storage)) + 1
      BY <3>1, <3>2, FS_AddElement
    <3>4. Cardinality(Lost(storage')) <= lost' + 1
      BY <1>0, <1>2, <3>2, <3>3, LostFinite
    <3> QED BY <1>2, <3>4 DEF FewItemsLost, Lost
  <2> QED BY <2>3, <2>4, <2>5 DEF Sound
<1> QED BY <1>1, <1>2 DEF DeleteItem

\* kcm_item_store.
LEMMA StoreStep ==
  ASSUME IInv, StoreItem
  PROVE  Sound'
<1> USE DEF outside
<1>0. /\ TypeOK /\ RunInv /\ ReadInv /\ pc = "store" /\ Storing
      /\ Cardinality(Lost(storage)) <= lost + 1 /\ lost \in Nat
  <2>1. TypeOK /\ RunInv /\ ReadInv /\ FewItemsLost /\ pc = "store"
    BY DEF IInv, StoreItem
  <2>2. Storing /\ lost \in Nat
    BY <2>1 DEF Storing, TypeOK
  <2>3. Cardinality(Lost(storage)) <= lost + 1
    BY <2>1 DEF FewItemsLost, Lost
  <2> QED BY <2>1, <2>2, <2>3
<1>u. UNCHANGED <<command, source, daemon, unread, creds>> /\ Touches
  BY DEF StoreItem
<1>1. ASSUME StoreReturns("failure"), UNCHANGED storage PROVE Sound'
  <2>1. Cardinality(Lost(storage')) <= lost + 1
    BY <1>0, <1>1
  <2> QED BY <1>0, <1>1, <1>u, <2>1, ReturnStep
<1>2. ASSUME storage[Item] = Missing, storage' = [storage EXCEPT ![Item] = source]
      PROVE  /\ \A k \in 1..n : storage'[Table[table][k]] = source
             /\ table = "update" => \A i \in Range(DevItems) : storage'[i] = storage[i]
             /\ Cardinality(Lost(storage')) <= lost
  <2>1. /\ Item \in Items /\ storage'[Item] = source /\ n \in Nat
        /\ \A i \in Items : i # Item => storage'[i] = storage[i]
        /\ table = "update" => Item \notin Range(DevItems)
    BY <1>0, <1>2, AtItem DEF TypeOK
  <2>2. ASSUME NEW k \in 1..n PROVE storage'[Table[table][k]] = source
    <3>1. Table[table][k] \in Items
      BY <1>0, AtItem, Tables DEF TypeOK
    <3>2. CASE k = n
      BY <2>1, <3>2 DEF Item
    <3>3. CASE k # n
      <4>1. k \in 1..(n - 1)
        BY <2>1, <3>3
      <4>2. Stored(k)
        BY <1>0, <4>1 DEF RunInv
      <4> QED BY <2>1, <3>1, <4>2 DEF Stored
    <3> QED BY <3>2, <3>3
  <2>3. source # Missing
    BY <1>0, ProvisioningAssumption DEF TypeOK
  <2>4. Lost(storage') = Lost(storage) \ {Item} /\ Item \in Lost(storage)
    BY <1>2, <2>1, <2>3 DEF Lost
  <2>5. IsFiniteSet(Lost(storage)) /\ Cardinality(Lost(storage)) \in Nat
    BY LostFinite
  <2>6. Cardinality(Lost(storage')) = Cardinality(Lost(storage)) - 1
    BY <2>4, <2>5, FS_RemoveElement
  <2>7. Cardinality(Lost(storage')) <= lost
    BY <1>0, <2>5, <2>6
  <2> QED BY <2>1, <2>2, <2>7 DEF Items
<1>3. ASSUME storage[Item] = Missing, storage' = [storage EXCEPT ![Item] = source], ~(n < Len(Table[table])),
             StoreReturns("success")
      PROVE  Sound'
  <2>1. n = Len(Table[table])
    BY <1>0, <1>3, AtItem, Tables DEF TypeOK
  <2>2. Cardinality(Lost(storage')) <= lost + 0
    BY <1>0, <1>2, <1>3
  <2> QED BY <1>0, <1>2, <1>3, <1>u, <2>1, <2>2, ReturnStep
<1>4. ASSUME storage[Item] = Missing, storage' = [storage EXCEPT ![Item] = source], n < Len(Table[table]),
             pc' = "delete", n' = n + 1, UNCHANGED <<table, devRet, code, lost>>
      PROVE  Sound'
  <2>1. \A k \in 1..(n' - 1) : Stored(k)'
    <3>1. n' - 1 = n
      BY <1>0, <1>4, AtItem
    <3> QED BY <1>2, <1>4, <1>u, <3>1 DEF Stored
  <2>2. RunInv'
    BY <1>0, <1>2, <1>4, <1>u, <2>1 DEF RunInv, Storing
  <2>3. OneSetInv' /\ SuccessMeansStored' /\ ReadInv'
    <3>1. code' # 0
      BY <1>0, <1>4, ProvisioningAssumption DEF RunInv, Storing
    <3>2. ReadInv'
      BY <1>0, <1>u, ReadKept
    <3> QED BY <1>0, <1>4, <1>u, <3>1, <3>2 DEF OneSetInv, SuccessMeansStored, Storing
  <2>4. FewItemsLost'
    <3>1. Cardinality(Lost(storage')) <= lost' + 0
      BY <1>0, <1>2, <1>4
    <3> QED BY <1>4, <3>1 DEF FewItemsLost, Lost
  <2> QED BY <2>2, <2>3, <2>4 DEF Sound
<1> QED BY <1>1, <1>3, <1>4 DEF StoreItem

\* The daemon verifies the storage, reads it and exits, and leaves it alone.  With
\* nothing lost its first read finds one set of credentials.
LEMMA DaemonStep ==
  ASSUME IInv,
         application_init_fcc \/ DaemonExits \/ \E i \in Items : cloud_client_setup(i)
  PROVE  Sound'
<1>1. UNCHANGED <<storage, pc, command, source, bad, table, n, devRet, code, lost>>
  BY DEF application_init_fcc, DaemonExits, cloud_client_setup, tool
<1>2. RunInv'
  BY <1>1 DEF IInv, RunInv, Storing, Stored, Item
<1>3. OneSetInv' /\ SuccessMeansStored' /\ FewItemsLost'
  BY <1>1 DEF IInv, OneSetInv, SuccessMeansStored, FewItemsLost, Storing
<1>4. ReadInv'
  <2>0. ReadInv /\ source \in Credentials
    BY DEF IInv, TypeOK
  <2>1. CASE UNCHANGED <<daemon, unread, creds, overlap>>
    BY <1>1, <2>0, <2>1, ReadKept
  <2>2. CASE creds' = {} /\ unread' = Items
    <3>1. ~Reading'
      BY <2>2 DEF Reading
    <3> QED BY <2>0, <2>2, <3>1 DEF ReadInv
  <2>3. ASSUME NEW i \in Items, cloud_client_setup(i) PROVE ReadInv'
    <3>0. /\ daemon = "setup" /\ i \in unread /\ daemon' \in {"setup", "running"}
          /\ unread' = unread \ {i} /\ creds' = creds \cup {storage[i]} /\ unread \subseteq Items
      BY <2>3 DEF cloud_client_setup, IInv, TypeOK
    <3>1. unread' # Items
      BY <3>0
    <3>2. ~overlap' => ~overlap /\ ~(unread = Items /\ (Storing \/ lost > 0))
      BY <2>3, Zenon DEF cloud_client_setup
    <3>3. ASSUME ~overlap'
          PROVE  \E c \in Credentials : creds' \subseteq {c} /\ \A k \in Items : storage[k] = c
      <4>1. CASE unread = Items
        <5>1. creds = {} /\ ~Storing /\ lost = 0
          BY <2>0, <3>0, <3>2, <3>3, <4>1 DEF ReadInv, IInv, TypeOK
        <5>2. PICK c \in Credentials : \A k \in Items : storage[k] = c
          BY <5>1 DEF IInv, OneSetInv
        <5> QED BY <3>0, <5>1, <5>2
      <4>2. CASE unread # Items
        <5>1. PICK c \in Credentials : creds \subseteq {c} /\ \A k \in Items : storage[k] = c
          BY <2>0, <3>0, <3>2, <3>3, <4>2 DEF ReadInv, Reading
        <5> QED BY <3>0, <5>1
      <4> QED BY <4>1, <4>2
    <3> QED BY <1>1, <3>0, <3>1, <3>3 DEF ReadInv
  <2> QED BY <2>1, <2>2, <2>3 DEF application_init_fcc, DaemonExits
<1> QED BY <1>2, <1>3, <1>4 DEF Sound

\* The developer flow adds an item that was lost, before the daemon reads any.
LEMMA DeveloperStep ==
  ASSUME IInv, NEW i \in Items, fcc_developer_flow(i)
  PROVE  Sound'
<1>1. /\ daemon = "off" /\ storage[i] = Missing /\ BuiltIn # Missing
      /\ storage'[i] = BuiltIn /\ \A k \in Items : k # i => storage'[k] = storage[k]
      /\ UNCHANGED <<pc, command, source, bad, table, n, devRet, code, lost,
                     daemon, unread, creds, overlap>>
  <2>1. BuiltIn \in Credentials
    BY ProvisioningAssumption DEF fcc_developer_flow
  <2> QED BY <2>1, ProvisioningAssumption DEF fcc_developer_flow, tool, outside, IInv, TypeOK
<1>2. /\ TypeOK /\ RunInv /\ OneSetInv /\ ReadInv /\ SuccessMeansStored /\ FewItemsLost
      /\ source # Missing /\ Missing \notin Credentials /\ lost \in Nat
  BY ProvisioningAssumption DEF IInv, TypeOK
<1>3. \A k \in Items : storage[k] = source => storage'[k] = source
  BY <1>1, <1>2
<1>4. RunInv'
  <2>1. \A k \in 1..(n - 1) : Storing => Table[table][k] \in Items
    BY <1>2, AtItem, Tables DEF TypeOK
  <2>2. Storing => \A k \in 1..(n - 1) : Stored(k)'
    BY <1>1, <1>2, <1>3, <2>1 DEF RunInv, Stored, Item
  <2>3. Range(DevItems) \subseteq Items
    BY DEF Items
  <2> QED BY <1>1, <1>2, <1>3, <2>2, <2>3 DEF RunInv, Storing
<1>5. OneSetInv' /\ SuccessMeansStored'
  BY <1>1, <1>2 DEF OneSetInv, SuccessMeansStored, Storing
<1>6. FewItemsLost'
  <2>1. Lost(storage') = Lost(storage) \ {i} /\ i \in Lost(storage)
    BY <1>1 DEF Lost
  <2>2. Cardinality(Lost(storage')) = Cardinality(Lost(storage)) - 1
    BY <2>1, LostFinite, FS_RemoveElement
  <2>3. Cardinality(Lost(storage)) \in Nat
    BY LostFinite
  <2> QED BY <1>1, <1>2, <2>2, <2>3 DEF FewItemsLost, Lost
<1>7. ReadInv'
  BY <1>1, <1>2 DEF ReadInv, Reading
<1> QED BY <1>4, <1>5, <1>6, <1>7 DEF Sound

\* A power cut while an item is stored counts as lost.
LEMMA CutStep ==
  ASSUME IInv, PowerCut
  PROVE  Sound'
<1>1. /\ pc' = "idle" /\ code' = None /\ storage' = storage
      /\ creds' = {} /\ daemon' = "off"
      /\ lost' = IF Storing THEN lost + 1 ELSE lost
  BY DEF PowerCut, ProcessEnds
<1>2. lost \in Nat /\ Cardinality(Lost(storage)) \in Nat
  BY LostFinite DEF IInv, TypeOK
<1>3. RunInv' /\ SuccessMeansStored'
  BY <1>1, ProvisioningAssumption DEF RunInv, SuccessMeansStored, Storing
<1>4. OneSetInv'
  BY <1>1, <1>2 DEF IInv, OneSetInv
<1>5. FewItemsLost'
  <2>1. Cardinality(Lost(storage)) <= lost + IF pc = "store" THEN 1 ELSE 0
    BY DEF IInv, FewItemsLost, Lost
  <2>2. Cardinality(Lost(storage')) <= lost' + 0
    BY <1>1, <1>2, <2>1 DEF Storing
  <2> QED BY <1>1, <2>2 DEF FewItemsLost, Lost
<1>6. ReadInv'
  <2>1. source \in Credentials
    BY DEF IInv, TypeOK
  <2> QED BY <1>1, <2>1 DEF ReadInv, Reading
<1> QED BY <1>3, <1>4, <1>5, <1>6 DEF Sound

LEMMA StepIInv == IInv /\ [Next]_vars => IInv'
<1> SUFFICES ASSUME IInv, [Next]_vars PROVE IInv'
  OBVIOUS
<1>1. TypeOK'
  BY TypeStep
<1>2. ASSUME UNCHANGED vars PROVE Sound'
  BY <1>2 DEF vars, tool, IInv, Sound, RunInv, OneSetInv, SuccessMeansStored, FewItemsLost,
     ReadInv, Reading, Storing, Stored, Item
<1>3. Sound'
  BY <1>2, CommandStep, DeleteStep, StoreStep, DaemonStep, DeveloperStep, CutStep DEF Next, Tool
<1> QED BY <1>1, <1>3 DEF IInv, Sound

LEMMA Invariance == Spec => []IInv
<1> QED BY InitIInv, StepIInv, PTL DEF Spec

----------------------------------------------------------------------------
(* Theorems.                                                               *)

\* The tool, the storage and the daemon keep their types, and the index of the
\* item never leaves its table.
THEOREM TypeCorrect == Spec => []TypeOK
<1>1. IInv => TypeOK
  BY DEF IInv
<1> QED BY <1>1, Invariance, PTL

\* Exit code 0 of --provision means that every item of both tables of
\* handle_store_command is from the files of that run.
THEOREM ProvisionedAsAsked == Spec => []SuccessMeansStored
<1>1. IInv => SuccessMeansStored
  BY DEF IInv
<1> QED BY <1>1, Invariance, PTL

\* PelionProvisioner::store loses at most one item for each of its calls that
\* fails or is cut off, however long the tables are.
THEOREM LossBounded == Spec => []FewItemsLost
<1>1. IInv => FewItemsLost
  BY DEF IInv
<1> QED BY <1>1, Invariance, PTL

\* A daemon whose setup() did not overlap with the tool's storing, and did not
\* begin after a run that failed or was cut off, has read credentials of one set
\* and missed none, however much time and however many runs lie between its
\* verification of the storage and its first read.
THEOREM DaemonConsistent == Spec => []DaemonUsesOneSet
<1>1. IInv => DaemonUsesOneSet
  <2> SUFFICES ASSUME IInv, ~overlap PROVE Cardinality(creds) <= 1 /\ Missing \notin creds
    BY DEF DaemonUsesOneSet
  <2>1. PICK c \in Credentials : creds \subseteq {c}
    BY DEF IInv, ReadInv
  <2>2. creds = {} \/ creds = {c}
    BY <2>1
  <2>3. Cardinality({}) = 0 /\ Cardinality({c}) = 1
    BY FS_EmptySet, FS_Singleton, Zenon
  <2>4. Cardinality(creds) \in {0, 1}
    BY <2>2, <2>3
  <2> QED BY <2>1, <2>4, ProvisioningAssumption
<1> QED BY <1>1, Invariance, PTL

=============================================================================
