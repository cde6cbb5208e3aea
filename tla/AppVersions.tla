----------------------------- MODULE AppVersions ----------------------------
(***************************************************************************)
(* What an application update promises about the versions that a boot      *)
(* runs, without the installations, the containers and the rollback.  An   *)
(* update tries the new versions beside those in use, which stay the ones  *)
(* that boot; then it replaces them one by one, each by a later version.   *)
(* It may end at any moment, by an error or a power cut, and nothing       *)
(* changes between updates.                                                *)
(***************************************************************************)
EXTENDS Naturals

CONSTANTS Apps, Versions, NoVersion

VARIABLES boots,    \* the version of each application that a boot runs, or Nothing
          phase,    \* what the update does
          fresh,    \* applications that had no version when the last update began
          blocked   \* applications that a boot passes over, whatever they have

vars == <<boots, phase, fresh, blocked>>

\* A version whose removal failed part way through may still look complete.
Bundle == [version : Versions, kind : {"incomplete", "release"}]

Nothing == [version |-> NoVersion, kind |-> "absent"]

Missing == {a \in Apps : boots[a] = Nothing}

Init ==
  /\ boots \in [Apps -> {Nothing, [version |-> 0, kind |-> "release"]}]
  /\ phase = "rest"
  /\ fresh = Missing
  /\ blocked = {}

Begin == /\ phase = "rest" /\ phase' \in {"rest", "trying"}
         /\ fresh' = Missing
         /\ UNCHANGED <<boots, blocked>>

\* Only what was not there before may come and go.  A new version that is broken may
\* block its application.
Try == /\ phase = "trying" /\ phase' \in {"rest", "trying"}
       /\ UNCHANGED fresh
       /\ \A a \in Apps \ fresh : boots'[a] = boots[a]
       /\ boots' \in [Apps -> Bundle \cup {Nothing}]
       /\ blocked' \in SUBSET Apps

Commit == phase = "trying" /\ phase' = "replacing" /\ UNCHANGED <<boots, fresh, blocked>>

\* A later version boots, or what is left of the one that is being removed.
Replace(a) ==
  /\ phase = "replacing" /\ phase' \in {"rest", "replacing"}
  /\ boots[a] # Nothing /\ boots'[a] \in Bundle
  /\ \/ boots'[a].version > boots[a].version
     \/ boots'[a].version = boots[a].version /\ boots'[a].kind = "incomplete"
  /\ boots' = [boots EXCEPT ![a] = boots'[a]]
  /\ UNCHANGED <<fresh, blocked>>

Stop == phase' = "rest" /\ UNCHANGED <<boots, fresh, blocked>>

Next == Begin \/ Try \/ Commit \/ (\E a \in Apps : Replace(a)) \/ Stop

Spec == Init /\ [][Next]_vars
=============================================================================
