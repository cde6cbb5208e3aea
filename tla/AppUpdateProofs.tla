-------------------------- MODULE AppUpdateProofs ---------------------------
(***************************************************************************)
(* Proofs about the application update, for any applications and packages, *)
(* any number of versions and of power cuts.                               *)
(***************************************************************************)
EXTENDS AppUpdate, FiniteSetTheorems, TLAPS

----------------------------------------------------------------------------
(* The inductive invariant.                                                *)

\* The bundles of an application now, and when the update began.
Now(a)  == OciBundles(dirs[a])
Then(a) == OciBundles(before[a])

\* The indices of _installed_apps.
Places == 1..Len(installed)

\* A container that does not exist has no version.
Sound(c) == c \in Containers /\ (c.state = "does not exist" => c.version = NoVersion)

ContainerInv == \A a \in Apps : Sound(container[a])

\* The manager runs when run-all is done, and a result stands while neither runs.
\* Versions are removed for good in the phase "remove" only.
ControlInv ==
  /\ pc # "idle" \/ booting # {} => result = "none"
  /\ pc # "idle" => booting = {} /\ (committing <=> pc = "remove")
  /\ pc = "install" => Room(ipks) /\ (ipks = <<>> => installed # <<>>)

\* The lowest version from before the update is there and still the lowest.
LowestKept(a) ==
  LET v == Min(Then(a))
  IN  v \in Now(a) /\ dirs[a][v] = before[a][v] /\ \A w \in Now(a) : v <= w

BootInv == ~committing => \A a \in Apps : Then(a) # {} => LowestKept(a)

\* The paths of an application that was installed: the current one is that of the
\* lowest version, if there was any, and the new one was not in use.
RecordSound(r) ==
  /\ r.new \notin Then(r.name)
  /\ r.cur # NoVersion => r.cur < r.new
  /\ r.cur = NoVersion => Then(r.name) = {}
  /\ Then(r.name) # {} => r.cur = Min(Then(r.name))

\* Where the package holds an application twice, the second one has a predecessor.
RecordInv ==
  pc # "idle" => \A k \in Places :
    /\ RecordSound(installed[k])
    /\ \A j \in 1..(k - 1) : installed[j].name = installed[k].name => installed[k].cur # NoVersion

\* Every bundle was there before or is one that the update installed, and until the
\* update removes previous versions those from before are all there.
DirsInv ==
  pc # "idle" =>
    /\ \A a \in Apps : \A v \in Now(a) \ Then(a) :
         \E k \in Places : installed[k].name = a /\ installed[k].new = v
    /\ pc # "remove" => \A a \in Apps : Then(a) \subseteq Now(a)

New(k) == dirs[installed[k].name][installed[k].new]

\* Until something is removed, the new versions are as they were installed.
InstalledInv ==
  pc \in {"install", "stop", "run", "remove", "rbstop"} =>
    \A k \in Places : New(k) \in {"partial", "unreadable", "release"}

ContainerOf(k) == container[installed[k].name]

Gone(k) == ContainerOf(k).state = "does not exist"

\* What the loop of each phase has done at index i, and what the phases before it
\* have.
LoopInv ==
  /\ pc \in {"cleanup", "rbremove"} => \A k \in 1..(i - 1) : New(k) = "absent"
  /\ pc = "run" => \A k \in 1..(i - 1) : New(k) \in Bundles /\ ContainerOf(k).version = installed[k].new
  /\ pc = "remove" =>
       /\ \A k \in Places : New(k) \in Bundles /\ ContainerOf(k).version = installed[k].new
       /\ \A k \in 1..(i - 1) : installed[k].cur # NoVersion =>
            dirs[installed[k].name][installed[k].cur] = "absent"
  /\ pc = "rbstop" => \A k \in 1..(i - 1) : Gone(k)
  /\ pc = "rbremove" => \A k \in Places : Gone(k)
  /\ pc = "rbrun" =>
       /\ \A k \in Places : New(k) = "absent"
       /\ \A k \in 1..(i - 1) : ContainerOf(k).version = installed[k].cur
       /\ \A k \in i..Len(installed) :
            Gone(k) \/ \E j \in 1..(i - 1) : installed[j].name = installed[k].name

\* The parts of RollbackRestores and CleanUpRestores that are about the bundles.
VersionsRestored ==
  result = "restored" =>
    \A r \in Range(installed) : /\ BundlesOf(dirs, r.name) = BundlesOf(before, r.name)
                                /\ container[r.name].version = r.cur

VersionsCleaned ==
  result = "cleaned" => \A a \in Apps : BundlesOf(dirs, a) = BundlesOf(before, a)

IInv == /\ TypeOK /\ ContainerInv /\ ControlInv /\ BootInv
        /\ RecordInv /\ DirsInv /\ InstalledInv /\ LoopInv
        /\ SuccessInstalls /\ VersionsRestored /\ VersionsCleaned

----------------------------------------------------------------------------
(* The operators of the model.                                             *)

\* A set of version numbers has a lowest and a highest one.
LEMMA MinProp ==
  ASSUME NEW S \in SUBSET Versions, S # {}
  PROVE  Min(S) \in S /\ \A w \in S : Min(S) <= w
<1>1. S \subseteq Nat
  BY AppManagerAssumption DEF Versions
<1>2. PICK v \in S : \A w \in S : ~(<<w, v>> \in OpToRel(<, Nat))
  BY <1>1, NatLessThanWellFounded, WFMin
<1>3. \A w \in S : ~(w < v)
  BY <1>1, <1>2, Zenon DEF OpToRel
<1>4. \A w \in S : v <= w
  BY <1>1, <1>3
<1> QED BY <1>4 DEF Min

LEMMA MaxProp ==
  ASSUME NEW S \in SUBSET Versions, S # {}
  PROVE  Max(S) \in S /\ \A w \in S : w <= Max(S)
<1>1. S \subseteq Nat /\ MaxVersion \in Nat /\ \A w \in S : w <= MaxVersion
  BY AppManagerAssumption DEF Versions
<1> DEFINE T == {MaxVersion - w : w \in S}
<1>2. T \subseteq Nat /\ T # {}
  <2>1. \A w \in S : MaxVersion - w \in Nat
    BY <1>1
  <2> QED BY <2>1
<1>3. PICK t \in T : \A u \in T : ~(<<u, t>> \in OpToRel(<, Nat))
  BY <1>2, NatLessThanWellFounded, WFMin
<1>4. \A u \in T : t <= u
  <2> HIDE DEF T
  <2>1. \A u \in T : ~(u < t)
    BY <1>2, <1>3, Zenon DEF OpToRel
  <2> QED BY <1>2, <2>1
<1>5. PICK v \in S : t = MaxVersion - v
  OBVIOUS
<1>6. ASSUME NEW w \in S PROVE w <= v
  <2>1. t <= MaxVersion - w
    BY <1>4
  <2> QED BY <1>1, <1>5, <2>1
<1>7. \A w \in S : v >= w
  BY <1>1, <1>6
<1>8. Max(S) \in S /\ \A w \in S : Max(S) >= w
  BY <1>7 DEF Max
<1> QED BY <1>1, <1>8

LEMMA MinUnique ==
  ASSUME NEW S \in SUBSET Versions, NEW v \in S, \A w \in S : v <= w
  PROVE  Min(S) = v
<1>1. S \subseteq Nat
  BY AppManagerAssumption DEF Versions
<1>2. Min(S) \in S /\ \A w \in S : Min(S) <= w
  BY MinProp
<1>3. v \in Nat /\ Min(S) \in Nat /\ v <= Min(S) /\ Min(S) <= v
  BY <1>1, <1>2
<1> QED BY <1>3

\* A package has one ipk less of the application that was installed.
LEMMA OccurrencesTail ==
  ASSUME NEW s \in Seq(Apps), s # <<>>, NEW a \in Apps
  PROVE  /\ Tail(s) \in Seq(Apps) /\ Len(s) \in Nat
         /\ Occurrences(s, a) \in Nat /\ Occurrences(Tail(s), a) \in Nat
         /\ Occurrences(s, a) = Occurrences(Tail(s), a) + (IF Head(s) = a THEN 1 ELSE 0)
<1> DEFINE n == Len(s)  S == {k \in DOMAIN s : s[k] = a}
           t == Tail(s)  T == {k \in DOMAIN t : t[k] = a}
<1>1. /\ n \in Nat \ {0} /\ DOMAIN s = 1..n /\ Head(s) = s[1]
      /\ t \in Seq(Apps) /\ Len(t) = n - 1 /\ DOMAIN t = 1..(n - 1)
      /\ \A k \in 1..(n - 1) : t[k] = s[k + 1]
  OBVIOUS
<1> HIDE DEF n, t
<1>2. IsFiniteSet(1..n) /\ S \subseteq 1..n
  BY <1>1, FS_Interval
<1>3. IsFiniteSet(S) /\ Cardinality(S) \in Nat
  BY <1>2, FS_Subset, FS_CardinalityType
<1>4. /\ IsFiniteSet(S \ {1})
      /\ Cardinality(S \ {1}) = IF 1 \in S THEN Cardinality(S) - 1 ELSE Cardinality(S)
  BY <1>3, FS_RemoveElement
<1>5. IsFiniteSet(T) /\ Cardinality(T) = Cardinality(S \ {1})
  <2> DEFINE f == [k \in S \ {1} |-> k - 1]
  <2>1. f \in [S \ {1} -> T]
    BY <1>1
  <2>2. IsInjective(f)
    BY <1>1 DEF IsInjective
  <2>3. ASSUME NEW k \in T PROVE \E m \in S \ {1} : f[m] = k
    <3>1. k + 1 \in S \ {1} /\ f[k + 1] = k
      BY <1>1
    <3> QED BY <3>1
  <2>4. f \in Bijection(S \ {1}, T)
    <3> HIDE DEF f, S, T
    <3> QED BY <2>1, <2>2, <2>3 DEF Bijection, Injection, Surjection
  <2>5. ExistsBijection(S \ {1}, T)
    BY <2>4 DEF ExistsBijection
  <2> QED BY <1>4, <2>5, FS_Bijection
<1>6. 1 \in S <=> Head(s) = a
  BY <1>1
<1>7. Cardinality(T) \in Nat
  BY <1>5, FS_CardinalityType
<1>8. Occurrences(s, a) = Cardinality(S) /\ Occurrences(t, a) = Cardinality(T)
  BY DEF Occurrences
<1> HIDE DEF S, T
<1>9. Occurrences(s, a) = Occurrences(t, a) + (IF Head(s) = a THEN 1 ELSE 0)
  BY <1>3, <1>4, <1>5, <1>6, <1>7, <1>8
<1> QED BY <1>1, <1>3, <1>7, <1>8, <1>9 DEF t, n

VersionDirs == [Versions -> Kinds]

\* What a step on one version directory does to the directories of an application.
OneDir(ds, es, v) == es \in VersionDirs /\ \A w \in Versions \ {v} : es[w] = ds[w]

LEMMA RemoveProp ==
  ASSUME NEW ds \in VersionDirs, NEW v \in Versions, NEW o \in remove_app(ds, v)
  PROVE  /\ OneDir(ds, o.dirs, v)
         /\ o.res = "ok" => o.dirs[v] = "absent"
         /\ o.dirs[v] \in Bundles => ds[v] \in Bundles /\ o.dirs[v] \in {ds[v], "incomplete"}
         /\ o.dirs[v] = "unreadable" => ds[v] = "unreadable"
<1>1. CASE ds[v] = "absent"
  BY <1>1 DEF remove_app, Outcome, OneDir, VersionDirs
<1>2. CASE ds[v] # "absent"
  <2>1. \/ o = Outcome("ok", [ds EXCEPT ![v] = "absent"])
        \/ \E k \in Remains(ds[v]) : o = Outcome("AppUninstallError", [ds EXCEPT ![v] = k])
    BY <1>2 DEF remove_app
  <2>2. CASE o = Outcome("ok", [ds EXCEPT ![v] = "absent"])
    BY <2>2 DEF Outcome, OneDir, VersionDirs, Kinds, Bundles
  <2>3. ASSUME NEW k \in Remains(ds[v]), o = Outcome("AppUninstallError", [ds EXCEPT ![v] = k])
        PROVE  /\ OneDir(ds, o.dirs, v)
               /\ o.res = "ok" => o.dirs[v] = "absent"
               /\ o.dirs[v] \in Bundles => ds[v] \in Bundles /\ o.dirs[v] \in {ds[v], "incomplete"}
               /\ o.dirs[v] = "unreadable" => ds[v] = "unreadable"
    <3>1. /\ k \in Kinds /\ (k \in Bundles => ds[v] \in Bundles /\ k \in {ds[v], "incomplete"})
          /\ k = "unreadable" => ds[v] = "unreadable"
      BY DEF Remains, Kinds, Bundles, VersionDirs
    <3>2. o.res # "ok" /\ o.dirs = [ds EXCEPT ![v] = k]
      BY <2>3 DEF Outcome
    <3> QED BY <3>1, <3>2 DEF OneDir, VersionDirs
  <2> QED BY <2>1, <2>2, <2>3
<1> QED BY <1>1, <1>2

\* An installation that ends without an exception leaves a bundle or none at all,
\* one that fails and was cleaned up leaves nothing.
LEMMA InstallProp ==
  ASSUME NEW ds \in VersionDirs, NEW v \in Versions, NEW o \in install_app(ds, v)
  PROVE  /\ OneDir(ds, o.dirs, v)
         /\ o.res = "ok" => o.dirs[v] \in {"partial", "unreadable", "release"}
         /\ o.res = "AppInstallError" => o.dirs[v] = "absent"
<1>1. \/ \E k \in {"partial", "unreadable", "release"} : o = Outcome("ok", [ds EXCEPT ![v] = k])
      \/ ds[v] = "absent" /\ o = Outcome("AppInstallError", ds)
      \/ \E k \in {"partial", "unreadable", "incomplete"} : \E p \in remove_app([ds EXCEPT ![v] = k], v) :
           o = AfterCleanUp(p)
  BY DEF install_app
<1>2. CASE \E k \in {"partial", "unreadable", "release"} : o = Outcome("ok", [ds EXCEPT ![v] = k])
  BY <1>2 DEF Outcome, OneDir, VersionDirs, Kinds
<1>3. CASE ds[v] = "absent" /\ o = Outcome("AppInstallError", ds)
  BY <1>3 DEF Outcome, OneDir, VersionDirs
<1>4. ASSUME NEW k \in {"partial", "unreadable", "incomplete"},
             NEW p \in remove_app([ds EXCEPT ![v] = k], v), o = AfterCleanUp(p)
      PROVE  /\ OneDir(ds, o.dirs, v)
             /\ o.res = "ok" => o.dirs[v] \in {"partial", "unreadable", "release"}
             /\ o.res = "AppInstallError" => o.dirs[v] = "absent"
  <2> DEFINE es == [ds EXCEPT ![v] = k]
  <2>1. es \in VersionDirs /\ es[v] # "absent" /\ \A w \in Versions \ {v} : es[w] = ds[w]
    BY DEF VersionDirs, Kinds
  <2> HIDE DEF es
  <2>2. OneDir(es, p.dirs, v) /\ (p.res = "ok" => p.dirs[v] = "absent")
    BY <1>4, <2>1, RemoveProp DEF es
  <2>3. p.res \in {"ok", "AppUninstallError"}
    BY <1>4, <2>1 DEF es, remove_app, Outcome
  <2>4. o.dirs = p.dirs /\ o.res # "ok" /\ (o.res = "AppInstallError" => p.res = "ok")
    BY <1>4, <2>3 DEF AfterCleanUp, Outcome
  <2> QED BY <2>1, <2>2, <2>4 DEF OneDir
<1> QED BY <1>1, <1>2, <1>3, <1>4

LEMMA StoppedSound ==
  ASSUME NEW c, Sound(c)
  PROVE  Sound(Stopped(c)) /\ Stopped(c).state = "stopped" /\ Stopped(c).version = c.version
BY DEF Sound, Stopped, Containers, ContainerStates

LEMMA NoContainerSound == Sound(NoContainer)
BY DEF Sound, NoContainer, Containers, ContainerStates

\* How an operation on a container ends: it leaves a sound one, and none at all when
\* it stopped an application without an exception.
StopsWell(c, o) == /\ Sound(o.container)
                   /\ o.container.version \in {c.version, NoVersion}
                   /\ o.res = "ok" => o.container.state = "does not exist"

LEMMA DeleteProp ==
  ASSUME NEW c, Sound(c), NEW o \in delete(c)
  PROVE  StopsWell(c, o)
<1>1. \/ o.res = "ok" /\ o.container = NoContainer
      \/ o.res # "ok" /\ o.container = c
  BY DEF delete, End
<1>2. NoContainer.state = "does not exist" /\ NoContainer.version = NoVersion
  BY DEF NoContainer
<1> QED BY <1>1, <1>2, NoContainerSound DEF StopsWell

LEMMA WaitProp ==
  ASSUME NEW c, Sound(c), NEW o \in WaitAndDelete(c)
  PROVE  StopsWell(c, o)
<1>1. \/ o \in delete(Stopped(c))
      \/ o.res # "ok" /\ o.container \in {c, Stopped(c)}
  BY DEF WaitAndDelete, End
<1>2. Sound(Stopped(c)) /\ Stopped(c).version = c.version
  BY StoppedSound
<1>3. CASE o \in delete(Stopped(c))
  <2>1. StopsWell(Stopped(c), o)
    BY <1>2, <1>3, DeleteProp
  <2> QED BY <1>2, <2>1 DEF StopsWell
<1>4. CASE o.res # "ok" /\ o.container \in {c, Stopped(c)}
  BY <1>2, <1>4 DEF StopsWell
<1> QED BY <1>1, <1>3, <1>4

LEMMA KillProp ==
  ASSUME NEW c, Sound(c), NEW o \in kill_app(c)
  PROVE  StopsWell(c, o)
<1>1. \/ o.res # "ok" /\ o.container = c
      \/ o \in delete(c) \/ o \in WaitAndDelete(c)
  BY DEF kill_app, End
<1>2. CASE o.res # "ok" /\ o.container = c
  BY <1>2 DEF StopsWell
<1>3. CASE o \in delete(c) \/ o \in WaitAndDelete(c)
  BY <1>3, DeleteProp, WaitProp
<1> QED BY <1>1, <1>2, <1>3

LEMMA TerminateProp ==
  ASSUME NEW c, Sound(c), NEW o \in terminate_app(c)
  PROVE  StopsWell(c, o)
<1>1. \/ (c.state = "does not exist" \/ o.res # "ok") /\ o.container = c
      \/ o \in delete(c) \/ o \in WaitAndDelete(c)
      \/ o \in kill_app(c) \/ o \in kill_app(Stopped(c))
  <2>1. \/ o = End("ContainerKillError", c)
        \/ c.state = "does not exist" /\ o = End("ok", c)
        \/ o \in delete(c) \/ o \in WaitAndDelete(c)
        \/ o \in kill_app(c) \/ o \in kill_app(Stopped(c))
    BY DEF terminate_app
  <2>2. ASSUME o = End("ContainerKillError", c) PROVE o.res # "ok" /\ o.container = c
    BY <2>2 DEF End
  <2>3. ASSUME o = End("ok", c) PROVE o.container = c
    BY <2>3 DEF End
  <2> QED BY <2>1, <2>2, <2>3
<1>2. CASE (c.state = "does not exist" \/ o.res # "ok") /\ o.container = c
  BY <1>2 DEF StopsWell
<1>3. CASE o \in delete(c) \/ o \in WaitAndDelete(c)
  BY <1>3, DeleteProp, WaitProp
<1>4. CASE o \in kill_app(c) \/ o \in kill_app(Stopped(c))
  <2>1. Sound(Stopped(c)) /\ Stopped(c).version = c.version
    BY StoppedSound
  <2>2. StopsWell(c, o) \/ StopsWell(Stopped(c), o)
    BY <1>4, <2>1, KillProp
  <2> QED BY <2>1, <2>2 DEF StopsWell
<1> QED BY <1>1, <1>2, <1>3, <1>4

\* An application that runs had no container, and a bundle at its path.
RunsWell(c, ds, v, o) ==
  /\ Sound(o.container)
  /\ \/ o.container.version = c.version
     \/ o.container.version = v /\ ds[v] \in Bundles
  /\ o.res = "ok" => /\ c.state = "does not exist" /\ c.version = NoVersion
                     /\ ds[v] \in Bundles /\ o.container.version = v

LEMMA RunProp ==
  ASSUME NEW c, Sound(c), NEW ds, NEW v \in Versions, NEW o \in run_app(c, ds, v)
  PROVE  RunsWell(c, ds, v, o)
<1> USE DEF RunsWell
<1>1. \/ o.res # "ok" /\ o.container = c
      \/ /\ c.state = "does not exist" /\ ds[v] \in Bundles
         /\ \E s \in {"running", "created"} : o.container = [state |-> s, version |-> v]
  <2>1. \/ o \in {End("ContainerStateError", c), End("ContainerAlreadyExistError", c),
                  End("ContainerCreationError", c)}
        \/ /\ c.state = "does not exist" /\ ds[v] \in Bundles
           /\ \/ o = End("ok", [state |-> "running", version |-> v])
              \/ o = End("ContainerStartError", [state |-> "created", version |-> v])
    BY DEF run_app
  <2>2. ASSUME o \in {End("ContainerStateError", c), End("ContainerAlreadyExistError", c),
                      End("ContainerCreationError", c)}
        PROVE  o.res # "ok" /\ o.container = c
    BY <2>2 DEF End
  <2>3. ASSUME o = End("ok", [state |-> "running", version |-> v])
        PROVE  o.container = [state |-> "running", version |-> v]
    BY <2>3 DEF End
  <2>4. ASSUME o = End("ContainerStartError", [state |-> "created", version |-> v])
        PROVE  o.container = [state |-> "created", version |-> v]
    BY <2>4 DEF End
  <2> QED BY <2>1, <2>2, <2>3, <2>4
<1>2. \A s \in {"running", "created"} : Sound([state |-> s, version |-> v])
  BY DEF Sound, Containers, ContainerStates
<1>3. CASE o.res # "ok" /\ o.container = c
  BY <1>3
<1>4. CASE /\ c.state = "does not exist" /\ ds[v] \in Bundles
           /\ \E s \in {"running", "created"} : o.container = [state |-> s, version |-> v]
  <2>1. PICK s \in {"running", "created"} : o.container = [state |-> s, version |-> v]
    BY <1>4
  <2>2. o.container.version = v
    BY <2>1
  <2>3. Sound(o.container)
    BY <1>2, <2>1
  <2>4. c.version = NoVersion
    BY <1>4 DEF Sound
  <2> QED BY <1>4, <2>2, <2>3, <2>4
<1> QED BY <1>1, <1>3, <1>4

\* run-all and the run command keep the lowest version of an application.
LEMMA BootProp ==
  ASSUME NEW a \in Apps, dirs[a] \in VersionDirs, Sound(container[a]),
         NEW o \in run_app_from_parent_dir(a)
  PROVE  /\ o.dirs \in VersionDirs /\ Sound(o.container)
         /\ OciBundles(o.dirs) \subseteq Now(a)
         /\ Now(a) # {} => o.dirs[Min(Now(a))] = dirs[a][Min(Now(a))]
         /\ \A w \in Versions : o.dirs[w] = "unreadable" <=> dirs[a][w] = "unreadable"
         /\ o.container.version # NoVersion =>
              \/ o.container.version = container[a].version /\ o.dirs = dirs[a]
              \/ Now(a) # {} /\ o.container.version = Min(Now(a))
<1> DEFINE ds == dirs[a]
           low == Min(Now(a))
           others == Now(a) \ {low}
           Goal == /\ o.dirs \in VersionDirs /\ Sound(o.container)
                   /\ OciBundles(o.dirs) \subseteq Now(a)
                   /\ Now(a) # {} => o.dirs[low] = ds[low]
                   /\ \A w \in Versions : o.dirs[w] = "unreadable" <=> ds[w] = "unreadable"
                   /\ o.container.version # NoVersion =>
                        \/ o.container.version = container[a].version /\ o.dirs = ds
                        \/ Now(a) # {} /\ o.container.version = low
<1>1. \/ o.dirs = ds /\ o.container = container[a]
      \/ /\ Now(a) # {}
         /\ \E p \in run_app(container[a], ds, low) :
              /\ o.container = p.container
              /\ \/ o.dirs = ds
                 \/ p.res = "ok" /\ o.dirs = Removed(ds, others)
                 \/ /\ p.res = "ok"
                    /\ \E w \in others : \E gone \in SUBSET (others \ {w}) : \E k \in Remains(ds[w]) :
                         o.dirs = [Removed(ds, gone) EXCEPT ![w] = k]
  <2> DEFINE runs == run_app(container[a], ds, low)
             ran == {p \in runs : p.res = "ok"}
             Both(res, d, c) == [res |-> res, dirs |-> d, container |-> c]
             A == {Both(p.res, ds, p.container) : p \in runs \ ran}
             B == {Both("ok", Removed(ds, others), p.container) : p \in ran}
             C(w) == {Both("OSError", [Removed(ds, gone) EXCEPT ![w] = k], p.container) :
                        p \in ran, gone \in SUBSET (others \ {w}), k \in Remains(ds[w])}
  <2>1. \/ \E res \in {"ok", "ValueError"} : o = Both(res, ds, container[a])
        \/ Now(a) # {} /\ o \in A \cup B \cup UNION {C(w) : w \in others}
    <3>1. run_app_from_parent_dir(a) =
            IF get_oci_bundle_paths(ds) = {} THEN {Both("ValueError", ds, container[a])}
            ELSE IF Now(a) = {} THEN {Both("ok", ds, container[a])}
                           ELSE A \cup B \cup UNION {C(w) : w \in others}
      BY DEF run_app_from_parent_dir, Now
    <3> HIDE DEF A, B, C, ds
    <3> QED BY <3>1
  <2>2. ran \subseteq runs /\ \A p \in ran : p.res = "ok"
    OBVIOUS
  <2> HIDE DEF runs, ran, others, low
  <2>3. ASSUME NEW res, o = Both(res, ds, container[a])
        PROVE  o.dirs = ds /\ o.container = container[a]
    BY <2>3
  <2>4. CASE Now(a) # {} /\ o \in A
    <3>1. PICK p \in runs : o = Both(p.res, ds, p.container)
      BY <2>4
    <3>2. o.dirs = ds /\ o.container = p.container
      BY <3>1
    <3> QED BY <2>4, <3>2 DEF runs
  <2>5. CASE Now(a) # {} /\ o \in B
    <3>1. PICK p \in ran : o = Both("ok", Removed(ds, others), p.container)
      BY <2>5
    <3>2. /\ o.dirs = Removed(ds, others) /\ o.container = p.container
          /\ p \in runs /\ p.res = "ok"
      BY <2>2, <3>1
    <3> QED BY <2>5, <3>2 DEF runs
  <2>6. ASSUME Now(a) # {}, NEW w \in others, o \in C(w)
        PROVE  \E p \in runs : /\ o.container = p.container /\ p.res = "ok"
                               /\ \E gone \in SUBSET (others \ {w}) : \E k \in Remains(ds[w]) :
                                    o.dirs = [Removed(ds, gone) EXCEPT ![w] = k]
    <3>1. PICK p \in ran, gone \in SUBSET (others \ {w}), k \in Remains(ds[w]) :
            o = Both("OSError", [Removed(ds, gone) EXCEPT ![w] = k], p.container)
      BY <2>6
    <3>2. /\ o.dirs = [Removed(ds, gone) EXCEPT ![w] = k] /\ o.container = p.container
          /\ p \in runs /\ p.res = "ok"
      BY <2>2, <3>1
    <3> QED BY <3>2
  <2>7. \/ \E res \in {"ok", "ValueError"} : o = Both(res, ds, container[a])
        \/ Now(a) # {} /\ (o \in A \/ o \in B \/ \E w \in others : o \in C(w))
    BY <2>1
  <2> HIDE DEF A, B, C, ds
  <2>8. CASE Now(a) # {} /\ \E w \in others : o \in C(w)
    <3>1. PICK w \in others : o \in C(w)
      BY <2>8
    <3>2. PICK p \in runs : /\ o.container = p.container /\ p.res = "ok"
                            /\ \E gone \in SUBSET (others \ {w}) : \E k \in Remains(ds[w]) :
                                 o.dirs = [Removed(ds, gone) EXCEPT ![w] = k]
      BY <2>6, <2>8, <3>1
    <3> QED BY <2>8, <3>2, Zenon DEF runs
  <2> QED BY <2>3, <2>4, <2>5, <2>7, <2>8
<1>2. Now(a) \subseteq Versions
  BY DEF Now, OciBundles
<1>3. CASE o.dirs = ds /\ o.container = container[a]
  BY <1>3 DEF Now
<1>4. ASSUME Now(a) # {}, NEW p \in run_app(container[a], ds, low), o.container = p.container,
             \/ o.dirs = ds
             \/ p.res = "ok" /\ o.dirs = Removed(ds, others)
             \/ /\ p.res = "ok"
                /\ \E w \in others : \E gone \in SUBSET (others \ {w}) : \E k \in Remains(ds[w]) :
                     o.dirs = [Removed(ds, gone) EXCEPT ![w] = k]
      PROVE  Goal
  <2>1. low \in Now(a) /\ low \in Versions
    BY <1>2, <1>4, MinProp
  <2> HIDE DEF low, ds
  <2>2. /\ Sound(o.container)
        /\ o.container.version = container[a].version \/ o.container.version = low
        /\ p.res = "ok" => o.container.version = low
    <3>1. RunsWell(container[a], ds, low, p)
      BY <1>4, <2>1, RunProp
    <3> QED BY <1>4, <3>1 DEF RunsWell
  <2> USE DEF ds
  <2>3. ASSUME NEW w \in others, NEW k \in Remains(ds[w])
        PROVE  /\ w \in Versions /\ ds[w] \in Bundles /\ k \in Kinds
               /\ k # "unreadable" /\ ds[w] # "unreadable"
    BY DEF Now, OciBundles, Remains, Kinds, Bundles
  <2>4. \A gone \in SUBSET others : /\ Removed(ds, gone) \in VersionDirs
                                    /\ Removed(ds, gone)[low] = ds[low]
                                    /\ OciBundles(Removed(ds, gone)) \subseteq Now(a)
                                    /\ \A w \in Versions : Removed(ds, gone)[w] = "unreadable"
                                                           <=> ds[w] = "unreadable"
    BY <2>1 DEF Removed, VersionDirs, Kinds, Bundles, Now, OciBundles
  <2>5. CASE o.dirs = ds \/ (p.res = "ok" /\ o.dirs = Removed(ds, others))
    BY <1>4, <2>2, <2>4, <2>5 DEF Now
  <2>6. ASSUME NEW w \in others, NEW gone \in SUBSET (others \ {w}), NEW k \in Remains(ds[w]),
               p.res = "ok", o.dirs = [Removed(ds, gone) EXCEPT ![w] = k]
        PROVE  Goal
    <3> DEFINE es == Removed(ds, gone)
    <3>1. /\ es \in VersionDirs /\ es[low] = ds[low] /\ OciBundles(es) \subseteq Now(a)
          /\ w # low /\ w \in Now(a) /\ k \in Kinds /\ o.dirs = [es EXCEPT ![w] = k]
          /\ k # "unreadable" /\ ds[w] # "unreadable"
          /\ \A u \in Versions : es[u] = "unreadable" <=> ds[u] = "unreadable"
      BY <2>3, <2>4, <2>6
    <3> HIDE DEF es
    <3>2. o.dirs \in VersionDirs /\ o.dirs[low] = ds[low]
      BY <1>2, <2>1, <3>1 DEF VersionDirs
    <3>3. OciBundles(o.dirs) \subseteq Now(a)
      BY <1>2, <3>1 DEF VersionDirs, OciBundles
    <3>4. \A u \in Versions : o.dirs[u] = "unreadable" <=> ds[u] = "unreadable"
      BY <1>2, <3>1 DEF VersionDirs
    <3> QED BY <1>4, <2>2, <2>6, <3>2, <3>3, <3>4
  <2> QED BY <1>4, <2>5, <2>6
<1> QED BY <1>1, <1>3, <1>4

----------------------------------------------------------------------------
(* The parts of a step that many actions share.                            *)

LEMMA PlaceType ==
  ASSUME TypeOK, NEW k \in Places
  PROVE  /\ installed[k] \in Records /\ installed[k].name \in Apps
         /\ installed[k].new \in Versions /\ installed[k].cur \in Versions \cup {NoVersion}
         /\ k \in 1..Len(installed) /\ Len(installed) \in Nat
<1>1. installed[k] \in Records /\ Len(installed) \in Nat
  BY DEF TypeOK, Places
<1> QED BY <1>1 DEF Places, Records

LEMMA VersionType ==
  /\ Versions \subseteq Nat /\ NoVersion \notin Versions
  /\ \A ds : OciBundles(ds) \subseteq Versions
BY AppManagerAssumption DEF Versions, OciBundles

LEMMA DirsType ==
  TypeOK => /\ dirs \in [Apps -> VersionDirs] /\ before \in [Apps -> VersionDirs]
            /\ DOMAIN dirs = Apps /\ DOMAIN container = Apps
BY DEF TypeOK, VersionDirs

LEMMA TypeKept ==
  ASSUME TypeOK, UNCHANGED <<ipkCount, crashes, before, ipks, installed, booting>>,
         dirs' \in [Apps -> VersionDirs],
         container' \in [Apps -> Containers],
         pc' \in Phases \cup {"idle"}, i' \in Nat \ {0},
         pc' \in Phases \ {"install"} => i' <= Len(installed),
         result' \in Results, committing' \in BOOLEAN
  PROVE  TypeOK'
BY DEF TypeOK, VersionDirs

\* A result that promises nothing.
LEMMA NoPromise ==
  ASSUME result' \in {"none", "error"}
  PROVE  SuccessInstalls' /\ VersionsRestored' /\ VersionsCleaned'
BY DEF SuccessInstalls, VersionsRestored, VersionsCleaned

\* While the manager does not run, the parts about its phases say nothing.
LEMMA IdleIInv ==
  ASSUME pc' = "idle", TypeOK', ContainerInv', BootInv', booting' # {} => result' = "none",
         SuccessInstalls', VersionsRestored', VersionsCleaned'
  PROVE  IInv'
<1>1. ControlInv' /\ RecordInv' /\ DirsInv' /\ InstalledInv'
  BY DEF ControlInv, RecordInv, DirsInv, InstalledInv
<1>2. LoopInv'
  BY DEF LoopInv
<1> QED BY <1>1, <1>2 DEF IInv

\* What is known while the manager runs.
LEMMA Running ==
  ASSUME IInv, pc \in Phases
  PROVE  /\ TypeOK /\ booting = {} /\ result = "none" /\ (committing <=> pc = "remove")
         /\ i \in Nat \ {0} /\ Len(installed) \in Nat /\ committing \in BOOLEAN
         /\ pc # "install" => i <= Len(installed) /\ i \in Places
BY DEF IInv, ControlInv, TypeOK, Phases, Places

\* The parts that only look at the directories and at _installed_apps.
LEMMA Unmoved ==
  ASSUME IInv, UNCHANGED <<dirs, before, installed>>, pc \in Phases \ {"remove"}, pc' \in Phases,
         pc' \in {"install", "stop", "run", "remove", "rbstop"} =>
           pc \in {"install", "stop", "run", "remove", "rbstop"}
  PROVE  RecordInv' /\ DirsInv' /\ InstalledInv'
<1>0. pc # "idle" /\ pc # "remove"
  BY DEF Phases
<1>1. RecordInv'
  BY <1>0 DEF IInv, RecordInv, RecordSound, Places, Then
<1>2. DirsInv'
  BY <1>0 DEF IInv, DirsInv, Places, Now, Then
<1>3. InstalledInv'
  BY DEF IInv, InstalledInv, Places, New
<1> QED BY <1>1, <1>2, <1>3

LEMMA BootUnmoved ==
  ASSUME IInv, UNCHANGED <<dirs, before>>, committing' = committing \/ committing'
  PROVE  BootInv'
BY DEF IInv, BootInv, LowestKept, Now, Then

\* A loop that begins.
LEMMA LoopBegins ==
  ASSUME pc' \in {"stop", "install"} \/ (i' = 1 /\ pc' \in {"run", "rbstop", "cleanup"})
  PROVE  LoopInv'
BY DEF LoopInv

\* Where the manager goes in a step that does not end it.
Goes == /\ pc' \in Phases \ {"install"} /\ i' \in 1..Len(installed)
        /\ result' = result /\ (committing' = (pc' = "remove"))

LEMMA GotoGoes ==
  ASSUME IInv, pc \in Phases \ {"remove"}, NEW p \in Phases \ {"install"}, Goto(p),
         installed # <<>>
  PROVE  Goes /\ pc' = p /\ i' = 1
<1>1. committing = FALSE /\ TypeOK
  BY Running
<1>2. Len(installed) \in Nat \ {0}
  BY <1>1 DEF TypeOK
<1>3. pc' = p /\ i' = 1 /\ result' = result /\ (committing' = (committing \/ p = "remove"))
  BY DEF Goto
<1>4. committing' = (pc' = "remove")
  BY <1>1, <1>3
<1> QED BY <1>2, <1>3, <1>4 DEF Goes

LEMMA NextGoes ==
  ASSUME IInv, pc \in Phases \ {"install"}, i < Len(installed),
         i' = i + 1, UNCHANGED <<pc, result, committing>>
  PROVE  Goes /\ pc' = pc /\ i' = i + 1
<1>1. i \in Nat \ {0} /\ Len(installed) \in Nat /\ committing \in BOOLEAN /\ (committing <=> pc = "remove")
  BY Running
<1>2. i' \in 1..Len(installed)
  BY <1>1
<1>3. committing' = (pc' = "remove")
  BY <1>1
<1> QED BY <1>2, <1>3 DEF Goes

\* The manager goes on: the parts that do not depend on the phase.
LEMMA GoesOn ==
  ASSUME IInv, pc \in Phases, Goes, UNCHANGED <<ipkCount, crashes, before, ipks, installed, booting>>,
         dirs' \in [Apps -> VersionDirs], container' \in [Apps -> Containers], ContainerInv'
  PROVE  TypeOK' /\ ControlInv' /\ SuccessInstalls' /\ VersionsRestored' /\ VersionsCleaned'
<1>0. TypeOK /\ booting = {} /\ result = "none" /\ Len(installed) \in Nat
  BY Running
<1>1. /\ pc' \in Phases /\ pc' # "install" /\ pc' # "idle" /\ i' \in Nat \ {0} /\ i' <= Len(installed)
      /\ result' = "none"
  BY <1>0 DEF Goes, Phases
<1>2. committing' \in BOOLEAN /\ (committing' <=> pc' = "remove")
  BY DEF Goes
<1>3. TypeOK'
  BY <1>0, <1>1, <1>2, TypeKept DEF Results
<1>4. ControlInv'
  BY <1>0, <1>1, <1>2 DEF ControlInv
<1> QED BY <1>1, <1>3, <1>4, NoPromise

\* The manager ends.
LEMMA Ends ==
  ASSUME IInv, pc \in Phases, NEW r \in Results, Finish(r),
         UNCHANGED <<ipkCount, crashes, before, ipks, installed, booting>>,
         dirs' \in [Apps -> VersionDirs], container' \in [Apps -> Containers], ContainerInv',
         BootInv', SuccessInstalls', VersionsRestored', VersionsCleaned'
  PROVE  IInv'
<1>0. TypeOK /\ booting = {} /\ committing \in BOOLEAN
  BY Running
<1>1. pc' = "idle" /\ i' = 1 /\ result' = r /\ committing' = committing
  BY DEF Finish
<1>2. TypeOK'
  BY <1>0, <1>1, TypeKept DEF Phases
<1> QED BY <1>0, <1>1, <1>2, IdleIInv

\* A step on the container of one application.
LEMMA OneContainer ==
  ASSUME TypeOK, ContainerInv, NEW a \in Apps, NEW x, Sound(x),
         container' = [container EXCEPT ![a] = x]
  PROVE  /\ ContainerInv' /\ container' \in [Apps -> Containers]
         /\ container'[a] = x /\ \A b \in Apps \ {a} : container'[b] = container[b]
<1>1. container \in [Apps -> Containers] /\ x \in Containers
  BY DEF TypeOK, Sound
<1>2. container' \in [Apps -> Containers] /\ container'[a] = x
      /\ \A b \in Apps \ {a} : container'[b] = container[b]
  BY <1>1
<1>3. ASSUME NEW b \in Apps PROVE Sound(container'[b])
  BY <1>2 DEF ContainerInv
<1> QED BY <1>2, <1>3 DEF ContainerInv

\* The application at the index of the loop.
LEMMA AppType ==
  ASSUME IInv, pc \in Phases \ {"install"}
  PROVE  /\ App \in Records /\ App.name \in Apps /\ App.new \in Versions
         /\ App.cur \in Versions \cup {NoVersion} /\ Sound(container[App.name])
         /\ dirs[App.name] \in VersionDirs /\ installed # <<>>
<1>1. TypeOK /\ i \in Places /\ i \in Nat \ {0} /\ i <= Len(installed)
  BY Running
<1>2. App \in Records /\ App.name \in Apps /\ App.new \in Versions
      /\ App.cur \in Versions \cup {NoVersion}
  BY <1>1, PlaceType DEF App
<1>3. installed # <<>>
  BY <1>1
<1> QED BY <1>1, <1>2, <1>3, DirsType DEF IInv, ContainerInv

LEMMA StopStep == ASSUME IInv, StopRunning PROVE IInv'
<1>0. pc = "stop" /\ pc \in Phases \ {"install", "remove"}
  BY DEF StopRunning, Phases
<1>1. PICK o \in terminate_app(container[App.name]) :
        /\ OnContainer(App.name, o)
        /\ \/ o.res = "ok" /\ Continue(Goto("run"))
           \/ o.res \in StopErrors /\ Goto("rbstop")
           \/ o.res \notin StopErrors \cup {"ok"} /\ Raise
  BY DEF StopRunning
<1>2. /\ UNCHANGED <<ipkCount, crashes, before, ipks, installed, booting, dirs>>
      /\ container' = [container EXCEPT ![App.name] = o.container]
  BY <1>1 DEF StopRunning, OnContainer, bounds
<1>3. App.name \in Apps /\ Sound(o.container) /\ installed # <<>>
  BY <1>0, <1>1, AppType, TerminateProp DEF StopsWell
<1>4. ContainerInv' /\ container' \in [Apps -> Containers] /\ dirs' \in [Apps -> VersionDirs]
  BY <1>2, <1>3, OneContainer, DirsType DEF IInv
<1>5. CASE Raise
  <2>1. result' \in {"none", "error"} /\ committing' = committing
    BY <1>5 DEF Raise, Finish
  <2>2. BootInv' /\ SuccessInstalls' /\ VersionsRestored' /\ VersionsCleaned'
    BY <1>2, <2>1, BootUnmoved, NoPromise
  <2> QED BY <1>0, <1>2, <1>4, <1>5, <2>2, Ends DEF Raise, Results
<1>6. ASSUME Goes, pc' \in {"stop", "run", "rbstop"}, pc' # "stop" => i' = 1
      PROVE  IInv'
  <2>1. BootInv'
    BY <1>2, <1>6, <1>0, BootUnmoved, Running DEF Goes
  <2>2. RecordInv' /\ DirsInv' /\ InstalledInv'
    BY <1>0, <1>2, <1>6, Unmoved DEF Phases
  <2>3. LoopInv'
    <3>1. pc' \in {"stop", "install"} \/ (i' = 1 /\ pc' \in {"run", "rbstop", "cleanup"})
      BY <1>6
    <3> QED BY <3>1, LoopBegins
  <2> QED BY <1>0, <1>2, <1>4, <1>6, <2>1, <2>2, <2>3, GoesOn DEF IInv
<1>7. CASE Goto("run") \/ Goto("rbstop")
  BY <1>0, <1>3, <1>6, <1>7, GotoGoes DEF Phases
<1>8. CASE Continue(Goto("run"))
  <2>1. CASE i < Len(installed)
    BY <1>0, <1>6, <1>8, <2>1, NextGoes DEF Continue
  <2>2. CASE ~(i < Len(installed))
    BY <1>7, <1>8, <2>2 DEF Continue
  <2> QED BY <2>1, <2>2
<1> QED BY <1>1, <1>5, <1>7, <1>8

LEMMA RunStep == ASSUME IInv, RunNew PROVE IInv'
<1>0. pc = "run" /\ pc \in Phases \ {"install", "remove"}
  BY DEF RunNew, Phases
<1>1. PICK o \in run_app(container[App.name], dirs[App.name], App.new) :
        /\ OnContainer(App.name, o)
        /\ \/ o.res = "ok" /\ Continue(Goto("remove"))
           \/ o.res \in RunErrors /\ Goto("rbstop")
           \/ o.res \notin RunErrors \cup {"ok"} /\ Raise
  BY DEF RunNew
<1>2. /\ UNCHANGED <<ipkCount, crashes, before, ipks, installed, booting, dirs>>
      /\ container' = [container EXCEPT ![App.name] = o.container]
  BY <1>1 DEF RunNew, OnContainer, bounds
<1>3. App.name \in Apps /\ Sound(o.container) /\ installed # <<>> /\ TypeOK
  BY <1>0, <1>1, AppType, RunProp DEF IInv, RunsWell
<1>4. /\ ContainerInv' /\ container' \in [Apps -> Containers] /\ dirs' \in [Apps -> VersionDirs]
      /\ container'[App.name] = o.container
      /\ \A b \in Apps \ {App.name} : container'[b] = container[b]
  BY <1>2, <1>3, OneContainer, DirsType DEF IInv
<1>5. CASE Raise
  <2>1. result' \in {"none", "error"} /\ committing' = committing
    BY <1>5 DEF Raise, Finish
  <2>2. BootInv' /\ SuccessInstalls' /\ VersionsRestored' /\ VersionsCleaned'
    BY <1>2, <2>1, BootUnmoved, NoPromise
  <2> QED BY <1>0, <1>2, <1>4, <1>5, <2>2, Ends DEF Raise, Results
<1>6. ASSUME Goes, pc' \in {"run", "remove", "rbstop"}, LoopInv'
      PROVE  IInv'
  <2>1. BootInv'
    <3>1. committing' = committing \/ committing'
      BY <1>0, <1>6, Running DEF Goes
    <3> QED BY <1>2, <3>1, BootUnmoved
  <2>2. RecordInv' /\ DirsInv' /\ InstalledInv'
    BY <1>0, <1>2, <1>6, Unmoved DEF Phases
  <2> QED BY <1>0, <1>2, <1>4, <1>6, <2>1, <2>2, GoesOn DEF IInv
<1>7. CASE Goto("rbstop")
  <2>1. Goes /\ pc' = "rbstop" /\ i' = 1
    BY <1>0, <1>3, <1>7, GotoGoes DEF Phases
  <2>2. LoopInv'
    BY <2>1, LoopBegins
  <2> QED BY <1>6, <2>1, <2>2
<1>8. ASSUME o.res = "ok"
      PROVE  \A k \in 1..i : New(k)' \in Bundles /\ ContainerOf(k)'.version = installed'[k].new
  <2>0. i \in Nat \ {0} /\ Len(installed) \in Nat /\ i <= Len(installed)
    BY <1>0, Running
  <2>1. /\ container[App.name].version = NoVersion /\ dirs[App.name][App.new] \in Bundles
        /\ o.container.version = App.new
    <3>1. Sound(container[App.name]) /\ App.new \in Versions
      BY <1>0, AppType
    <3>2. RunsWell(container[App.name], dirs[App.name], App.new, o)
      BY <3>1, RunProp
    <3> QED BY <1>8, <3>2 DEF RunsWell
  <2>2. CASE TRUE
    <3> SUFFICES ASSUME NEW k \in 1..i
                 PROVE  New(k)' \in Bundles /\ ContainerOf(k)'.version = installed'[k].new
      OBVIOUS
    <3>1. CASE k = i
      BY <1>2, <1>4, <2>1, <3>1 DEF New, ContainerOf, App
    <3>2. CASE k # i
      <4>1. k \in 1..(i - 1) /\ k \in Places
        BY <2>0, <3>2 DEF Places
      <4>2. New(k) \in Bundles /\ ContainerOf(k).version = installed[k].new
        BY <1>0, <4>1 DEF IInv, LoopInv
      <4>3. installed[k].name \in Apps /\ installed[k].new # NoVersion
        BY <1>3, <4>1, PlaceType, VersionType
      <4>4. installed[k].name # App.name
        BY <2>1, <4>2, <4>3 DEF ContainerOf
      <4> QED BY <1>2, <1>4, <4>2, <4>3, <4>4 DEF New, ContainerOf
    <3> QED BY <3>1, <3>2
  <2> QED BY <2>2
<1>9. CASE o.res = "ok" /\ Continue(Goto("remove"))
  <2>0. i \in Nat \ {0} /\ Len(installed) \in Nat /\ i <= Len(installed)
    BY <1>0, Running
  <2>1. CASE i < Len(installed)
    <3>1. Goes /\ pc' = "run" /\ i' = i + 1
      BY <1>0, <1>9, <2>1, NextGoes DEF Continue
    <3>2. LoopInv'
      BY <1>8, <1>9, <2>0, <3>1 DEF LoopInv
    <3> QED BY <1>6, <3>1, <3>2
  <2>2. CASE ~(i < Len(installed))
    <3>1. Goes /\ pc' = "remove" /\ i' = 1
      BY <1>0, <1>3, <1>9, <2>2, GotoGoes DEF Continue, Phases
    <3>2. Places' = 1..i
      BY <1>2, <2>0, <2>2 DEF Places
    <3>3. LoopInv'
      BY <1>8, <1>9, <3>1, <3>2 DEF LoopInv
    <3> QED BY <1>6, <3>1, <3>3
  <2> QED BY <2>1, <2>2
<1> QED BY <1>1, <1>5, <1>7, <1>9

LEMMA RollbackStopStep == ASSUME IInv, RollbackStop PROVE IInv'
<1>0. pc = "rbstop" /\ pc \in Phases \ {"install", "remove"}
  BY DEF RollbackStop, Phases
<1>1. PICK o \in terminate_app(container[App.name]) :
        /\ OnContainer(App.name, o)
        /\ \/ (o.res = "ok" \/ o.container.state = "does not exist") /\ Continue(Goto("rbremove"))
           \/ Raise
  BY DEF RollbackStop
<1>2. /\ UNCHANGED <<ipkCount, crashes, before, ipks, installed, booting, dirs>>
      /\ container' = [container EXCEPT ![App.name] = o.container]
  BY <1>1 DEF RollbackStop, OnContainer, bounds
<1>3. /\ App.name \in Apps /\ Sound(o.container) /\ installed # <<>> /\ TypeOK
      /\ o.res = "ok" => o.container.state = "does not exist"
  BY <1>0, <1>1, AppType, TerminateProp DEF StopsWell, IInv
<1>4. /\ ContainerInv' /\ container' \in [Apps -> Containers] /\ dirs' \in [Apps -> VersionDirs]
      /\ container'[App.name] = o.container
      /\ \A b \in Apps \ {App.name} : container'[b] = container[b]
  BY <1>2, <1>3, OneContainer, DirsType DEF IInv
<1>5. CASE Raise
  <2>1. result' \in {"none", "error"} /\ committing' = committing
    BY <1>5 DEF Raise, Finish
  <2>2. BootInv' /\ SuccessInstalls' /\ VersionsRestored' /\ VersionsCleaned'
    BY <1>2, <2>1, BootUnmoved, NoPromise
  <2> QED BY <1>0, <1>2, <1>4, <1>5, <2>2, Ends DEF Raise, Results
<1>6. ASSUME Goes, pc' \in {"rbstop", "rbremove"}, LoopInv'
      PROVE  IInv'
  <2>1. BootInv'
    <3>1. committing' = committing \/ committing'
      BY <1>0, <1>6, Running DEF Goes
    <3> QED BY <1>2, <3>1, BootUnmoved
  <2>2. RecordInv' /\ DirsInv' /\ InstalledInv'
    BY <1>0, <1>2, <1>6, Unmoved DEF Phases
  <2> QED BY <1>0, <1>2, <1>4, <1>6, <2>1, <2>2, GoesOn DEF IInv
<1>7. i \in Nat \ {0} /\ Len(installed) \in Nat /\ i <= Len(installed)
  BY <1>0, Running
<1>8. ASSUME o.res = "ok" \/ o.container.state = "does not exist", NEW k \in 1..i
      PROVE  Gone(k)'
  <2>1. k \in Places /\ installed[k].name \in Apps
    <3>1. k \in Places
      BY <1>7 DEF Places
    <3> QED BY <1>3, <3>1, PlaceType
  <2>2. CASE installed[k].name = App.name
    BY <1>2, <1>3, <1>4, <1>8, <2>2 DEF Gone, ContainerOf
  <2>3. CASE installed[k].name # App.name
    <3>1. k \in 1..(i - 1)
      BY <1>7, <2>3 DEF App
    <3>2. Gone(k)
      BY <1>0, <3>1 DEF IInv, LoopInv
    <3> QED BY <1>2, <1>4, <2>1, <2>3, <3>2 DEF Gone, ContainerOf
  <2> QED BY <2>2, <2>3
<1>9. CASE (o.res = "ok" \/ o.container.state = "does not exist") /\ Continue(Goto("rbremove"))
  <2>0. \A k \in 1..i : Gone(k)'
    BY <1>8, <1>9
  <2>1. CASE i < Len(installed)
    <3>1. Goes /\ pc' = "rbstop" /\ i' = i + 1
      BY <1>0, <1>9, <2>1, NextGoes DEF Continue
    <3>2. LoopInv'
      BY <1>7, <2>0, <3>1 DEF LoopInv
    <3> QED BY <1>6, <3>1, <3>2
  <2>2. CASE ~(i < Len(installed))
    <3>1. Goes /\ pc' = "rbremove" /\ i' = 1
      BY <1>0, <1>3, <1>9, <2>2, GotoGoes DEF Continue, Phases
    <3>2. Places' = 1..i
      BY <1>2, <1>7, <2>2 DEF Places
    <3>3. LoopInv'
      BY <2>0, <3>1, <3>2 DEF LoopInv
    <3> QED BY <1>6, <3>1, <3>3
  <2> QED BY <2>1, <2>2
<1> QED BY <1>1, <1>5, <1>9

\* The records of _installed_apps and their places.
LEMMA RangePlaces ==
  ASSUME TypeOK
  PROVE  \A r \in Range(installed) : \E k \in Places : r = installed[k]
BY DEF TypeOK, Range, Places

\* The new versions are gone: every application has the versions that it had.
LEMMA Restored ==
  ASSUME IInv, pc \in Phases \ {"remove"}, \A k \in Places : New(k) = "absent"
  PROVE  \A a \in Apps : Now(a) = Then(a)
<1> SUFFICES ASSUME NEW a \in Apps PROVE Now(a) = Then(a)
  OBVIOUS
<1>0. pc # "idle" /\ pc # "remove"
  BY DEF Phases
<1>1. Then(a) \subseteq Now(a)
  BY <1>0 DEF IInv, DirsInv
<1>2. ASSUME NEW v \in Now(a), v \notin Then(a) PROVE FALSE
  <2>1. PICK k \in Places : installed[k].name = a /\ installed[k].new = v
    BY <1>0, <1>2 DEF IInv, DirsInv
  <2>2. dirs[a][v] = "absent"
    BY <2>1 DEF New
  <2> QED BY <1>2, <2>2 DEF Now, OciBundles, Bundles
<1> QED BY <1>1, <1>2

LEMMA RollbackRunStep == ASSUME IInv, RollbackRun PROVE IInv'
<1>0. pc = "rbrun" /\ pc \in Phases \ {"install", "remove"} /\ pc # "idle"
  BY DEF RollbackRun, Phases
<1>1. /\ UNCHANGED <<ipkCount, crashes, before, ipks, installed, booting, dirs>>
      /\ App.name \in Apps /\ App.cur \in Versions \cup {NoVersion} /\ TypeOK
      /\ Sound(container[App.name]) /\ installed # <<>>
  BY <1>0, AppType DEF RollbackRun, OnContainer, bounds, IInv
<1>2. i \in Nat \ {0} /\ Len(installed) \in Nat /\ i <= Len(installed) /\ i \in Places
  BY <1>0, Running
<1>3. \A a \in Apps : Now(a) = Then(a)
  BY <1>0, Restored DEF IInv, LoopInv
<1>4. dirs' \in [Apps -> VersionDirs]
  BY <1>1, DirsType
<1> DEFINE Done == \A k \in 1..i : ContainerOf(k)'.version = installed[k].cur
           Rest == \A k \in (i + 1)..Len(installed) :
                     Gone(k)' \/ \E j \in 1..i : installed[j].name = installed[k].name
           Ready == ContainerInv' /\ container' \in [Apps -> Containers]
<1>5. ASSUME Raise, Ready
      PROVE  IInv'
  <2>1. result' \in {"none", "error"} /\ committing' = committing
    BY <1>5 DEF Raise, Finish
  <2>2. BootInv' /\ SuccessInstalls' /\ VersionsRestored' /\ VersionsCleaned'
    BY <1>1, <2>1, BootUnmoved, NoPromise
  <2> QED BY <1>0, <1>1, <1>4, <1>5, <2>2, Ends DEF Raise, Results
<1>6. ASSUME Continue(Finish("restored")), Ready, Done, Rest
      PROVE  IInv'
  <2>1. CASE i < Len(installed)
    <3>1. Goes /\ pc' = "rbrun" /\ i' = i + 1
      BY <1>0, <1>6, <2>1, NextGoes DEF Continue
    <3>2. BootInv'
      <4>1. committing' = committing
        BY <1>6, <2>1 DEF Continue
      <4> QED BY <1>1, <4>1, BootUnmoved
    <3>3. RecordInv' /\ DirsInv' /\ InstalledInv'
      BY <1>0, <1>1, <3>1, Unmoved DEF Phases
    <3>4. LoopInv'
      <4>1. \A k \in Places' : New(k)' = "absent"
        BY <1>0, <1>1 DEF IInv, LoopInv, New, Places
      <4> HIDE DEF Ready
      <4> QED BY <1>1, <1>2, <1>6, <3>1, <4>1 DEF LoopInv
    <3> QED BY <1>0, <1>1, <1>4, <1>6, <3>1, <3>2, <3>3, <3>4, GoesOn DEF IInv
  <2>2. CASE ~(i < Len(installed))
    <3>0. Places = 1..i
      BY <1>2, <2>2 DEF Places
    <3>1. Finish("restored")
      BY <1>6, <2>2 DEF Continue
    <3>2. BootInv'
      <4>1. committing' = committing
        BY <3>1 DEF Finish
      <4> QED BY <1>1, <4>1, BootUnmoved
    <3>3. SuccessInstalls' /\ VersionsCleaned'
      BY <3>1 DEF Finish, SuccessInstalls, VersionsCleaned
    <3>4. VersionsRestored'
      <4> SUFFICES ASSUME NEW r \in Range(installed)
                   PROVE  /\ BundlesOf(dirs', r.name) = BundlesOf(before', r.name)
                          /\ container'[r.name].version = r.cur
        BY <1>1 DEF VersionsRestored
      <4>1. PICK k \in Places : r = installed[k]
        BY <1>1, RangePlaces
      <4>2. r.name \in Apps
        BY <1>1, <4>1, PlaceType
      <4>3. BundlesOf(dirs', r.name) = BundlesOf(before', r.name)
        BY <1>1, <1>3, <4>2 DEF BundlesOf, Now, Then
      <4>4. container'[r.name].version = r.cur
        BY <1>1, <1>6, <3>0, <4>1 DEF ContainerOf
      <4> QED BY <4>3, <4>4
    <3> QED BY <1>0, <1>1, <1>4, <1>6, <3>1, <3>2, <3>3, <3>4, Ends DEF Results
  <2> QED BY <2>1, <2>2
<1>7. \A k \in i..Len(installed) :
        Gone(k) \/ \E j \in 1..(i - 1) : installed[j].name = installed[k].name
  BY <1>0 DEF IInv, LoopInv
<1>8. \A k \in 1..(i - 1) : ContainerOf(k).version = installed[k].cur
  BY <1>0 DEF IInv, LoopInv
<1>9. CASE App.cur = NoVersion /\ Continue(Finish("restored")) /\ UNCHANGED <<dirs, container>>
  <2>1. Ready
    BY <1>9 DEF IInv, ContainerInv, TypeOK
  <2>2. Rest
    <3> SUFFICES ASSUME NEW k \in (i + 1)..Len(installed)
                 PROVE  Gone(k)' \/ \E j \in 1..i : installed[j].name = installed[k].name
      OBVIOUS
    <3>1. k \in i..Len(installed) /\ 1..(i - 1) \subseteq 1..i
      BY <1>2
    <3>2. Gone(k)' = Gone(k)
      BY <1>1, <1>9 DEF Gone, ContainerOf
    <3> QED BY <1>7, <3>1, <3>2
  <2>3. Done
    <3> SUFFICES ASSUME NEW k \in 1..i
                 PROVE  ContainerOf(k)'.version = installed[k].cur
      OBVIOUS
    <3>1. ContainerOf(k)' = ContainerOf(k)
      BY <1>1, <1>9 DEF ContainerOf
    <3>2. CASE k \in 1..(i - 1)
      BY <1>8, <3>1, <3>2
    <3>3. CASE k = i
      <4>1. Gone(i)
        BY <1>0, <1>2, <1>7, <1>9 DEF IInv, RecordInv, App
      <4>2. container[App.name].version = NoVersion
        BY <1>1, <4>1 DEF Gone, ContainerOf, App, Sound
      <4> QED BY <1>9, <3>1, <3>3, <4>2 DEF ContainerOf, App
    <3> QED BY <1>2, <3>2, <3>3
  <2> QED BY <1>6, <1>9, <2>1, <2>2, <2>3
<1>10. ASSUME App.cur # NoVersion, NEW o \in run_app(container[App.name], dirs[App.name], App.cur),
              OnContainer(App.name, o),
              \/ o.res = "ok" /\ Continue(Finish("restored"))
              \/ o.res # "ok" /\ Raise
       PROVE  IInv'
  <2>0. container' = [container EXCEPT ![App.name] = o.container] /\ App.cur \in Versions
    BY <1>1, <1>10 DEF OnContainer
  <2>1. RunsWell(container[App.name], dirs[App.name], App.cur, o)
    BY <1>1, <2>0, RunProp
  <2>2. Sound(o.container)
    BY <2>1 DEF RunsWell
  <2>3. /\ Ready /\ container'[App.name] = o.container
        /\ \A b \in Apps \ {App.name} : container'[b] = container[b]
    BY <1>1, <2>0, <2>2, OneContainer DEF IInv
  <2>4. CASE Raise
    BY <1>5, <2>3, <2>4
  <2>5. CASE o.res = "ok" /\ Continue(Finish("restored"))
    <3>1. /\ container[App.name].version = NoVersion /\ dirs[App.name][App.cur] \in Bundles
          /\ o.container.version = App.cur
      BY <2>1, <2>5 DEF RunsWell
    <3>2. App.cur \in Then(App.name)
      BY <1>1, <1>3, <2>0, <3>1 DEF Now, OciBundles
    <3>3. ASSUME NEW k \in 1..(i - 1) PROVE installed[k].name # App.name
      <4>1. k \in Places
        BY <1>2 DEF Places
      <4>2. RecordSound(installed[k])
        BY <1>0, <4>1 DEF IInv, RecordInv
      <4> QED BY <1>8, <3>1, <3>2, <4>2 DEF RecordSound, ContainerOf
    <3>4. Done
      <4> SUFFICES ASSUME NEW k \in 1..i
                   PROVE  ContainerOf(k)'.version = installed[k].cur
        OBVIOUS
      <4>1. CASE k = i
        BY <1>1, <2>3, <3>1, <4>1 DEF ContainerOf, App
      <4>2. CASE k \in 1..(i - 1)
        <5>1. k \in Places
          BY <1>2 DEF Places
        <5>2. installed[k].name \in Apps \ {App.name}
          BY <1>1, <3>3, <4>2, <5>1, PlaceType
        <5> QED BY <1>1, <1>8, <2>3, <4>2, <5>2 DEF ContainerOf
      <4> QED BY <1>2, <4>1, <4>2
    <3>5. Rest
      <4> SUFFICES ASSUME NEW k \in (i + 1)..Len(installed)
                   PROVE  Gone(k)' \/ \E j \in 1..i : installed[j].name = installed[k].name
        OBVIOUS
      <4>1. k \in Places /\ k \in i..Len(installed) /\ 1..(i - 1) \subseteq 1..i /\ i \in 1..i
        BY <1>2 DEF Places
      <4>2. CASE installed[k].name = App.name
        BY <4>1, <4>2 DEF App
      <4>3. CASE installed[k].name # App.name
        <5>1. installed[k].name \in Apps \ {App.name}
          BY <1>1, <4>1, <4>3, PlaceType
        <5>2. Gone(k)' = Gone(k)
          BY <1>1, <2>3, <5>1 DEF Gone, ContainerOf
        <5> QED BY <1>7, <4>1, <5>2
      <4> QED BY <4>2, <4>3
    <3> QED BY <1>6, <2>3, <2>5, <3>4, <3>5
  <2> QED BY <1>10, <2>4, <2>5
<1> QED BY <1>9, <1>10 DEF RollbackRun

\* A step on one version directory of an application.
OnlyDir(a, v) ==
  \A b \in Apps : \A w \in Versions : b # a \/ w # v => dirs'[b][w] = dirs[b][w]

LEMMA OneAppDirs ==
  ASSUME TypeOK, NEW a \in Apps, NEW v \in Versions, NEW es, OneDir(dirs[a], es, v),
         dirs' = [dirs EXCEPT ![a] = es]
  PROVE  dirs' \in [Apps -> VersionDirs] /\ dirs'[a] = es /\ OnlyDir(a, v)
<1>1. dirs \in [Apps -> VersionDirs]
  BY DirsType
<1>2. es \in VersionDirs /\ \A w \in Versions \ {v} : es[w] = dirs[a][w]
  BY DEF OneDir
<1>3. /\ dirs' \in [Apps -> VersionDirs] /\ dirs'[a] = es
      /\ \A b \in Apps \ {a} : dirs'[b] = dirs[b]
  BY <1>1, <1>2
<1> QED BY <1>2, <1>3 DEF OnlyDir

LEMMA RemoveDirs ==
  ASSUME IInv, pc \in Phases \ {"install"}, NEW v \in Versions,
         NEW o \in remove_app(dirs[App.name], v), OnDirs(App.name, o), installed' = installed
  PROVE  /\ dirs' \in [Apps -> VersionDirs] /\ container' = container
         /\ ContainerInv' /\ container' \in [Apps -> Containers]
         /\ OnlyDir(App.name, v)
         /\ \A b \in Apps : Now(b)' \subseteq Now(b)
         /\ o.res = "ok" => dirs'[App.name][v] = "absent"
<1>1. TypeOK /\ App.name \in Apps /\ dirs[App.name] \in VersionDirs
  BY AppType DEF IInv
<1>2. /\ OneDir(dirs[App.name], o.dirs, v)
      /\ o.res = "ok" => o.dirs[v] = "absent"
      /\ o.dirs[v] \in Bundles => dirs[App.name][v] \in Bundles
  BY <1>1, RemoveProp
<1>3. dirs' = [dirs EXCEPT ![App.name] = o.dirs] /\ container' = container
  BY DEF OnDirs
<1>4. /\ dirs' \in [Apps -> VersionDirs] /\ dirs'[App.name] = o.dirs
      /\ OnlyDir(App.name, v)
  BY <1>1, <1>2, <1>3, OneAppDirs
<1>5. ContainerInv' /\ container' \in [Apps -> Containers]
  BY <1>3 DEF IInv, TypeOK, ContainerInv
<1>6. ASSUME NEW b \in Apps PROVE Now(b)' \subseteq Now(b)
  <2>1. ASSUME NEW w \in Versions, dirs'[b][w] \in Bundles PROVE dirs[b][w] \in Bundles
    <3>1. CASE b = App.name /\ w = v
      BY <1>2, <1>4, <2>1, <3>1
    <3>2. CASE b # App.name \/ w # v
      BY <1>4, <2>1, <3>2 DEF OnlyDir
    <3> QED BY <3>1, <3>2
  <2> QED BY <2>1 DEF Now, OciBundles
<1> QED BY <1>2, <1>3, <1>4, <1>5, <1>6

\* A new version is removed: what was there before the update stays.
LEMMA NewRemoved ==
  ASSUME IInv, pc \in {"cleanup", "rbremove"}, UNCHANGED <<before, installed, committing>>,
         NEW o \in remove_app(dirs[App.name], App.new), OnDirs(App.name, o)
  PROVE  /\ BootInv'
         /\ pc' \in Phases \ {"remove"} => DirsInv' /\ RecordInv'
         /\ o.res = "ok" => \A k \in 1..i : New(k)' = "absent"
         /\ (\A k \in Places : New(k)' = "absent") => \A a \in Apps : Now(a)' = Then(a)
<1>0. /\ pc \in Phases \ {"install", "remove"} /\ pc # "idle" /\ App.new \in Versions
      /\ App.name \in Apps /\ TypeOK /\ i \in Places /\ i \in Nat \ {0} /\ Len(installed) \in Nat
      /\ i <= Len(installed)
  BY AppType, Running DEF Phases
<1>1. /\ dirs' \in [Apps -> VersionDirs]
      /\ OnlyDir(App.name, App.new)
      /\ \A b \in Apps : Now(b)' \subseteq Now(b)
      /\ o.res = "ok" => dirs'[App.name][App.new] = "absent"
  BY <1>0, RemoveDirs
<1>2. RecordSound(App)
  BY <1>0 DEF IInv, RecordInv, App
<1>3. \A a \in Apps : Then(a)' = Then(a) /\ Then(a) \subseteq Versions /\ Then(a) \subseteq Nat
  BY VersionType DEF Then
<1>4. ASSUME NEW a \in Apps, NEW v \in Then(a)
      PROVE  dirs'[a][v] = dirs[a][v] /\ v \in Now(a) /\ v \in Now(a)'
  <2>1. v \in Versions /\ (a # App.name \/ v # App.new) /\ v \in Now(a)
    BY <1>0, <1>2, <1>3 DEF RecordSound, IInv, DirsInv
  <2>2. dirs'[a][v] = dirs[a][v]
    BY <1>1, <2>1 DEF OnlyDir
  <2> QED BY <2>1, <2>2 DEF Now, OciBundles
<1>5. BootInv'
  <2> SUFFICES ASSUME ~committing, NEW a \in Apps, Then(a) # {} PROVE LowestKept(a)'
    BY <1>3 DEF BootInv
  <2> DEFINE v == Min(Then(a))
  <2>1. v \in Then(a)
    BY <1>3, MinProp
  <2>2. LowestKept(a)
    BY DEF IInv, BootInv
  <2>3. dirs'[a][v] = before[a][v] /\ v \in Now(a)' /\ \A w \in Now(a)' : v <= w
    BY <1>1, <1>4, <2>1, <2>2 DEF LowestKept
  <2> QED BY <1>3, <2>3 DEF LowestKept
<1>6. ASSUME pc' \in Phases \ {"remove"} PROVE DirsInv' /\ RecordInv'
  <2>1. RecordInv'
    BY <1>0 DEF IInv, RecordInv, RecordSound, Places, Then
  <2>2. \A a \in Apps : Then(a)' \subseteq Now(a)'
    BY <1>3, <1>4
  <2>3. \A a \in Apps : \A v \in Now(a)' \ Then(a)' :
          \E k \in Places' : installed'[k].name = a /\ installed'[k].new = v
    BY <1>0, <1>1, <1>3 DEF IInv, DirsInv, Places
  <2> QED BY <2>1, <2>2, <2>3 DEF DirsInv
<1>7. ASSUME o.res = "ok", NEW k \in 1..i PROVE New(k)' = "absent"
  <2>1. k \in Places
    BY <1>0 DEF Places
  <2>2. installed[k].name \in Apps /\ installed[k].new \in Versions
    BY <1>0, <2>1, PlaceType
  <2>3. CASE installed[k].name = App.name /\ installed[k].new = App.new
    BY <1>1, <1>7, <2>3 DEF New
  <2>4. CASE installed[k].name # App.name \/ installed[k].new # App.new
    <3>1. k \in 1..(i - 1)
      BY <1>0, <2>4 DEF App
    <3>2. New(k) = "absent"
      BY <3>1 DEF IInv, LoopInv
    <3> QED BY <1>1, <2>2, <2>4, <3>2 DEF New, OnlyDir
  <2> QED BY <2>3, <2>4
<1>8. ASSUME \A k \in Places : New(k)' = "absent", NEW a \in Apps
      PROVE  Now(a)' = Then(a)
  <2>1. Then(a) \subseteq Now(a)'
    BY <1>4
  <2>2. ASSUME NEW v \in Now(a)', v \notin Then(a) PROVE FALSE
    <3>0. v \in Now(a) \ Then(a)
      BY <1>1, <2>2
    <3>1. PICK k \in Places : installed[k].name = a /\ installed[k].new = v
      BY <1>0, <3>0 DEF IInv, DirsInv
    <3>2. dirs'[a][v] = "absent"
      BY <1>8, <3>1 DEF New
    <3> QED BY <2>2, <3>2 DEF Now, OciBundles, Bundles
  <2> QED BY <2>1, <2>2
<1> QED BY <1>5, <1>6, <1>7, <1>8

\* The loop that removes the new versions goes on, or the manager raises.
LEMMA RemoveNewStep ==
  ASSUME IInv, pc \in {"cleanup", "rbremove"},
         UNCHANGED <<ipkCount, crashes, before, ipks, installed, booting>>,
         NEW o \in remove_app(dirs[App.name], App.new), OnDirs(App.name, o),
         \/ Raise
         \/ /\ o.res = "ok" /\ i < Len(installed)
            /\ i' = i + 1 /\ UNCHANGED <<pc, result, committing>>
  PROVE  IInv'
<1>0. /\ pc \in Phases \ {"install", "remove"} /\ App.new \in Versions /\ TypeOK
      /\ i \in Nat \ {0} /\ Len(installed) \in Nat /\ i <= Len(installed)
  BY AppType, Running DEF Phases
<1>1. /\ dirs' \in [Apps -> VersionDirs] /\ container' = container
      /\ ContainerInv' /\ container' \in [Apps -> Containers]
  BY <1>0, RemoveDirs
<1>2. CASE Raise
  <2>1. result' \in {"none", "error"} /\ committing' = committing
    BY <1>2 DEF Raise, Finish
  <2>2. BootInv' /\ SuccessInstalls' /\ VersionsRestored' /\ VersionsCleaned'
    BY <2>1, NewRemoved, NoPromise
  <2> QED BY <1>0, <1>1, <1>2, <2>2, Ends DEF Raise, Results
<1>3. CASE /\ o.res = "ok" /\ i < Len(installed)
           /\ i' = i + 1 /\ UNCHANGED <<pc, result, committing>>
  <2>1. Goes /\ pc' = pc /\ i' = i + 1
    BY <1>0, <1>3, NextGoes
  <2>2. /\ BootInv' /\ DirsInv' /\ RecordInv'
        /\ \A k \in 1..i : New(k)' = "absent"
    BY <1>0, <1>3, NewRemoved
  <2>3. InstalledInv'
    BY <2>1 DEF InstalledInv
  <2>4. LoopInv'
    <3>1. i' - 1 = i
      BY <1>0, <2>1
    <3>2. pc' = "rbremove" => \A k \in Places' : Gone(k)'
      BY <1>1, <2>1 DEF IInv, LoopInv, Gone, ContainerOf, Places
    <3> QED BY <2>1, <2>2, <3>1, <3>2 DEF LoopInv
  <2> QED BY <1>0, <1>1, <2>1, <2>2, <2>3, <2>4, GoesOn DEF IInv
<1> QED BY <1>2, <1>3

LEMMA CleanUpStep == ASSUME IInv, CleanUp PROVE IInv'
<1>0. /\ pc = "cleanup" /\ pc \in Phases \ {"install", "remove"}
      /\ UNCHANGED <<ipkCount, crashes, before, ipks, installed, booting>>
      /\ i \in Nat \ {0} /\ Len(installed) \in Nat /\ i <= Len(installed)
      /\ TypeOK /\ App.new \in Versions
  BY AppType, Running DEF CleanUp, Phases, bounds
<1>1. PICK o \in remove_app(dirs[App.name], App.new) :
        /\ OnDirs(App.name, o)
        /\ (o.res = "ok" /\ Continue(Finish("cleaned"))) \/ Raise
  <2>1. App.new # NoVersion
    BY <1>0, VersionType
  <2> QED BY <2>1 DEF CleanUp, RemoveBundle
<1>2. CASE Raise
  BY <1>0, <1>1, <1>2, RemoveNewStep
<1>3. CASE o.res = "ok" /\ Continue(Finish("cleaned")) /\ i < Len(installed)
  BY <1>0, <1>1, <1>3, RemoveNewStep DEF Continue
<1>4. CASE o.res = "ok" /\ Continue(Finish("cleaned")) /\ ~(i < Len(installed))
  <2>1. Finish("cleaned")
    BY <1>4 DEF Continue
  <2>2. /\ dirs' \in [Apps -> VersionDirs] /\ container' = container
        /\ ContainerInv' /\ container' \in [Apps -> Containers]
    BY <1>0, <1>1, RemoveDirs
  <2>3. committing' = committing /\ result' = "cleaned"
    BY <2>1 DEF Finish
  <2>4. /\ BootInv' /\ \A k \in 1..i : New(k)' = "absent"
        /\ (\A k \in Places : New(k)' = "absent") => \A a \in Apps : Now(a)' = Then(a)
    BY <1>0, <1>1, <1>4, <2>3, NewRemoved
  <2>5. Places = 1..i
    BY <1>0, <1>4 DEF Places
  <2>6. \A a \in Apps : Now(a)' = Then(a)
    BY <2>4, <2>5
  <2>7. VersionsCleaned'
    BY <1>0, <2>6 DEF VersionsCleaned, BundlesOf, Now, Then
  <2>8. SuccessInstalls' /\ VersionsRestored'
    BY <2>3 DEF SuccessInstalls, VersionsRestored
  <2> QED BY <1>0, <2>1, <2>2, <2>4, <2>7, <2>8, Ends DEF Results
<1> QED BY <1>1, <1>2, <1>3, <1>4

LEMMA RollbackRemoveStep == ASSUME IInv, RollbackRemove PROVE IInv'
<1>0. /\ pc = "rbremove" /\ pc \in Phases \ {"install", "remove"}
      /\ UNCHANGED <<ipkCount, crashes, before, ipks, installed, booting>>
      /\ i \in Nat \ {0} /\ Len(installed) \in Nat /\ i <= Len(installed)
      /\ TypeOK /\ App.new \in Versions /\ installed # <<>>
  BY AppType, Running DEF RollbackRemove, Phases, bounds
<1>1. PICK o \in remove_app(dirs[App.name], App.new) :
        /\ OnDirs(App.name, o)
        /\ (o.res = "ok" /\ Continue(Goto("rbrun"))) \/ Raise
  <2>1. App.new # NoVersion
    BY <1>0, VersionType
  <2> QED BY <2>1 DEF RollbackRemove, RemoveBundle
<1>2. CASE Raise
  BY <1>0, <1>1, <1>2, RemoveNewStep
<1>3. CASE o.res = "ok" /\ Continue(Goto("rbrun")) /\ i < Len(installed)
  BY <1>0, <1>1, <1>3, RemoveNewStep DEF Continue
<1>4. CASE o.res = "ok" /\ Continue(Goto("rbrun")) /\ ~(i < Len(installed))
  <2>1. Goes /\ pc' = "rbrun" /\ i' = 1
    BY <1>0, <1>4, GotoGoes DEF Continue, Phases
  <2>2. /\ dirs' \in [Apps -> VersionDirs] /\ container' = container
        /\ ContainerInv' /\ container' \in [Apps -> Containers]
    BY <1>0, <1>1, RemoveDirs
  <2>3. committing' = committing
    BY <1>0, <2>1, Running DEF Goes
  <2>4. BootInv' /\ DirsInv' /\ RecordInv' /\ \A k \in 1..i : New(k)' = "absent"
    BY <1>0, <1>1, <1>4, <2>1, <2>3, NewRemoved DEF Phases
  <2>5. Places = 1..i /\ Places' = Places
    BY <1>0, <1>4 DEF Places
  <2>6. InstalledInv'
    BY <2>1 DEF InstalledInv
  <2>7. LoopInv'
    <3>1. \A k \in Places : Gone(k)'
      BY <1>0, <2>2 DEF IInv, LoopInv, Gone, ContainerOf
    <3>2. i'..Len(installed') = Places /\ 1..(i' - 1) = {}
      BY <1>0, <2>1 DEF Places
    <3> QED BY <2>1, <2>4, <2>5, <3>1, <3>2 DEF LoopInv
  <2> QED BY <1>0, <2>1, <2>2, <2>4, <2>6, <2>7, GoesOn DEF IInv
<1> QED BY <1>1, <1>2, <1>3, <1>4

\* At most one of the versions from before the update.
LEMMA AtMostOne ==
  ASSUME NEW S \in SUBSET Versions, Cardinality(S) <= 1, NEW x \in S, NEW y \in S
  PROVE  x = y
<1> SUFFICES ASSUME x # y PROVE FALSE
  OBVIOUS
<1>1. IsFiniteSet(Versions)
  BY AppManagerAssumption, FS_Interval DEF Versions
<1>2. IsFiniteSet(S) /\ Cardinality(S) \in Nat
  BY <1>1, FS_Subset, FS_CardinalityType
<1>3. IsFiniteSet(S \ {x}) /\ Cardinality(S \ {x}) = Cardinality(S) - 1
  BY <1>2, FS_RemoveElement
<1>4. Cardinality(S \ {x}) \in Nat
  BY <1>3, FS_CardinalityType
<1>5. Cardinality(S \ {x}) = 0
  BY <1>2, <1>3, <1>4
<1>6. S \ {x} = {}
  BY <1>3, <1>5, FS_EmptySet
<1> QED BY <1>6

LEMMA RemovePreviousStep == ASSUME IInv, RemovePrevious PROVE IInv'
<1>0. /\ pc = "remove" /\ pc \in Phases \ {"install"} /\ pc # "idle"
      /\ UNCHANGED <<ipkCount, crashes, before, ipks, installed, booting>>
      /\ i \in Nat \ {0} /\ Len(installed) \in Nat /\ i <= Len(installed) /\ i \in Places
      /\ TypeOK /\ App.name \in Apps /\ App.cur \in Versions \cup {NoVersion} /\ committing
  BY AppType, Running DEF RemovePrevious, Phases, bounds
<1>1. \A k \in Places : /\ New(k) \in Bundles /\ ContainerOf(k).version = installed[k].new
                        /\ New(k) \in {"partial", "unreadable", "release"} /\ RecordSound(installed[k])
  BY <1>0 DEF IInv, LoopInv, InstalledInv, RecordInv
<1>2. \A k \in 1..(i - 1) : installed[k].cur # NoVersion =>
        dirs[installed[k].name][installed[k].cur] = "absent"
  BY <1>0 DEF IInv, LoopInv
<1> DEFINE Done == \A k \in 1..i : installed[k].cur # NoVersion =>
                     dirs'[installed[k].name][installed[k].cur] = "absent"
           Ready == /\ dirs' \in [Apps -> VersionDirs] /\ container' = container
                    /\ \A b \in Apps : Now(b)' \subseteq Now(b)
                    /\ \A k \in Places : New(k)' = New(k)
<1>3. ContainerInv /\ container \in [Apps -> Containers]
  BY DEF IInv, TypeOK
<1>4. ASSUME Raise, Ready
      PROVE  IInv'
  <2>1. result' \in {"none", "error"} /\ committing'
    BY <1>0, <1>4 DEF Raise, Finish
  <2>2. BootInv'
    BY <2>1 DEF BootInv
  <2>3. SuccessInstalls' /\ VersionsRestored' /\ VersionsCleaned'
    BY <2>1, NoPromise
  <2>4. ContainerInv' /\ container' \in [Apps -> Containers] /\ dirs' \in [Apps -> VersionDirs]
    BY <1>3, <1>4 DEF ContainerInv
  <2> QED BY <1>0, <1>4, <2>2, <2>3, <2>4, Ends DEF Raise, Results
<1>5. ASSUME Continue(Finish("success")), Ready, Done
      PROVE  IInv'
  <2>0. ContainerInv' /\ container' \in [Apps -> Containers] /\ dirs' \in [Apps -> VersionDirs]
    BY <1>3, <1>5 DEF ContainerInv
  <2>1. \A a \in Apps : \A v \in Now(a)' \ Then(a) :
          \E k \in Places : installed[k].name = a /\ installed[k].new = v
    BY <1>0, <1>5 DEF IInv, DirsInv
  <2>2. CASE i < Len(installed)
    <3>1. Goes /\ pc' = "remove" /\ i' = i + 1
      BY <1>0, <1>5, <2>2, NextGoes DEF Continue
    <3>2. BootInv'
      BY <3>1 DEF BootInv, Goes
    <3>3. RecordInv'
      BY <1>0 DEF IInv, RecordInv, RecordSound, Places, Then
    <3>4. DirsInv'
      BY <1>0, <2>1, <3>1 DEF DirsInv, Places, Then
    <3>5. InstalledInv'
      BY <1>0, <1>1, <1>5 DEF InstalledInv, Places
    <3>6. LoopInv'
      <4>1. Places' = Places /\ i' - 1 = i
        BY <1>0, <3>1 DEF Places
      <4>2. \A k \in Places : New(k)' \in Bundles /\ ContainerOf(k)'.version = installed'[k].new
        BY <1>0, <1>1, <1>5 DEF ContainerOf
      <4> HIDE DEF Ready
      <4> QED BY <1>0, <1>5, <3>1, <4>1, <4>2 DEF LoopInv
    <3> QED BY <1>0, <2>0, <3>1, <3>2, <3>3, <3>4, <3>5, <3>6, GoesOn DEF IInv
  <2>3. CASE ~(i < Len(installed))
    <3>0. Places = 1..i
      BY <1>0, <2>3 DEF Places
    <3>1. Finish("success")
      BY <1>5, <2>3 DEF Continue
    <3>2. BootInv'
      BY <1>0, <3>1 DEF BootInv, Finish
    <3>3. VersionsRestored' /\ VersionsCleaned'
      BY <3>1 DEF Finish, VersionsRestored, VersionsCleaned
    <3>4. SuccessInstalls'
      <4> SUFFICES ASSUME StartedClean', NEW r \in Range(installed)
                   PROVE  /\ BundlesOf(dirs', r.name) = {r.new}
                          /\ dirs'[r.name][r.new] = "release"
                          /\ container'[r.name].version = r.new
        BY <1>0 DEF SuccessInstalls
      <4>1. PICK k \in Places : r = installed[k]
        BY <1>0, RangePlaces
      <4>2. r.name \in Apps /\ r.new \in Versions
        BY <1>0, <4>1, PlaceType
      <4>3. dirs'[r.name][r.new] = "release"
        BY <1>0, <1>1, <1>5, <4>1 DEF New, Bundles
      <4>4. container'[r.name].version = r.new
        BY <1>1, <1>5, <4>1 DEF ContainerOf
      <4>5. r.new \in Now(r.name)'
        BY <4>2, <4>3 DEF Now, OciBundles, Bundles
      <4>6. ASSUME NEW v \in Now(r.name)' PROVE v = r.new
        <5>1. CASE v \in Then(r.name)
          <6>1. Then(r.name) \in SUBSET Versions /\ Cardinality(Then(r.name)) <= 1
            BY <1>0, <4>2, VersionType DEF StartedClean, BundlesOf, Then
          <6>2. RecordSound(r)
            BY <1>1, <4>1
          <6>3. Min(Then(r.name)) \in Then(r.name)
            BY <5>1, <6>1, MinProp
          <6>4. r.cur = Min(Then(r.name)) /\ r.cur # NoVersion
            BY <5>1, <6>2, <6>3, <6>1, VersionType DEF RecordSound
          <6>5. v = r.cur
            BY <5>1, <6>1, <6>3, <6>4, AtMostOne
          <6>6. dirs'[r.name][v] = "absent"
            BY <1>5, <3>0, <4>1, <6>4, <6>5
          <6> QED BY <4>6, <6>6 DEF Now, OciBundles, Bundles
        <5>2. CASE v \notin Then(r.name)
          <6>1. PICK m \in Places : installed[m].name = r.name /\ installed[m].new = v
            BY <2>1, <4>2, <4>6, <5>2
          <6>2. ContainerOf(m).version = v /\ ContainerOf(k).version = r.new
            BY <1>1, <4>1, <6>1
          <6> QED BY <4>1, <6>1, <6>2 DEF ContainerOf
        <5> QED BY <5>1, <5>2
      <4>7. BundlesOf(dirs', r.name) = Now(r.name)'
        BY DEF BundlesOf, Now
      <4> QED BY <4>3, <4>4, <4>5, <4>6, <4>7
    <3> QED BY <1>0, <2>0, <3>1, <3>2, <3>3, <3>4, Ends DEF Results
  <2> QED BY <2>2, <2>3
<1>6. CASE App.cur = NoVersion /\ Continue(Finish("success")) /\ UNCHANGED <<dirs, container>>
  <2>1. Ready
    BY <1>0, <1>6, DirsType DEF Now, New
  <2>2. Done
    BY <1>0, <1>2, <1>6 DEF App
  <2> QED BY <1>5, <1>6, <2>1, <2>2
<1>7. ASSUME App.cur # NoVersion, NEW o \in remove_app(dirs[App.name], App.cur),
             OnDirs(App.name, o),
             (o.res = "ok" /\ Continue(Finish("success"))) \/ Raise
      PROVE  IInv'
  <2>0. App.cur \in Versions
    BY <1>0, <1>7
  <2>1. /\ dirs' \in [Apps -> VersionDirs] /\ container' = container
        /\ OnlyDir(App.name, App.cur)
        /\ \A b \in Apps : Now(b)' \subseteq Now(b)
        /\ o.res = "ok" => dirs'[App.name][App.cur] = "absent"
    BY <1>0, <1>7, <2>0, RemoveDirs
  <2>2. ASSUME NEW k \in Places PROVE New(k)' = New(k)
    <3>1. installed[k].name \in Apps /\ installed[k].new \in Versions
      BY <1>0, PlaceType
    <3>2. CASE installed[k].name # App.name
      BY <1>0, <2>1, <3>1, <3>2 DEF OnlyDir, New
    <3>3. CASE installed[k].name = App.name
      <4>1. installed[k].new = App.new
        BY <1>0, <1>1, <3>3 DEF ContainerOf, App
      <4>2. App.cur < App.new
        BY <1>0, <1>1, <1>7 DEF RecordSound, App
      <4>3. installed[k].new # App.cur
        <5>1. App.cur \in Nat /\ App.new \in Nat
          BY <2>0, <3>1, <4>1, VersionType
        <5>2. App.cur # App.new
          BY <4>2, <5>1
        <5> QED BY <4>1, <5>2
      <4> QED BY <1>0, <2>1, <3>1, <4>3 DEF OnlyDir, New
    <3> QED BY <3>2, <3>3
  <2>3. Ready
    BY <2>1, <2>2
  <2>4. CASE Raise
    BY <1>4, <2>3, <2>4
  <2>5. CASE o.res = "ok" /\ Continue(Finish("success"))
    <3>1. ASSUME NEW k \in 1..i, installed[k].cur # NoVersion
          PROVE  dirs'[installed[k].name][installed[k].cur] = "absent"
      <4>1. k \in Places
        BY <1>0 DEF Places
      <4>2. installed[k].name \in Apps /\ installed[k].cur \in Versions
        BY <1>0, <3>1, <4>1, PlaceType
      <4>3. CASE installed[k].name = App.name /\ installed[k].cur = App.cur
        BY <2>1, <2>5, <4>3
      <4>4. CASE installed[k].name # App.name \/ installed[k].cur # App.cur
        <5>1. k \in 1..(i - 1)
          BY <1>0, <4>4 DEF App
        <5> QED BY <1>2, <2>1, <3>1, <4>2, <4>4, <5>1 DEF OnlyDir
      <4> QED BY <4>3, <4>4
    <3> QED BY <1>5, <2>3, <2>5, <3>1
  <2> QED BY <1>7, <2>4, <2>5
<1> QED BY <1>6, <1>7 DEF RemovePrevious, RemoveBundle

----------------------------------------------------------------------------
(* The beginning of an update.                                             *)

LEMMA UnpackStep == ASSUME IInv, NEW pkg \in Packages, Unpack(pkg) PROVE IInv'
<1>0. /\ pc = "idle" /\ booting = {} /\ Room(pkg) /\ before' = dirs /\ installed' = <<>>
      /\ committing' = FALSE /\ i' = 1 /\ ipkCount' = ipkCount + Len(pkg)
      /\ ipkCount + Len(pkg) <= MaxIpks
      /\ UNCHANGED <<dirs, container, booting, crashes>>
      /\ \/ pc' = "install" /\ ipks' = pkg /\ result' = "none"
         \/ pc' = "idle" /\ ipks' = <<>> /\ result' = "error"
  BY DEF Unpack
<1>1. pkg \in Seq(Apps) /\ pkg # <<>> /\ TypeOK /\ MaxIpks \in Nat
  BY AppUpdateAssumption DEF IInv
<1>2. TypeOK'
  <2>1. ipkCount' \in 0..MaxIpks
    BY <1>0, <1>1 DEF TypeOK
  <2>2. committing' \in BOOLEAN
    BY <1>0
  <2>3. /\ dirs' \in [Apps -> [Versions -> Kinds]] /\ before' \in [Apps -> [Versions -> Kinds]]
        /\ container' \in [Apps -> Containers] /\ booting' \subseteq Apps
        /\ crashes' \in 0..MaxCrashes
    BY <1>0, <1>1 DEF TypeOK
  <2>4. pc' \in {"install", "idle"} /\ result' \in Results /\ i' \in Nat \ {0}
    BY <1>0 DEF Results
  <2>5. ipks' \in Seq(Apps) /\ installed' \in Seq(Records)
    <3>1. ipks' = pkg \/ ipks' = <<>>
      BY <1>0
    <3>2. ipks' \in Seq(Apps)
      <4>1. <<>> \in Seq(Apps)
        OBVIOUS
      <4> QED BY <1>1, <3>1, <4>1, Zenon
    <3>3. installed' \in Seq(Records)
      BY <1>0
    <3> QED BY <3>2, <3>3
  <2> QED BY <2>1, <2>2, <2>3, <2>4, <2>5 DEF TypeOK, Phases
<1>3. ContainerInv'
  BY <1>0 DEF IInv, ContainerInv
<1>4. BootInv'
  <2>1. ASSUME NEW a \in Apps, Now(a) # {}
        PROVE  /\ Min(Now(a)) \in Now(a)
               /\ \A w \in Now(a) : Min(Now(a)) <= w
    <3>1. Now(a) \in SUBSET Versions
      BY VersionType DEF Now
    <3> QED BY <2>1, <3>1, MinProp
  <2>2. \A a \in Apps : Now(a)' = Now(a) /\ Then(a)' = Now(a)
    BY <1>0 DEF Now, Then
  <2> QED BY <1>0, <2>1, <2>2 DEF BootInv, LowestKept
<1>5. SuccessInstalls' /\ VersionsRestored' /\ VersionsCleaned'
  BY <1>0, NoPromise
<1>6. CASE pc' = "idle"
  BY <1>0, <1>2, <1>3, <1>4, <1>5, <1>6, IdleIInv
<1>7. CASE pc' = "install" /\ ipks' = pkg /\ result' = "none"
  <2>1. ControlInv'
    <3>1. Room(ipks)'
      BY <1>0, <1>7 DEF Room
    <3> QED BY <1>0, <1>1, <1>7, <3>1 DEF ControlInv
  <2>2. Places' = {}
    BY <1>0 DEF Places
  <2>3. RecordInv' /\ InstalledInv'
    BY <2>2 DEF RecordInv, InstalledInv
  <2>4. DirsInv'
    BY <1>0 DEF DirsInv, Now, Then
  <2>5. LoopInv'
    BY <1>7, LoopBegins
  <2> QED BY <1>2, <1>3, <1>4, <1>5, <2>1, <2>3, <2>4, <2>5 DEF IInv
<1> QED BY <1>0, <1>6, <1>7

LEMMA StartInstalledStep == ASSUME IInv, StartInstalledApps PROVE IInv'
<1>0. /\ pc = "install" /\ pc \in Phases \ {"remove"} /\ ipks = <<>> /\ Goto("stop")
      /\ UNCHANGED <<dirs, before, container, ipks, installed, booting, ipkCount, crashes>>
  BY DEF StartInstalledApps, disk, bounds, Phases
<1>1. installed # <<>> /\ TypeOK
  BY <1>0 DEF IInv, ControlInv
<1>2. Goes /\ pc' = "stop" /\ i' = 1
  BY <1>0, <1>1, GotoGoes DEF Phases
<1>3. dirs' \in [Apps -> VersionDirs] /\ container' \in [Apps -> Containers] /\ ContainerInv'
  BY <1>0, <1>1, DirsType DEF IInv, TypeOK, ContainerInv
<1>4. BootInv'
  <2>1. committing' = committing
    BY <1>0, <1>2, Running DEF Goes
  <2> QED BY <1>0, <2>1, BootUnmoved
<1>5. RecordInv' /\ DirsInv' /\ InstalledInv'
  BY <1>0, <1>2, Unmoved DEF Phases
<1>6. LoopInv'
  BY <1>2, LoopBegins
<1> QED BY <1>0, <1>2, <1>3, <1>4, <1>5, <1>6, GoesOn DEF IInv

\* The paths that an application is installed with: the new version is higher than
\* any that is there, and there is a number for it.
PathsSound(a, p) ==
  /\ p.new \in Versions /\ p.cur \in Versions \cup {NoVersion}
  /\ \A w \in Now(a) : w < p.new
  /\ p.cur = NoVersion => ~HasParentDir(dirs[a])
  /\ p.cur # NoVersion => /\ p.cur \in Now(a) /\ p.cur < p.new
                          /\ \A w \in Now(a) : p.cur <= w
  /\ p.new + Occurrences(ipks, a) <= MaxVersion + 1

LEMMA PathsProp ==
  ASSUME IInv, pc = "install", ipks # <<>>, NEW p \in get_app_bundle_paths(Head(ipks))
  PROVE  PathsSound(Head(ipks), p)
<1> DEFINE a == Head(ipks)  n == Occurrences(ipks, a)
<1>0. TypeOK /\ ipks \in Seq(Apps) /\ a \in Apps /\ Room(ipks) /\ MaxVersion \in Nat
      /\ Versions = 0..MaxVersion
  BY AppManagerAssumption DEF IInv, TypeOK, ControlInv, Versions
<1>1. n \in Nat /\ n >= 1
  BY <1>0, OccurrencesTail
<1>2. /\ n <= MaxVersion + 1
      /\ \A v \in Now(a) : v + n <= MaxVersion
  BY <1>0 DEF Room, Now
<1>3. Now(a) \in SUBSET Versions /\ Now(a) \subseteq Nat /\ NoVersion \notin Versions
  BY VersionType DEF Now
<1> HIDE DEF n, a
<1>4. CASE ~HasParentDir(dirs[a])
  <2>1. p = [cur |-> NoVersion, new |-> 0]
    BY <1>4 DEF get_app_bundle_paths, a
  <2>2. p.cur = NoVersion /\ p.new = 0
    BY <2>1
  <2>3. Now(a) = {}
    BY <1>4 DEF HasParentDir, Now, OciBundles, Bundles
  <2> QED BY <1>0, <1>1, <1>2, <1>4, <2>2, <2>3 DEF PathsSound, a, n
<1>5. CASE HasParentDir(dirs[a])
  <2>1. Now(a) # {} /\ p = [cur |-> Min(Now(a)), new |-> Max(Now(a)) + 1]
    BY <1>5 DEF get_app_bundle_paths, get_oci_bundle_paths, Now, a
  <2>2. p.cur = Min(Now(a)) /\ p.new = Max(Now(a)) + 1
    BY <2>1
  <2>3. Min(Now(a)) \in Now(a) /\ \A w \in Now(a) : Min(Now(a)) <= w
    BY <1>3, <2>1, MinProp
  <2>4. Max(Now(a)) \in Now(a) /\ \A w \in Now(a) : w <= Max(Now(a))
    BY <1>3, <2>1, MaxProp
  <2>5. p.new \in Nat /\ Max(Now(a)) \in Nat /\ Max(Now(a)) + n <= MaxVersion
    BY <1>2, <1>3, <2>2, <2>4
  <2>6. p.new + n <= MaxVersion + 1 /\ p.new \in Versions
    BY <1>0, <1>1, <2>2, <2>5
  <2>7. \A w \in Now(a) : w < p.new
    BY <1>3, <2>2, <2>4, <2>5
  <2>8. p.cur \in Now(a) /\ p.cur \in Versions /\ p.cur # NoVersion
    BY <1>3, <2>2, <2>3
  <2> QED BY <2>2, <2>3, <2>6, <2>7, <2>8 DEF PathsSound, a, n
<1> QED BY <1>4, <1>5

\* An installation, however it ends, leaves the versions from before the update
\* and adds none but the new one, which is higher.
LEMMA InstallDirs ==
  ASSUME IInv, pc = "install", NEW a \in Apps, NEW p, PathsSound(a, p),
         NEW o \in install_app(dirs[a], p.new), OnDirs(a, o), UNCHANGED before
  PROVE  /\ dirs' \in [Apps -> VersionDirs] /\ container' = container
         /\ OnlyDir(a, p.new)
         /\ o.res = "ok" => dirs'[a][p.new] \in {"partial", "unreadable", "release"}
         /\ o.res = "AppInstallError" => dirs'[a][p.new] = "absent"
         /\ p.new \notin Then(a)
         /\ \A b \in Apps : Then(b) \subseteq Now(b)'
         /\ \A b \in Apps : \A v \in Now(b)' : v \in Now(b) \/ (b = a /\ v = p.new)
         /\ committing' = committing => BootInv'
<1>0. TypeOK /\ pc # "idle" /\ pc # "remove" /\ dirs[a] \in VersionDirs /\ p.new \in Versions
  BY DirsType DEF IInv, PathsSound
<1>1. dirs' = [dirs EXCEPT ![a] = o.dirs] /\ container' = container
  BY DEF OnDirs
<1>2. /\ OneDir(dirs[a], o.dirs, p.new)
      /\ o.res = "ok" => o.dirs[p.new] \in {"partial", "unreadable", "release"}
      /\ o.res = "AppInstallError" => o.dirs[p.new] = "absent"
  BY <1>0, InstallProp
<1>3. dirs' \in [Apps -> VersionDirs] /\ dirs'[a] = o.dirs /\ OnlyDir(a, p.new)
  BY <1>0, <1>1, <1>2, OneAppDirs
<1>4. \A b \in Apps : /\ Then(b)' = Then(b) /\ Then(b) \subseteq Now(b)
                      /\ Then(b) \in SUBSET Versions
  BY <1>0, VersionType DEF IInv, DirsInv, Then
<1>5. p.new \notin Now(a) /\ \A w \in Now(a) : w < p.new
  <2>1. p.new \in Nat /\ \A w \in Now(a) : w < p.new
    BY <1>0, VersionType DEF PathsSound
  <2> QED BY <2>1
<1>6. ASSUME NEW b \in Apps, NEW v \in Now(b)'
      PROVE  v \in Now(b) \/ (b = a /\ v = p.new)
  <2>1. v \in Versions /\ dirs'[b][v] \in Bundles
    BY <1>6 DEF Now, OciBundles
  <2> QED BY <1>3, <2>1 DEF OnlyDir, Now, OciBundles
<1>7. ASSUME NEW b \in Apps, NEW v \in Then(b)
      PROVE  dirs'[b][v] = dirs[b][v] /\ v \in Now(b)'
  <2>1. v \in Versions /\ (b # a \/ v # p.new) /\ v \in Now(b)
    BY <1>4, <1>5
  <2>2. dirs'[b][v] = dirs[b][v]
    BY <1>3, <2>1 DEF OnlyDir
  <2> QED BY <2>1, <2>2 DEF Now, OciBundles
<1>8. ASSUME committing' = committing PROVE BootInv'
  <2> SUFFICES ASSUME ~committing, NEW b \in Apps, Then(b) # {} PROVE LowestKept(b)'
    BY <1>4, <1>8 DEF BootInv
  <2> DEFINE v == Min(Then(b))
  <2>1. v \in Then(b) /\ v \in Nat /\ p.new \in Nat
    BY <1>0, <1>4, MinProp, VersionType
  <2>2. LowestKept(b)
    BY DEF IInv, BootInv
  <2>3. v \in Now(b) /\ dirs[b][v] = before[b][v] /\ \A w \in Now(b) : v <= w
    BY <2>2 DEF LowestKept
  <2> HIDE DEF v
  <2>4. ASSUME NEW w \in Now(b)' PROVE v <= w
    <3>1. CASE w \in Now(b)
      BY <2>3, <3>1
    <3>2. CASE b = a /\ w = p.new
      BY <1>5, <2>1, <2>3, <3>2
    <3> QED BY <1>6, <3>1, <3>2
  <2>5. dirs'[b][v] = before[b][v] /\ v \in Now(b)'
    BY <1>7, <2>1, <2>3
  <2> QED BY <1>4, <2>4, <2>5 DEF LowestKept, v
<1> QED BY <1>1, <1>2, <1>3, <1>4, <1>5, <1>6, <1>7, <1>8

\* install_apps fails: nothing that the failed installation left is a bundle.
LEMMA InstallFails ==
  ASSUME IInv, pc = "install", InstallFailed,
         UNCHANGED <<ipkCount, crashes, before, ipks, installed, booting, container>>,
         dirs' \in [Apps -> VersionDirs], committing' = committing => BootInv',
         \A b \in Apps : Then(b) \subseteq Now(b)' /\ Now(b)' \subseteq Now(b)
  PROVE  IInv'
<1>0. pc \in Phases \ {"remove"} /\ pc # "idle" /\ TypeOK
  BY DEF Phases, IInv
<1>1. ContainerInv' /\ container' \in [Apps -> Containers]
  BY DEF IInv, TypeOK, ContainerInv
<1>2. \A b \in Apps : Then(b)' = Then(b)
  BY DEF Then
<1>3. \A a \in Apps : \A v \in Now(a)' \ Then(a) :
        \E k \in Places : installed[k].name = a /\ installed[k].new = v
  BY <1>0 DEF IInv, DirsInv
<1>4. CASE installed = <<>> /\ Finish("cleaned")
  <2>1. BootInv' /\ result' = "cleaned"
    BY <1>4 DEF Finish
  <2>2. SuccessInstalls' /\ VersionsRestored'
    BY <2>1 DEF SuccessInstalls, VersionsRestored
  <2>3. Places = {}
    BY <1>4 DEF Places
  <2>4. \A a \in Apps : Now(a)' = Then(a)'
    BY <1>2, <1>3, <2>3
  <2>5. VersionsCleaned'
    BY <2>4 DEF VersionsCleaned, BundlesOf, Now, Then
  <2> QED BY <1>0, <1>1, <1>4, <2>1, <2>2, <2>5, Ends DEF Results
<1>5. CASE installed # <<>> /\ Goto("cleanup")
  <2>1. Goes /\ pc' = "cleanup" /\ i' = 1
    BY <1>0, <1>5, GotoGoes DEF Phases
  <2>2. BootInv'
    <3>1. committing' = committing
      BY <1>0, <2>1, Running DEF Goes
    <3> QED BY <3>1
  <2>3. RecordInv'
    BY <1>0 DEF IInv, RecordInv, RecordSound, Places, Then
  <2>4. DirsInv'
    BY <1>2, <1>3, <2>1 DEF DirsInv, Places
  <2>5. InstalledInv'
    BY <2>1 DEF InstalledInv
  <2>6. LoopInv'
    BY <2>1, LoopBegins
  <2> QED BY <1>0, <1>1, <2>1, <2>2, <2>3, <2>4, <2>5, <2>6, GoesOn DEF IInv
<1> QED BY <1>4, <1>5 DEF InstallFailed

\* An application is installed.
LEMMA InstallSucceeds ==
  ASSUME IInv, pc = "install", ipks # <<>>, NEW p, PathsSound(Head(ipks), p),
         NEW o \in install_app(dirs[Head(ipks)], p.new), OnDirs(Head(ipks), o), o.res = "ok",
         installed' = Append(installed, [name |-> Head(ipks), cur |-> p.cur, new |-> p.new,
                                        used |-> container[Head(ipks)].version]),
         ipks' = Tail(ipks), UNCHANGED <<pc, i, result, committing, booting, before, ipkCount, crashes>>
  PROVE  IInv'
<1> DEFINE a == Head(ipks)
           rec == [name |-> a, cur |-> p.cur, new |-> p.new, used |-> container[a].version]
           n == Len(installed)
<1>0. /\ pc \in Phases \ {"remove"} /\ pc # "idle" /\ TypeOK /\ ipks \in Seq(Apps) /\ a \in Apps
      /\ n \in Nat /\ installed \in Seq(Records)
  BY DEF Phases, IInv, TypeOK
<1>1. /\ dirs' \in [Apps -> VersionDirs] /\ container' = container
      /\ OnlyDir(a, p.new) /\ dirs'[a][p.new] \in {"partial", "unreadable", "release"}
      /\ p.new \notin Then(a)
      /\ \A b \in Apps : Then(b) \subseteq Now(b)'
      /\ \A b \in Apps : \A v \in Now(b)' : v \in Now(b) \/ (b = a /\ v = p.new)
      /\ BootInv'
  BY <1>0, InstallDirs
<1>2. rec \in Records /\ rec.name = a /\ rec.cur = p.cur /\ rec.new = p.new
  <2>1. container[a].version \in Versions \cup {NoVersion}
    BY <1>0 DEF TypeOK, Containers
  <2> QED BY <1>0, <2>1 DEF Records, PathsSound
<1> HIDE DEF rec
<1>3. /\ installed' \in Seq(Records) /\ Len(installed') = n + 1 /\ installed'[n + 1] = rec
      /\ \A k \in 1..n : installed'[k] = installed[k]
  BY <1>0, <1>2 DEF rec
<1>4. Places = 1..n /\ Places' = 1..(n + 1) /\ n + 1 \in Places'
  BY <1>0, <1>3 DEF Places
<1>5. /\ ipks' \in Seq(Apps)
      /\ \A b \in Apps : /\ Occurrences(ipks, b) \in Nat /\ Occurrences(ipks', b) \in Nat
                         /\ Occurrences(ipks', b) <= Occurrences(ipks, b)
      /\ Occurrences(ipks, a) = Occurrences(ipks', a) + 1
  <2>1. \A b \in Apps : /\ Tail(ipks) \in Seq(Apps)
                        /\ Occurrences(ipks, b) \in Nat /\ Occurrences(ipks', b) \in Nat
                        /\ Occurrences(ipks, b) =
                             Occurrences(ipks', b) + (IF Head(ipks) = b THEN 1 ELSE 0)
    BY <1>0, OccurrencesTail
  <2>2. ipks' \in Seq(Apps)
    BY <1>0, <2>1
  <2>3. Occurrences(ipks, a) = Occurrences(ipks', a) + 1
    BY <1>0, <2>1
  <2> HIDE DEF a
  <2>4. ASSUME NEW b \in Apps
        PROVE  /\ Occurrences(ipks, b) \in Nat /\ Occurrences(ipks', b) \in Nat
               /\ Occurrences(ipks', b) <= Occurrences(ipks, b)
    <3> DEFINE x == Occurrences(ipks, b)  y == Occurrences(ipks', b)
    <3>1. x \in Nat /\ y \in Nat /\ (x = y + 1 \/ x = y + 0)
      BY <2>1
    <3> HIDE DEF x, y
    <3>2. y <= x
      BY <3>1
    <3> QED BY <3>1, <3>2 DEF x, y
  <2> QED BY <2>2, <2>3, <2>4
<1> HIDE DEF n
<1>6. TypeOK'
  <2>1. /\ dirs' \in [Apps -> [Versions -> Kinds]] /\ before' \in [Apps -> [Versions -> Kinds]]
        /\ container' \in [Apps -> Containers] /\ booting' \subseteq Apps
        /\ crashes' \in 0..MaxCrashes /\ ipkCount' \in 0..MaxIpks
    BY <1>0, <1>1 DEF TypeOK, VersionDirs
  <2>2. pc' = "install" /\ result' \in Results /\ i' \in Nat \ {0}
    BY <1>0 DEF TypeOK
  <2>3. committing' \in BOOLEAN
    BY <1>0 DEF TypeOK
  <2> QED BY <1>3, <1>5, <2>1, <2>2, <2>3 DEF TypeOK, Phases
<1>7. ContainerInv'
  BY <1>1 DEF IInv, ContainerInv
<1>8. ControlInv'
  <2>1. Room(ipks)'
    <3> SUFFICES ASSUME NEW b \in Apps
                 PROVE  /\ Occurrences(ipks', b) <= MaxVersion + 1
                        /\ \A v \in Now(b)' : v + Occurrences(ipks', b) <= MaxVersion
      BY DEF Room, Now
    <3>1. /\ Occurrences(ipks, b) <= MaxVersion + 1
          /\ \A v \in Now(b) : v + Occurrences(ipks, b) <= MaxVersion
      BY <1>0 DEF IInv, ControlInv, Room, Now
    <3>2. MaxVersion \in Nat /\ Now(b) \subseteq Nat /\ p.new \in Nat
      BY AppManagerAssumption, VersionType DEF Now, PathsSound
    <3>3. p.new + Occurrences(ipks, a) <= MaxVersion + 1
      BY DEF PathsSound
    <3>4. ASSUME NEW v \in Now(b)' PROVE v + Occurrences(ipks', b) <= MaxVersion
      <4>1. CASE v \in Now(b)
        <5>1. v \in Nat /\ v + Occurrences(ipks, b) <= MaxVersion
          BY <3>1, <3>2, <4>1
        <5> QED BY <1>5, <3>2, <5>1
      <4>2. CASE b = a /\ v = p.new
        <5>1. /\ Occurrences(ipks, b) = Occurrences(ipks', b) + 1 /\ Occurrences(ipks', b) \in Nat
              /\ v + Occurrences(ipks, b) <= MaxVersion + 1 /\ v \in Nat
          BY <1>5, <3>2, <3>3, <4>2
        <5> HIDE DEF a, n
        <5> QED BY <3>2, <5>1
      <4> QED BY <1>1, <4>1, <4>2
    <3>5. Occurrences(ipks', b) <= MaxVersion + 1
      BY <1>5, <3>1, <3>2
    <3> QED BY <3>4, <3>5
  <2>2. installed' # <<>>
    <3>1. Len(installed') # 0
      BY <1>0, <1>3
    <3> QED BY <3>1
  <2>3. result = "none" /\ booting = {} /\ ~committing
    BY <1>0, Running
  <2> QED BY <2>1, <2>2, <2>3 DEF ControlInv
<1>9. RecordInv'
  <2>0. \A b \in Apps : Then(b)' = Then(b)
    BY DEF Then
  <2>1. RecordSound(rec)
    <3>1. p.cur # NoVersion => p.cur < p.new
      BY DEF PathsSound
    <3>2. Then(a) \subseteq Now(a) /\ Now(a) \in SUBSET Versions
      BY <1>0, VersionType DEF IInv, DirsInv, Now
    <3>3. ASSUME p.cur = NoVersion PROVE Now(a) = {}
      BY <3>3 DEF PathsSound, HasParentDir, Now, OciBundles, Bundles
    <3>4. ASSUME Then(a) # {} PROVE p.cur = Min(Then(a))
      <4>1. LowestKept(a)
        BY <1>0, <3>4, Running DEF IInv, BootInv
      <4>2. Min(Then(a)) \in Now(a) /\ \A w \in Now(a) : Min(Then(a)) <= w
        BY <4>1 DEF LowestKept
      <4>3. p.cur \in Now(a) /\ \A w \in Now(a) : p.cur <= w
        BY <3>3, <4>2 DEF PathsSound
      <4>4. Min(Now(a)) = Min(Then(a)) /\ Min(Now(a)) = p.cur
        BY <3>2, <4>2, <4>3, MinUnique
      <4> QED BY <4>4
    <3> QED BY <1>1, <1>2, <3>1, <3>2, <3>3, <3>4 DEF RecordSound
  <2>2. ASSUME NEW j \in 1..n, installed[j].name = a PROVE p.cur # NoVersion
    <3>1. j \in Places
      BY <1>4
    <3>2. dirs[a][installed[j].new] # "absent" /\ installed[j].new \in Versions
      BY <1>0, <2>2, <3>1, PlaceType DEF IInv, InstalledInv, New
    <3>3. HasParentDir(dirs[a])
      BY <3>2 DEF HasParentDir
    <3> QED BY <3>3 DEF PathsSound
  <2>3. ASSUME NEW k \in 1..(n + 1)
        PROVE  /\ RecordSound(installed'[k])
               /\ \A j \in 1..(k - 1) :
                    installed'[j].name = installed'[k].name => installed'[k].cur # NoVersion
    <3>1. CASE k = n + 1
      <4>1. 1..(k - 1) = 1..n
        BY <1>0, <3>1 DEF n
      <4> QED BY <1>2, <1>3, <2>1, <2>2, <3>1, <4>1
    <3>2. CASE k # n + 1
      <4>1. k \in Places /\ k \in 1..n /\ 1..(k - 1) \subseteq 1..n
        BY <1>0, <1>4, <3>2 DEF n
      <4>2. /\ RecordSound(installed[k])
            /\ \A j \in 1..(k - 1) :
                 installed[j].name = installed[k].name => installed[k].cur # NoVersion
        BY <1>0, <4>1 DEF IInv, RecordInv
      <4> QED BY <1>3, <4>1, <4>2
    <3> QED BY <3>1, <3>2
  <2>4. \A k \in 1..(n + 1) : installed'[k].name \in Apps
    <3>1. \A k \in 1..Len(installed') : installed'[k] \in Records
      BY <1>3
    <3>2. \A r \in Records : r.name \in Apps
      BY DEF Records
    <3> QED BY <1>3, <3>1, <3>2
  <2>5. \A k \in 1..(n + 1) : RecordSound(installed[k])'
    BY <2>0, <2>3, <2>4 DEF RecordSound
  <2> QED BY <1>4, <2>3, <2>5 DEF RecordInv
<1>10. DirsInv'
  <2>1. \A b \in Apps : Then(b)' = Then(b)
    BY DEF Then
  <2>2. ASSUME NEW b \in Apps, NEW v \in Now(b)', v \notin Then(b)
        PROVE  \E k \in Places' : installed'[k].name = b /\ installed'[k].new = v
    <3>1. CASE v \in Now(b)
      <4>1. PICK k \in Places : installed[k].name = b /\ installed[k].new = v
        BY <1>0, <2>2, <3>1 DEF IInv, DirsInv
      <4>2. k \in Places' /\ installed'[k] = installed[k]
        BY <1>0, <1>3, <1>4 DEF n
      <4> QED BY <4>1, <4>2
    <3>2. CASE b = a /\ v = p.new
      BY <1>2, <1>3, <1>4, <3>2
    <3> QED BY <1>1, <3>1, <3>2
  <2>3. \A b \in Apps : Then(b)' \subseteq Now(b)'
    BY <1>1, <2>1
  <2>4. ASSUME NEW b \in Apps, NEW v \in Now(b)' \ Then(b)'
        PROVE  \E k \in Places' : installed'[k].name = b /\ installed'[k].new = v
    <3>1. v \in Now(b)' /\ v \notin Then(b)
      BY <2>1, <2>4
    <3> QED BY <2>2, <3>1, Zenon
  <2> QED BY <2>3, <2>4 DEF DirsInv
<1>11. InstalledInv'
  <2> SUFFICES ASSUME NEW k \in 1..(n + 1) PROVE New(k)' \in {"partial", "unreadable", "release"}
    BY <1>4 DEF InstalledInv
  <2>1. CASE k = n + 1
    BY <1>1, <1>2, <1>3, <2>1 DEF New
  <2>2. CASE k # n + 1
    <3>1. k \in Places /\ installed'[k] = installed[k]
      BY <1>0, <1>3, <1>4, <2>2 DEF n
    <3>2. New(k) \in {"partial", "unreadable", "release"} /\ installed[k].name \in Apps /\ installed[k].new \in Versions
      BY <1>0, <3>1, PlaceType DEF IInv, InstalledInv
    <3> DEFINE b == installed[k].name  w == installed[k].new
    <3>3. New(k)' = dirs'[b][w] /\ New(k) = dirs[b][w]
      BY <3>1 DEF New
    <3>4. CASE b = a /\ w = p.new
      BY <1>1, <3>3, <3>4
    <3>5. CASE b # a \/ w # p.new
      <4>1. dirs'[b][w] = dirs[b][w]
        BY <1>1, <3>2, <3>5 DEF OnlyDir
      <4> QED BY <3>2, <3>3, <4>1
    <3> QED BY <3>4, <3>5
  <2> QED BY <2>1, <2>2
<1>12. LoopInv'
  BY LoopBegins
<1>13. SuccessInstalls' /\ VersionsRestored' /\ VersionsCleaned'
  BY <1>0, Running, NoPromise
<1> QED BY <1>1, <1>6, <1>7, <1>8, <1>9, <1>10, <1>11, <1>12, <1>13 DEF IInv

LEMMA InstallStep == ASSUME IInv, InstallApp PROVE IInv'
<1> DEFINE a == Head(ipks)
<1>0. /\ pc = "install" /\ pc \in Phases /\ ipks # <<>> /\ TypeOK /\ a \in Apps
      /\ UNCHANGED <<booting, before, ipkCount, crashes>>
  BY DEF InstallApp, bounds, Phases, IInv, TypeOK
<1>1. ASSUME Raise, UNCHANGED <<ipks, installed, container>>,
             dirs' \in [Apps -> VersionDirs], committing' = committing => BootInv'
      PROVE  IInv'
  <2>1. result' \in {"none", "error"} /\ BootInv'
    BY <1>1 DEF Raise, Finish
  <2>2. SuccessInstalls' /\ VersionsRestored' /\ VersionsCleaned'
    BY <2>1, NoPromise
  <2>3. ContainerInv' /\ container' \in [Apps -> Containers]
    BY <1>1 DEF IInv, TypeOK, ContainerInv
  <2> QED BY <1>0, <1>1, <2>1, <2>2, <2>3, Ends DEF Raise, Results
<1>2. CASE (InstallFailed \/ Raise) /\ UNCHANGED <<dirs, container, ipks, installed>>
  <2>1. dirs' \in [Apps -> VersionDirs]
    BY <1>0, <1>2, DirsType
  <2>2. committing' = committing => BootInv'
    BY <1>0, <1>2, BootUnmoved
  <2>3. \A b \in Apps : Then(b) \subseteq Now(b)' /\ Now(b)' \subseteq Now(b)
    BY <1>0, <1>2 DEF IInv, DirsInv, Now
  <2> QED BY <1>0, <1>1, <1>2, <2>1, <2>2, <2>3, InstallFails
<1>3. ASSUME NEW p \in get_app_bundle_paths(a), NEW o \in install_app(dirs[a], p.new), OnDirs(a, o),
             \/ /\ o.res = "ok"
                /\ installed' = Append(installed, [name |-> a, cur |-> p.cur, new |-> p.new,
                                                   used |-> container[a].version])
                /\ ipks' = Tail(ipks)
                /\ UNCHANGED control
             \/ /\ o.res = "AppInstallError" /\ InstallFailed
                /\ UNCHANGED <<ipks, installed>>
             \/ /\ o.res = "AppUninstallError" /\ Raise
                /\ UNCHANGED <<ipks, installed>>
      PROVE  IInv'
  <2>1. PathsSound(a, p)
    BY <1>0, PathsProp
  <2>2. /\ dirs' \in [Apps -> VersionDirs] /\ container' = container
        /\ o.res = "AppInstallError" => dirs'[a][p.new] = "absent"
        /\ \A b \in Apps : Then(b) \subseteq Now(b)'
        /\ \A b \in Apps : \A v \in Now(b)' : v \in Now(b) \/ (b = a /\ v = p.new)
        /\ committing' = committing => BootInv'
    BY <1>0, <1>3, <2>1, InstallDirs
  <2>3. CASE /\ o.res = "ok"
             /\ installed' = Append(installed, [name |-> a, cur |-> p.cur, new |-> p.new,
                                                   used |-> container[a].version])
             /\ ipks' = Tail(ipks)
             /\ UNCHANGED control
    BY <1>0, <1>3, <2>1, <2>3, InstallSucceeds DEF control
  <2>4. CASE o.res = "AppInstallError" /\ InstallFailed /\ UNCHANGED <<ipks, installed>>
    <3>1. ASSUME NEW b \in Apps, NEW v \in Now(b)' PROVE v \in Now(b)
      <4>1. dirs'[b][v] \in Bundles
        BY <3>1 DEF Now, OciBundles
      <4>2. b # a \/ v # p.new
        BY <2>2, <2>4, <4>1 DEF Bundles
      <4> QED BY <2>2, <4>2
    <3> QED BY <1>0, <2>2, <2>4, <3>1, InstallFails
  <2>5. CASE Raise /\ UNCHANGED <<ipks, installed>>
    BY <1>1, <2>2, <2>5
  <2> QED BY <1>3, <2>3, <2>4, <2>5
<1> QED BY <1>2, <1>3 DEF InstallApp

----------------------------------------------------------------------------
(* Boot, power cuts, applications and the operator.                        *)

\* Steps while no update runs, on one application, that keep its lowest version.
LEMMA BootStep ==
  ASSUME IInv, NEW a \in Apps, NEW o \in run_app_from_parent_dir(a),
         dirs' = [dirs EXCEPT ![a] = o.dirs], UNCHANGED <<before, committing>>,
         container' = [container EXCEPT ![a] = o.container]
  PROVE  /\ dirs' \in [Apps -> VersionDirs] /\ container' \in [Apps -> Containers]
         /\ ContainerInv' /\ BootInv'
<1>0. TypeOK /\ dirs \in [Apps -> VersionDirs] /\ Sound(container[a])
  BY DirsType DEF IInv, ContainerInv
<1>1. /\ o.dirs \in VersionDirs /\ Sound(o.container)
      /\ OciBundles(o.dirs) \subseteq Now(a)
      /\ Now(a) # {} => o.dirs[Min(Now(a))] = dirs[a][Min(Now(a))]
  BY <1>0, BootProp
<1>2. /\ dirs' \in [Apps -> VersionDirs] /\ dirs'[a] = o.dirs
      /\ \A b \in Apps \ {a} : dirs'[b] = dirs[b]
  BY <1>0, <1>1
<1>3. ContainerInv' /\ container' \in [Apps -> Containers]
  BY <1>0, <1>1, OneContainer DEF IInv
<1>4. BootInv'
  <2> SUFFICES ASSUME ~committing, NEW b \in Apps, Then(b) # {} PROVE LowestKept(b)'
    BY DEF BootInv, Then
  <2> DEFINE v == Min(Then(b))
  <2>1. v \in Now(b) /\ dirs[b][v] = before[b][v] /\ \A w \in Now(b) : v <= w
    BY DEF IInv, BootInv, LowestKept
  <2>2. Min(Then(b))' = v
    BY DEF Then
  <2> HIDE DEF v
  <2>3. CASE b # a
    <3>1. dirs'[b] = dirs[b] /\ Now(b)' = Now(b)
      BY <1>2, <2>3 DEF Now
    <3> QED BY <2>1, <2>2, <3>1 DEF LowestKept
  <2>4. CASE b = a
    <3>1. Min(Now(a)) = v
      <4>1. Now(a) \in SUBSET Versions
        BY VersionType DEF Now
      <4> QED BY <2>1, <2>4, <4>1, MinUnique
    <3>2. dirs'[a][v] = dirs[a][v] /\ Now(a)' \subseteq Now(a)
      BY <1>1, <1>2, <2>1, <2>4, <3>1 DEF Now
    <3>3. v \in Now(a)'
      BY <2>1, <2>4, <3>2 DEF Now, OciBundles
    <3> QED BY <2>1, <2>2, <2>4, <3>2, <3>3 DEF LowestKept
  <2> QED BY <2>3, <2>4
<1> QED BY <1>2, <1>3, <1>4

LEMMA CrashStep == ASSUME IInv, Crash PROVE IInv'
<1>0. /\ crashes < MaxCrashes /\ crashes' = crashes + 1
      /\ container' = [a \in Apps |-> NoContainer]
      /\ pc' = "idle" /\ i' = 1 /\ ipks' = <<>> /\ result' = "none"
      /\ booting' = {a \in Apps : HasParentDir(dirs[a])}
      /\ installed' = <<>> /\ UNCHANGED <<dirs, before, committing, ipkCount>>
  BY DEF Crash, disk
<1>1. TypeOK
  BY DEF IInv
<1>2. ContainerInv' /\ container' \in [Apps -> Containers]
  <2>1. Sound(NoContainer) /\ NoContainer \in Containers
    BY NoContainerSound DEF Sound
  <2> QED BY <1>0, <2>1 DEF ContainerInv
<1>3. TypeOK'
  <2>1. crashes' \in 0..MaxCrashes
    BY <1>0, <1>1, AppUpdateAssumption DEF TypeOK
  <2>2. committing' \in BOOLEAN
    BY <1>0, <1>1 DEF TypeOK
  <2>3. /\ dirs' \in [Apps -> [Versions -> Kinds]] /\ before' \in [Apps -> [Versions -> Kinds]]
        /\ ipkCount' \in 0..MaxIpks
    BY <1>0, <1>1 DEF TypeOK
  <2>4. ipks' \in Seq(Apps) /\ installed' \in Seq(Records)
    <3>1. ipks' \in Seq(Apps)
      BY <1>0
    <3>2. installed' \in Seq(Records)
      BY <1>0
    <3> QED BY <3>1, <3>2
  <2>5. pc' = "idle" /\ i' \in Nat \ {0} /\ result' \in Results /\ booting' \subseteq Apps
    BY <1>0 DEF Results
  <2> QED BY <1>2, <2>1, <2>2, <2>3, <2>4, <2>5 DEF TypeOK, Phases
<1>4. BootInv'
  BY <1>0, BootUnmoved
<1>5. SuccessInstalls' /\ VersionsRestored' /\ VersionsCleaned'
  BY <1>0, NoPromise
<1> QED BY <1>0, <1>2, <1>3, <1>4, <1>5, IdleIInv

\* A step of run-all or of the operator, while no update runs.
LEMMA QuietStep ==
  ASSUME IInv, pc = "idle", result' = "none", booting' \subseteq Apps,
         UNCHANGED <<pc, i, committing, before, ipkCount, crashes>>,
         UNCHANGED <<ipks, installed>> \/ (ipks' = <<>> /\ installed' = <<>>),
         dirs' \in [Apps -> VersionDirs], container' \in [Apps -> Containers],
         ContainerInv', BootInv'
  PROVE  IInv'
<1>1. TypeOK
  BY DEF IInv
<1>2. TypeOK'
  <2>1. committing' \in BOOLEAN
    BY <1>1 DEF TypeOK
  <2>2. /\ dirs' \in [Apps -> [Versions -> Kinds]] /\ before' \in [Apps -> [Versions -> Kinds]]
        /\ ipkCount' \in 0..MaxIpks /\ crashes' \in 0..MaxCrashes
    BY <1>1 DEF TypeOK, VersionDirs
  <2>3. pc' = "idle" /\ i' \in Nat \ {0} /\ result' \in Results
    BY <1>1 DEF TypeOK, Results
  <2>4. CASE UNCHANGED <<ipks, installed>>
    BY <1>1, <2>1, <2>2, <2>3, <2>4 DEF TypeOK, Phases
  <2>5. CASE ipks' = <<>> /\ installed' = <<>>
    <3>1. ipks' \in Seq(Apps)
      BY <2>5
    <3>2. installed' \in Seq(Records)
      BY <2>5
    <3> QED BY <2>1, <2>2, <2>3, <3>1, <3>2 DEF TypeOK, Phases
  <2> QED BY <2>4, <2>5
<1>3. SuccessInstalls' /\ VersionsRestored' /\ VersionsCleaned'
  BY NoPromise
<1> QED BY <1>2, <1>3, IdleIInv

LEMMA RunAllStep == ASSUME IInv, NEW a \in Apps, RunAll(a) PROVE IInv'
<1>0. /\ a \in booting /\ UNCHANGED <<pc, i, result, committing, ipks, installed, before>>
      /\ UNCHANGED <<ipkCount, crashes>> /\ booting \subseteq Apps
  BY DEF RunAll, control, bounds, IInv, TypeOK
<1>1. pc = "idle" /\ result = "none"
  BY <1>0 DEF IInv, ControlInv
<1>2. PICK o \in run_app_from_parent_dir(a) :
        /\ dirs' = [dirs EXCEPT ![a] = o.dirs]
        /\ container' = [container EXCEPT ![a] = o.container]
        /\ booting' = booting \ {a} \/ booting' = {}
  BY DEF RunAll
<1>3. /\ dirs' \in [Apps -> VersionDirs] /\ container' \in [Apps -> Containers]
      /\ ContainerInv' /\ BootInv'
  BY <1>0, <1>2, BootStep
<1>4. booting' \subseteq Apps
  BY <1>0, <1>2
<1> QED BY <1>0, <1>1, <1>3, <1>4, QuietStep

LEMMA OperatorStep == ASSUME IInv, NEW a \in Apps, Operator(a) PROVE IInv'
<1>0. /\ pc = "idle" /\ booting' = booting /\ result' = "none"
      /\ UNCHANGED <<pc, i, committing, before, ipkCount, crashes>>
      /\ ipks' = <<>> /\ installed' = <<>> /\ booting' \subseteq Apps /\ TypeOK
  BY DEF Operator, bounds, IInv, TypeOK
<1>1. ASSUME NEW o \in run_app_from_parent_dir(a),
             dirs' = [dirs EXCEPT ![a] = o.dirs], container' = [container EXCEPT ![a] = o.container]
      PROVE  IInv'
  <2>1. /\ dirs' \in [Apps -> VersionDirs] /\ container' \in [Apps -> Containers]
        /\ ContainerInv' /\ BootInv'
    BY <1>0, <1>1, BootStep
  <2> QED BY <1>0, <2>1, QuietStep
<1>2. ASSUME NEW o \in terminate_app(container[a]) \cup kill_app(container[a]), OnContainer(a, o)
      PROVE  IInv'
  <2>1. Sound(container[a])
    BY DEF IInv, ContainerInv
  <2>2. StopsWell(container[a], o)
    BY <1>2, <2>1, TerminateProp, KillProp
  <2>3. Sound(o.container)
    BY <2>2 DEF StopsWell
  <2>4. container' = [container EXCEPT ![a] = o.container] /\ dirs' = dirs
    BY <1>2 DEF OnContainer
  <2>5. ContainerInv' /\ container' \in [Apps -> Containers]
    BY <1>0, <2>3, <2>4, OneContainer DEF IInv
  <2>6. BootInv' /\ dirs' \in [Apps -> VersionDirs]
    BY <1>0, <2>4, BootUnmoved, DirsType
  <2> QED BY <1>0, <2>5, <2>6, QuietStep
<1> QED BY <1>1, <1>2 DEF Operator

\* An application that ends changes no version, and had a container.
LEMMA AppExitsStep == ASSUME IInv, NEW a \in Apps, AppExits(a) PROVE IInv'
<1>0. /\ container[a].state = "running"
      /\ container' = [container EXCEPT ![a] = Stopped(container[a])]
      /\ UNCHANGED <<pc, i, result, committing, dirs, before, ipks, installed, booting>>
      /\ UNCHANGED <<ipkCount, crashes>> /\ TypeOK
  BY DEF AppExits, control, disk, bounds, IInv
<1>1. Sound(container[a])
  BY DEF IInv, ContainerInv
<1>2. /\ Sound(Stopped(container[a])) /\ Stopped(container[a]).version = container[a].version
      /\ Stopped(container[a]).state = "stopped"
  BY <1>1, StoppedSound
<1>3. /\ ContainerInv' /\ container' \in [Apps -> Containers]
      /\ container'[a] = Stopped(container[a])
      /\ \A b \in Apps \ {a} : container'[b] = container[b]
  BY <1>0, <1>2, OneContainer DEF IInv
<1>4. \A b \in Apps : /\ container'[b].version = container[b].version
                      /\ (container[b].state = "does not exist" =>
                          container'[b].state = "does not exist")
  BY <1>0, <1>2, <1>3
<1>5. TypeOK'
  <2>1. committing' \in BOOLEAN
    BY <1>0 DEF TypeOK
  <2> QED BY <1>0, <1>3, <2>1 DEF TypeOK
<1>6. ControlInv' /\ BootInv' /\ RecordInv' /\ DirsInv' /\ InstalledInv'
  <2>1. ControlInv'
    BY <1>0 DEF IInv, ControlInv, Room
  <2>2. BootInv'
    BY <1>0, BootUnmoved
  <2>3. RecordInv'
    BY <1>0 DEF IInv, RecordInv, RecordSound, Places, Then
  <2>4. DirsInv'
    <3>1. /\ pc' = pc /\ installed' = installed /\ Places' = Places
          /\ \A b \in Apps : Now(b)' = Now(b) /\ Then(b)' = Then(b)
      BY <1>0 DEF Places, Now, Then
    <3> QED BY <3>1 DEF IInv, DirsInv
  <2>5. InstalledInv'
    BY <1>0 DEF IInv, InstalledInv, Places, New
  <2> QED BY <2>1, <2>2, <2>3, <2>4, <2>5
<1>7. LoopInv'
  <2>1. Places' = Places /\ \A k \in Places : New(k)' = New(k)
    BY <1>0 DEF Places, New
  <2>2. \A k \in Places : /\ ContainerOf(k)'.version = ContainerOf(k).version
                          /\ Gone(k) => Gone(k)'
    BY <1>0, <1>4, PlaceType DEF ContainerOf, Gone
  <2>3. pc # "idle" /\ pc \in Phases \ {"install"} =>
          /\ i \in Nat \ {0} /\ Len(installed) \in Nat /\ i <= Len(installed)
          /\ 1..(i - 1) \subseteq Places /\ i..Len(installed) \subseteq Places
    BY Running DEF Places
  <2>4. pc \in {"cleanup", "rbremove"} => \A k \in 1..(i - 1) : New(k)' = "absent"
    BY <2>1, <2>3 DEF IInv, LoopInv, Phases
  <2>5. pc = "run" =>
          \A k \in 1..(i - 1) : New(k)' \in Bundles /\ ContainerOf(k)'.version = installed[k].new
    BY <2>1, <2>2, <2>3 DEF IInv, LoopInv, Phases
  <2>6. pc = "remove" =>
          /\ \A k \in Places : New(k)' \in Bundles /\ ContainerOf(k)'.version = installed[k].new
          /\ \A k \in 1..(i - 1) : installed[k].cur # NoVersion =>
               dirs[installed[k].name][installed[k].cur] = "absent"
    BY <2>1, <2>2 DEF IInv, LoopInv
  <2>7. /\ pc = "rbstop" => \A k \in 1..(i - 1) : Gone(k)'
        /\ pc = "rbremove" => \A k \in Places : Gone(k)'
    BY <2>2, <2>3 DEF IInv, LoopInv, Phases
  <2>8. pc = "rbrun" =>
          /\ \A k \in Places : New(k)' = "absent"
          /\ \A k \in 1..(i - 1) : ContainerOf(k)'.version = installed[k].cur
          /\ \A k \in i..Len(installed) :
               Gone(k)' \/ \E j \in 1..(i - 1) : installed[j].name = installed[k].name
    BY <2>1, <2>2, <2>3 DEF IInv, LoopInv, Phases
  <2> QED BY <1>0, <2>1, <2>4, <2>5, <2>6, <2>7, <2>8 DEF LoopInv
<1>8. SuccessInstalls' /\ VersionsRestored' /\ VersionsCleaned'
  <2>1. \A r \in Range(installed) : r.name \in Apps
    BY <1>0, RangePlaces, PlaceType
  <2>2. VersionsCleaned'
    BY <1>0 DEF IInv, VersionsCleaned, BundlesOf
  <2>3. SuccessInstalls'
    BY <1>0, <1>4, <2>1 DEF IInv, SuccessInstalls, StartedClean, BundlesOf
  <2>4. VersionsRestored'
    BY <1>0, <1>4, <2>1 DEF IInv, VersionsRestored, BundlesOf
  <2> QED BY <2>2, <2>3, <2>4
<1> QED BY <1>3, <1>5, <1>6, <1>7, <1>8 DEF IInv

----------------------------------------------------------------------------
(* The invariant of the specification.                                     *)

LEMMA InitIInv == ASSUME Init PROVE IInv
<1>0. /\ before = dirs /\ pc = "idle" /\ i = 1 /\ ipks = <<>> /\ installed = <<>>
      /\ result = "none" /\ committing = FALSE /\ booting = {} /\ ipkCount = 0 /\ crashes = 0
  BY DEF Init
<1>1. PICK have \in SUBSET Apps :
        /\ dirs = [a \in Apps |-> [v \in Versions |->
                     IF a \in have /\ v = 0 THEN "release" ELSE "absent"]]
        /\ container = [a \in Apps |-> IF a \in have
                          THEN [state |-> "running", version |-> 0] ELSE NoContainer]
  BY DEF Init
<1>2. ASSUME NEW a \in Apps PROVE Sound(container[a])
  <2>1. 0 \in Versions
    BY AppManagerAssumption DEF Versions
  <2>2. Sound([state |-> "running", version |-> 0])
    BY <2>1 DEF Sound, Containers, ContainerStates
  <2> QED BY <1>1, <2>2, NoContainerSound
<1>3. TypeOK
  <2>1. dirs \in [Apps -> [Versions -> Kinds]]
    BY <1>1 DEF Kinds
  <2>2. container \in [Apps -> Containers]
    <3>1. DOMAIN container = Apps /\ container = [a \in Apps |-> container[a]]
      BY <1>1
    <3>2. \A a \in Apps : container[a] \in Containers
      BY <1>2 DEF Sound
    <3> QED BY <3>1, <3>2
  <2>3. ipks \in Seq(Apps)
    BY <1>0
  <2>4. installed \in Seq(Records)
    BY <1>0
  <2>5. committing \in BOOLEAN
    BY <1>0
  <2>6. ipkCount \in 0..MaxIpks /\ crashes \in 0..MaxCrashes
    BY <1>0, AppUpdateAssumption
  <2> QED BY <1>0, <2>1, <2>2, <2>3, <2>4, <2>5, <2>6 DEF TypeOK, Phases, Results
<1>4. ContainerInv
  BY <1>2 DEF ContainerInv
<1>5. BootInv
  <2> SUFFICES ASSUME NEW a \in Apps, Then(a) # {} PROVE LowestKept(a)
    BY DEF BootInv
  <2>1. Then(a) = Now(a) /\ Then(a) \in SUBSET Versions
    BY <1>0, VersionType DEF Then, Now
  <2>2. Min(Then(a)) \in Then(a) /\ \A w \in Then(a) : Min(Then(a)) <= w
    BY <2>1, MinProp
  <2> QED BY <1>0, <2>1, <2>2 DEF LowestKept
<1>6. ControlInv /\ RecordInv /\ DirsInv /\ InstalledInv
  BY <1>0 DEF ControlInv, RecordInv, DirsInv, InstalledInv
<1>7. LoopInv
  BY <1>0 DEF LoopInv
<1>8. SuccessInstalls /\ VersionsRestored /\ VersionsCleaned
  BY <1>0 DEF SuccessInstalls, VersionsRestored, VersionsCleaned
<1> QED BY <1>3, <1>4, <1>5, <1>6, <1>7, <1>8 DEF IInv

LEMMA StutterIInv == ASSUME IInv, UNCHANGED vars PROVE IInv'
<1>0. UNCHANGED <<dirs, container, pc, i, ipks, installed, result, booting, before, committing,
                  ipkCount, crashes>>
  BY DEF vars
<1>1. TypeOK'
  BY <1>0 DEF IInv, TypeOK
<1>2. ContainerInv' /\ ControlInv' /\ BootInv'
  BY <1>0 DEF IInv, ContainerInv, ControlInv, Room, BootInv, LowestKept, Now, Then
<1>3. RecordInv' /\ DirsInv' /\ InstalledInv'
  <2>1. RecordInv'
    BY <1>0 DEF IInv, RecordInv, RecordSound, Places, Then
  <2>2. DirsInv'
    BY <1>0 DEF IInv, DirsInv, Places, Now, Then
  <2>3. InstalledInv'
    BY <1>0 DEF IInv, InstalledInv, Places, New
  <2> QED BY <2>1, <2>2, <2>3
<1>4. LoopInv'
  BY <1>0 DEF IInv, LoopInv, Places, New, ContainerOf, Gone
<1>5. SuccessInstalls' /\ VersionsRestored' /\ VersionsCleaned'
  BY <1>0 DEF IInv, SuccessInstalls, StartedClean, VersionsRestored, VersionsCleaned, BundlesOf
<1> QED BY <1>1, <1>2, <1>3, <1>4, <1>5 DEF IInv

LEMMA StepIInv == ASSUME IInv, [Next]_vars PROVE IInv'
<1>1. CASE \E pkg \in Packages : Unpack(pkg)
  BY <1>1, UnpackStep
<1>2. CASE Manager
  BY <1>2, InstallStep, StartInstalledStep, StopStep, RunStep, RemovePreviousStep, CleanUpStep,
     RollbackStopStep, RollbackRemoveStep, RollbackRunStep DEF Manager
<1>3. CASE Crash
  BY <1>3, CrashStep
<1>4. CASE \E a \in Apps : RunAll(a) \/ AppExits(a) \/ Operator(a)
  BY <1>4, RunAllStep, AppExitsStep, OperatorStep
<1>5. CASE UNCHANGED vars
  BY <1>5, StutterIInv
<1> QED BY <1>1, <1>2, <1>3, <1>4, <1>5 DEF Next

\* The inductive invariant holds in every state.
LEMMA Invariance == Spec => []IInv
<1>1. Init => IInv
  BY InitIInv
<1>2. IInv /\ [Next]_vars => IInv'
  BY StepIInv
<1> QED BY <1>1, <1>2, PTL DEF Spec

----------------------------------------------------------------------------
(* What is in use and what can be read.  A second invariant, on top of the *)
(* first.                                                                  *)

\* The container of an application was created from a version that is there, and
\* while packages are installed from one that was there before.
UseInv ==
  \A a \in Apps : container[a].version # NoVersion =>
    /\ container[a].version \in Now(a)
    /\ pc \in {"install", "cleanup"} => container[a].version \in Then(a)

\* A config.json that cannot be read was there before, or came with a version that
\* the update installed.
ReadInv ==
  pc # "idle" => \A a \in Apps : \A v \in Versions : dirs[a][v] = "unreadable" =>
    \/ before[a][v] = "unreadable"
    \/ \E k \in Places : installed[k].name = a /\ installed[k].new = v

\* Where the version of a record comes from: what was in use was there before the
\* update, and so was the current one, unless it came with another record.
Origin(r, v) == v \in Then(r.name) \/ \E j \in Places : installed[j].name = r.name /\ installed[j].new = v

UsedInv ==
  pc # "idle" => \A k \in Places :
    /\ installed[k].used \in Then(installed[k].name) \cup {NoVersion}
    /\ installed[k].cur # NoVersion => Origin(installed[k], installed[k].cur)

JInv == UseInv /\ ReadInv /\ UsedInv /\ RollbackRestores /\ CleanUpRestores

\* Steps that leave the directories, and that create no container.
LEMMA UseUnmoved ==
  ASSUME UseInv, UNCHANGED <<dirs, before>>,
         \A a \in Apps : container'[a].version \in {container[a].version, NoVersion},
         pc' \in {"install", "cleanup"} => pc \in {"install", "cleanup"}
  PROVE  UseInv'
<1>1. \A a \in Apps : Now(a)' = Now(a) /\ Then(a)' = Then(a)
  BY DEF Now, Then
<1> QED BY <1>1 DEF UseInv

\* Steps on the container of one application.
LEMMA UseOnContainer ==
  ASSUME IInv, UseInv, NEW a \in Apps, NEW o, OnContainer(a, o), UNCHANGED before,
         pc' \notin {"install", "cleanup"},
         o.container.version \in {container[a].version, NoVersion} \cup Now(a)
  PROVE  UseInv'
<1>1. dirs' = dirs /\ DOMAIN container = Apps /\ container' = [container EXCEPT ![a] = o.container]
  BY DirsType DEF IInv, OnContainer
<1>2. container'[a] = o.container /\ \A b \in Apps \ {a} : container'[b] = container[b]
  BY <1>1
<1>3. \A b \in Apps : Now(b)' = Now(b)
  BY <1>1 DEF Now
<1>4. ASSUME NEW b \in Apps, container'[b].version # NoVersion
      PROVE  container'[b].version \in Now(b)'
  <2>1. CASE b = a
    BY <1>2, <1>3, <1>4, <2>1 DEF UseInv
  <2>2. CASE b # a
    BY <1>2, <1>3, <1>4, <2>2 DEF UseInv
  <2> QED BY <2>1, <2>2
<1> QED BY <1>4 DEF UseInv

\* Steps on a version directory that is not in use.
LEMMA UseOnDirs ==
  ASSUME IInv, UseInv, NEW a \in Apps, NEW v \in Versions, OnlyDir(a, v),
         UNCHANGED <<container, before>>, container[a].version # v,
         pc' \in {"install", "cleanup"} => pc \in {"install", "cleanup"}
  PROVE  UseInv'
<1>1. \A b \in Apps : Then(b)' = Then(b)
  BY DEF Then
<1>2. ASSUME NEW b \in Apps, container[b].version # NoVersion
      PROVE  container[b].version \in Now(b)'
  <2>1. container[b].version \in Now(b)
    BY <1>2 DEF UseInv
  <2>2. container[b].version \in Versions /\ dirs[b][container[b].version] \in Bundles
    BY <2>1 DEF Now, OciBundles
  <2>3. dirs'[b][container[b].version] = dirs[b][container[b].version]
    BY <2>2 DEF OnlyDir
  <2> QED BY <2>2, <2>3 DEF Now, OciBundles
<1> QED BY <1>1, <1>2 DEF UseInv

\* run-all and the run command remove what is not in use.
LEMMA UseBoot ==
  ASSUME IInv, UseInv, NEW a \in Apps, NEW o \in run_app_from_parent_dir(a), pc' = "idle",
         dirs' = [dirs EXCEPT ![a] = o.dirs], container' = [container EXCEPT ![a] = o.container]
  PROVE  UseInv'
<1>1. /\ dirs \in [Apps -> VersionDirs] /\ Sound(container[a]) /\ DOMAIN dirs = Apps
      /\ DOMAIN container = Apps
  BY DirsType DEF IInv, ContainerInv
<1>2. /\ dirs'[a] = o.dirs /\ container'[a] = o.container
      /\ \A b \in Apps \ {a} : dirs'[b] = dirs[b] /\ container'[b] = container[b]
  BY <1>1
<1>3. /\ Now(a) # {} => o.dirs[Min(Now(a))] = dirs[a][Min(Now(a))]
      /\ o.container.version # NoVersion =>
           \/ o.container.version = container[a].version /\ o.dirs = dirs[a]
           \/ Now(a) # {} /\ o.container.version = Min(Now(a))
  BY <1>1, BootProp
<1>4. ASSUME NEW b \in Apps, container'[b].version # NoVersion
      PROVE  container'[b].version \in Now(b)'
  <2>1. CASE b # a
    BY <1>2, <1>4, <2>1 DEF UseInv, Now
  <2>2. CASE b = a /\ o.container.version = container[a].version /\ o.dirs = dirs[a]
    BY <1>2, <1>4, <2>2 DEF UseInv, Now
  <2>3. CASE b = a /\ Now(a) # {} /\ o.container.version = Min(Now(a))
    <3>1. Now(a) \in SUBSET Versions
      BY VersionType DEF Now
    <3>2. Min(Now(a)) \in Now(a)
      BY <2>3, <3>1, MinProp
    <3>3. o.dirs[Min(Now(a))] \in Bundles /\ Min(Now(a)) \in Versions
      BY <1>3, <2>3, <3>2 DEF Now, OciBundles
    <3>4. Min(Now(a)) \in OciBundles(dirs'[a])
      BY <1>2, <3>3 DEF OciBundles
    <3>5. Now(a)' = OciBundles(dirs'[a]) /\ container'[b].version = Min(Now(a))
      BY <1>2, <2>3 DEF Now
    <3> QED BY <2>3, <3>4, <3>5
  <2> QED BY <1>2, <1>3, <1>4, <2>1, <2>2, <2>3
<1> QED BY <1>4 DEF UseInv

\* The manager's steps.
LEMMA UseManager == ASSUME IInv, UseInv, Manager PROVE UseInv'
<1>0. TypeOK /\ DOMAIN container = Apps
  BY DirsType DEF IInv
<1>1. CASE InstallApp
  <2>1. /\ pc = "install" /\ ipks # <<>> /\ before' = before /\ Head(ipks) \in Apps
    BY <1>0, <1>1 DEF InstallApp, TypeOK
  <2>2. CASE UNCHANGED <<dirs, container>>
    BY <2>1, <2>2, UseUnmoved
  <2>3. CASE ~UNCHANGED <<dirs, container>>
    <3>1. PICK p \in get_app_bundle_paths(Head(ipks)) :
            \E o \in install_app(dirs[Head(ipks)], p.new) : OnDirs(Head(ipks), o)
      BY <1>1, <2>3 DEF InstallApp
    <3>2. PICK o \in install_app(dirs[Head(ipks)], p.new) : OnDirs(Head(ipks), o)
      BY <3>1
    <3>3. PathsSound(Head(ipks), p)
      BY <2>1, PathsProp
    <3>4. OnlyDir(Head(ipks), p.new) /\ container' = container
      BY <2>1, <3>2, <3>3, InstallDirs
    <3>5. p.new \in Versions /\ p.new \in Nat /\ \A w \in Now(Head(ipks)) : w < p.new
      BY <3>3, VersionType DEF PathsSound
    <3>6. container[Head(ipks)].version # p.new
      <4>1. p.new # NoVersion /\ p.new \notin Now(Head(ipks))
        BY <3>5, VersionType
      <4> QED BY <2>1, <4>1 DEF UseInv
    <3> QED BY <2>1, <3>4, <3>5, <3>6, UseOnDirs
  <2> QED BY <2>2, <2>3
<1>2. CASE StartInstalledApps
  BY <1>2, UseUnmoved DEF StartInstalledApps, disk
<1>3. CASE StopRunning \/ RollbackStop
  <2>1. /\ pc \in {"stop", "rbstop"} /\ before' = before
        /\ \E o \in terminate_app(container[App.name]) : OnContainer(App.name, o)
    BY <1>3 DEF StopRunning, RollbackStop
  <2>2. pc' \notin {"install", "cleanup"}
    BY <1>3, <2>1 DEF StopRunning, RollbackStop, Continue, Goto, Raise, Finish
  <2>3. PICK o \in terminate_app(container[App.name]) : OnContainer(App.name, o)
    BY <2>1
  <2>4. App.name \in Apps /\ Sound(container[App.name])
    BY <2>1, AppType DEF Phases
  <2>5. o.container.version \in {container[App.name].version, NoVersion}
    BY <2>4, TerminateProp DEF StopsWell
  <2> QED BY <2>1, <2>2, <2>3, <2>4, <2>5, UseOnContainer
<1>4. CASE RunNew \/ RollbackRun
  <2>1. pc \in {"run", "rbrun"} /\ before' = before
    BY <1>4 DEF RunNew, RollbackRun
  <2>2. pc' \notin {"install", "cleanup"}
    BY <1>4, <2>1 DEF RunNew, RollbackRun, Continue, Goto, Raise, Finish
  <2>3. /\ App.name \in Apps /\ Sound(container[App.name]) /\ App.new \in Versions
        /\ App.cur \in Versions \cup {NoVersion}
    BY <2>1, AppType DEF Phases
  <2>4. CASE UNCHANGED <<dirs, container>>
    BY <2>1, <2>2, <2>4, UseUnmoved
  <2>5. CASE ~UNCHANGED <<dirs, container>>
    <3>1. PICK v \in Versions : \E o \in run_app(container[App.name], dirs[App.name], v) :
                                  OnContainer(App.name, o)
      BY <1>4, <2>3, <2>5 DEF RunNew, RollbackRun
    <3>2. PICK o \in run_app(container[App.name], dirs[App.name], v) : OnContainer(App.name, o)
      BY <3>1
    <3>3. RunsWell(container[App.name], dirs[App.name], v, o)
      BY <2>3, <3>2, RunProp
    <3>4. o.container.version \in {container[App.name].version, NoVersion} \cup Now(App.name)
      BY <3>3 DEF RunsWell, Now, OciBundles
    <3> QED BY <2>1, <2>2, <2>3, <3>2, <3>4, UseOnContainer
  <2> QED BY <2>4, <2>5
<1>5. ASSUME NEW v \in Versions, NEW o \in remove_app(dirs[App.name], v), OnDirs(App.name, o),
             pc \in {"cleanup", "rbremove", "remove"}, UNCHANGED <<before, installed>>,
             container[App.name].version # v, pc' = "cleanup" => pc = "cleanup", pc' # "install"
      PROVE  UseInv'
  <2>1. pc \in Phases \ {"install"}
    BY <1>5 DEF Phases
  <2>2. App.name \in Apps /\ OnlyDir(App.name, v) /\ container' = container
    BY <1>5, <2>1, AppType, RemoveDirs
  <2> QED BY <1>5, <2>2, UseOnDirs
<1>6. CASE CleanUp \/ RollbackRemove \/ RemovePrevious
  <2>1. /\ pc \in {"cleanup", "rbremove", "remove"} /\ UNCHANGED <<before, installed>>
        /\ pc \in Phases \ {"install"} /\ pc # "idle"
    BY <1>6 DEF CleanUp, RollbackRemove, RemovePrevious, Phases
  <2>2. pc' # "install" /\ (pc' = "cleanup" => pc = "cleanup")
    BY <1>6, <2>1 DEF CleanUp, RollbackRemove, RemovePrevious, RemoveBundle, Continue, Goto, Raise,
                      Finish
  <2>3. /\ App.name \in Apps /\ Sound(container[App.name]) /\ App.new \in Versions
        /\ App.cur \in Versions \cup {NoVersion} /\ i \in Places
    BY <2>1, AppType, Running
  <2>4. RecordSound(App)
    BY <2>1, <2>3 DEF IInv, RecordInv, App
  <2>5. CASE UNCHANGED <<dirs, container>>
    BY <2>1, <2>2, <2>5, UseUnmoved
  <2>6. CASE ~UNCHANGED <<dirs, container>> /\ (CleanUp \/ RollbackRemove)
    <3>1. PICK o \in remove_app(dirs[App.name], App.new) : OnDirs(App.name, o)
      BY <2>6 DEF CleanUp, RollbackRemove, RemoveBundle
    <3>2. container[App.name].version # App.new
      <4>1. CASE CleanUp
        BY <2>3, <2>4, <4>1, VersionType DEF UseInv, RecordSound, CleanUp
      <4>2. CASE RollbackRemove
        <5>1. Gone(i)
          BY <2>3, <4>2 DEF IInv, LoopInv, RollbackRemove
        <5>2. container[App.name].version = NoVersion
          BY <2>3, <5>1 DEF Gone, ContainerOf, Sound, App
        <5> QED BY <2>3, <5>2, VersionType
      <4> QED BY <2>6, <4>1, <4>2
    <3> QED BY <1>5, <2>1, <2>2, <2>3, <3>1, <3>2
  <2>7. CASE ~UNCHANGED <<dirs, container>> /\ RemovePrevious
    <3>1. /\ App.cur # NoVersion
          /\ \E o \in remove_app(dirs[App.name], App.cur) : OnDirs(App.name, o)
      BY <2>7 DEF RemovePrevious, RemoveBundle
    <3>2. PICK o \in remove_app(dirs[App.name], App.cur) : OnDirs(App.name, o)
      BY <3>1
    <3>3. container[App.name].version = App.new
      BY <2>3, <2>7 DEF IInv, LoopInv, ContainerOf, App, RemovePrevious
    <3>4. App.cur \in Versions /\ App.cur \in Nat /\ App.new \in Nat /\ App.cur < App.new
      BY <2>3, <2>4, <3>1, VersionType DEF RecordSound
    <3>5. container[App.name].version # App.cur
      BY <3>3, <3>4
    <3> QED BY <1>5, <2>1, <2>2, <3>2, <3>4, <3>5
  <2> QED BY <1>6, <2>5, <2>6, <2>7
<1> QED BY <1>1, <1>2, <1>3, <1>4, <1>6 DEF Manager

LEMMA UseStep == ASSUME IInv, UseInv, [Next]_vars PROVE UseInv'
<1>0. TypeOK /\ DOMAIN container = Apps
  BY DirsType DEF IInv
<1>1. ASSUME NEW pkg \in Packages, Unpack(pkg) PROVE UseInv'
  <2>1. UNCHANGED <<dirs, container>> /\ before' = dirs
    BY <1>1 DEF Unpack
  <2>2. \A a \in Apps : Now(a)' = Now(a) /\ Then(a)' = Now(a)
    BY <2>1 DEF Now, Then
  <2> QED BY <2>1, <2>2 DEF UseInv
<1>2. CASE Manager
  BY <1>2, UseManager
<1>3. CASE Crash
  <2>1. \A a \in Apps : container'[a].version = NoVersion
    BY <1>3 DEF Crash, NoContainer
  <2> QED BY <2>1 DEF UseInv
<1>4. ASSUME NEW a \in Apps, RunAll(a) PROVE UseInv'
  <2>1. pc = "idle" /\ pc' = pc
    BY <1>4 DEF IInv, ControlInv, RunAll, control
  <2>2. PICK o \in run_app_from_parent_dir(a) :
          dirs' = [dirs EXCEPT ![a] = o.dirs] /\ container' = [container EXCEPT ![a] = o.container]
    BY <1>4 DEF RunAll
  <2> QED BY <2>1, <2>2, UseBoot
<1>5. ASSUME NEW a \in Apps, AppExits(a) PROVE UseInv'
  <2>1. /\ container' = [container EXCEPT ![a] = Stopped(container[a])]
        /\ UNCHANGED <<pc, dirs, before>>
    BY <1>5 DEF AppExits, control, disk
  <2>2. Stopped(container[a]).version = container[a].version
    BY StoppedSound DEF IInv, ContainerInv
  <2>3. \A b \in Apps : container'[b].version = container[b].version
    BY <1>0, <2>1, <2>2
  <2> QED BY <2>1, <2>3, UseUnmoved
<1>6. ASSUME NEW a \in Apps, Operator(a) PROVE UseInv'
  <2>1. pc' = "idle" /\ before' = before
    BY <1>6 DEF Operator
  <2>2. ASSUME NEW o \in terminate_app(container[a]) \cup kill_app(container[a]), OnContainer(a, o)
        PROVE  UseInv'
    <3>1. StopsWell(container[a], o)
      BY TerminateProp, KillProp DEF IInv, ContainerInv
    <3> QED BY <2>1, <2>2, <3>1, UseOnContainer DEF StopsWell
  <2> QED BY <1>6, <2>1, <2>2, UseBoot DEF Operator
<1>7. CASE UNCHANGED vars
  BY <1>7, UseUnmoved DEF vars
<1> QED BY <1>1, <1>2, <1>3, <1>4, <1>5, <1>6, <1>7 DEF Next

\* A step that makes no config.json unreadable.
StillRead == \A a \in Apps : \A v \in Versions : dirs'[a][v] = "unreadable" => dirs[a][v] = "unreadable"

LEMMA ReadKept ==
  ASSUME ReadInv, UsedInv, pc # "idle", UNCHANGED <<before, installed>>, StillRead
  PROVE  ReadInv' /\ UsedInv'
<1>1. Places' = Places /\ installed' = installed
  BY DEF Places
<1>2. ReadInv'
  BY <1>1 DEF ReadInv, StillRead
<1>3. UsedInv'
  BY <1>1 DEF UsedInv, Origin, Then
<1> QED BY <1>2, <1>3

\* A result that promises nothing about the versions from before.
LEMMA NoRestoration ==
  ASSUME result' \notin {"restored", "cleaned"}
  PROVE  RollbackRestores' /\ CleanUpRestores'
BY DEF RollbackRestores, CleanUpRestores

\* The new versions are gone: so is what cannot be read.
LEMMA ReadRestored ==
  ASSUME ReadInv, pc # "idle", UNCHANGED <<before, installed>>, StillRead,
         \A k \in Places : New(k)' = "absent", NEW a \in Apps, Readable(before'[a])
  PROVE  Readable(dirs'[a])
<1> SUFFICES ASSUME NEW v \in Versions, dirs'[a][v] = "unreadable" PROVE FALSE
  BY DEF Readable
<1>1. dirs[a][v] = "unreadable" /\ before[a][v] # "unreadable"
  BY DEF StillRead, Readable
<1>2. PICK k \in Places : installed[k].name = a /\ installed[k].new = v
  BY <1>1 DEF ReadInv
<1>3. dirs'[a][v] = "absent"
  BY <1>2 DEF New
<1> QED BY <1>3

\* A removal.
LEMMA RemoveStillReads ==
  ASSUME IInv, pc \in Phases \ {"install"}, NEW v \in Versions,
         NEW o \in remove_app(dirs[App.name], v), OnDirs(App.name, o), installed' = installed
  PROVE  StillRead
<1>1. dirs[App.name] \in VersionDirs /\ App.name \in Apps /\ DOMAIN dirs = Apps
  BY AppType, DirsType DEF IInv
<1>2. OnlyDir(App.name, v) /\ dirs'[App.name] = o.dirs
  BY <1>1, RemoveDirs DEF OnDirs
<1>3. o.dirs[v] = "unreadable" => dirs[App.name][v] = "unreadable"
  BY <1>1, RemoveProp
<1> QED BY <1>2, <1>3 DEF StillRead, OnlyDir

\* An installation: an unreadable config.json comes with the record of the
\* application, or the installation failed and was cleaned up or ends the manager.
LEMMA InstallReads == ASSUME IInv, IInv', JInv, InstallApp PROVE JInv'
<1> DEFINE a == Head(ipks)
<1>0. /\ pc = "install" /\ pc \in Phases /\ pc # "idle" /\ ipks # <<>> /\ TypeOK /\ a \in Apps
      /\ before' = before /\ result = "none" /\ installed \in Seq(Records)
      /\ ReadInv /\ UsedInv
  BY Running DEF InstallApp, IInv, TypeOK, Phases, JInv
<1>1. UseInv'
  BY UseManager DEF Manager, JInv
<1>2. CASE Raise
  <2>1. pc' = "idle" /\ result' = "error"
    BY <1>2 DEF Raise, Finish
  <2> QED BY <1>1, <2>1, NoRestoration DEF JInv, ReadInv, UsedInv
<1>3. ASSUME InstallFailed, StillRead, installed' = installed PROVE JInv'
  <2>1. ReadInv' /\ UsedInv'
    BY <1>0, <1>3, ReadKept
  <2>2. CASE installed # <<>>
    <3>1. result' = "none"
      BY <1>0, <1>3, <2>2 DEF InstallFailed, Goto
    <3> QED BY <1>1, <2>1, <3>1, NoRestoration DEF JInv
  <2>3. CASE installed = <<>>
    <3>1. result' = "cleaned" /\ Places = {}
      BY <1>3, <2>3 DEF InstallFailed, Finish, Places
    <3>2. \A b \in Apps : BundlesOf(dirs', b) = BundlesOf(before', b)
      BY <3>1 DEF IInv, VersionsCleaned
    <3>3. \A b \in Apps : Readable(before'[b]) => Readable(dirs'[b])
      BY <1>0, <1>3, <3>1, ReadRestored
    <3>4. CleanUpRestores'
      BY <3>2, <3>3 DEF CleanUpRestores, AsBefore
    <3>5. RollbackRestores'
      BY <3>1 DEF RollbackRestores
    <3> QED BY <1>1, <2>1, <3>4, <3>5 DEF JInv
  <2> QED BY <2>2, <2>3
<1>4. CASE InstallFailed /\ UNCHANGED <<dirs, installed>>
  BY <1>3, <1>4 DEF StillRead
<1>5. ASSUME NEW p \in get_app_bundle_paths(a), NEW o \in install_app(dirs[a], p.new), OnDirs(a, o),
             \/ /\ o.res = "ok"
                /\ installed' = Append(installed, [name |-> a, cur |-> p.cur, new |-> p.new,
                                                   used |-> container[a].version])
                /\ UNCHANGED control
             \/ o.res = "AppInstallError" /\ InstallFailed /\ installed' = installed
      PROVE  JInv'
  <2>1. PathsSound(a, p)
    BY <1>0, PathsProp
  <2>2. /\ OnlyDir(a, p.new) /\ p.new \in Versions
        /\ o.res = "AppInstallError" => dirs'[a][p.new] = "absent"
    BY <1>0, <1>5, <2>1, InstallDirs DEF PathsSound
  <2> HIDE DEF a
  <2>3. CASE o.res = "AppInstallError" /\ InstallFailed /\ installed' = installed
    <3>1. StillRead
      BY <2>2, <2>3 DEF StillRead, OnlyDir
    <3> QED BY <1>3, <2>3, <3>1
  <2>4. CASE /\ installed' = Append(installed, [name |-> a, cur |-> p.cur, new |-> p.new,
                                                used |-> container[a].version])
             /\ UNCHANGED control
    <3> DEFINE n == Len(installed)
               rec == [name |-> a, cur |-> p.cur, new |-> p.new, used |-> container[a].version]
    <3>1. rec.name = a /\ rec.cur = p.cur /\ rec.new = p.new /\ rec.used = container[a].version
      OBVIOUS
    <3> HIDE DEF rec
    <3>2. /\ n \in Nat /\ Len(installed') = n + 1 /\ installed'[n + 1] = rec
          /\ \A k \in 1..n : installed'[k] = installed[k]
      BY <1>0, <2>4 DEF rec
    <3>3. Places = 1..n /\ Places' = 1..(n + 1) /\ n + 1 \in Places' /\ Places \subseteq Places'
      BY <3>2 DEF Places
    <3>4. pc' = "install" /\ result' = "none"
      BY <1>0, <2>4 DEF control
    <3> HIDE DEF n
    <3>5. ReadInv'
      <4> SUFFICES ASSUME NEW b \in Apps, NEW v \in Versions, dirs'[b][v] = "unreadable",
                          before'[b][v] # "unreadable"
                   PROVE  \E k \in Places' : installed'[k].name = b /\ installed'[k].new = v
        BY DEF ReadInv
      <4>1. CASE b = a /\ v = p.new
        BY <3>1, <3>2, <3>3, <4>1
      <4>2. CASE b # a \/ v # p.new
        <5>1. dirs[b][v] = "unreadable"
          BY <2>2, <4>2 DEF OnlyDir
        <5>2. PICK k \in Places : installed[k].name = b /\ installed[k].new = v
          BY <1>0, <5>1 DEF ReadInv
        <5> QED BY <3>2, <3>3, <5>2
      <4> QED BY <4>1, <4>2
    <3>6. UsedInv'
      <4>2. container[a].version \in Then(a) \cup {NoVersion}
        BY <1>0 DEF JInv, UseInv
      <4> DEFINE Older(r, v) == v \in Then(r.name) \/
                   \E j \in Places' : installed'[j].name = r.name /\ installed'[j].new = v
      <4>3. ASSUME NEW k \in 1..(n + 1)
            PROVE  /\ installed'[k].used \in Then(installed'[k].name) \cup {NoVersion}
                   /\ installed'[k].cur # NoVersion => Older(installed'[k], installed'[k].cur)
        <5>1. CASE k = n + 1
          <6>1. ASSUME p.cur # NoVersion, p.cur \notin Then(a)
                PROVE  \E j \in Places' : installed'[j].name = a /\ installed'[j].new = p.cur
            <7>1. p.cur \in Now(a)
              BY <2>1, <6>1 DEF PathsSound
            <7>2. PICK j \in Places : installed[j].name = a /\ installed[j].new = p.cur
              BY <1>0, <6>1, <7>1 DEF IInv, DirsInv
            <7> QED BY <3>2, <3>3, <7>2
          <6> QED BY <1>0, <3>1, <3>2, <4>2, <5>1, <6>1
        <5>2. CASE k # n + 1
          <6>1. k \in Places /\ installed'[k] = installed[k]
            BY <3>2, <3>3, <5>2
          <6>2. /\ installed[k].used \in Then(installed[k].name) \cup {NoVersion}
                /\ installed[k].cur # NoVersion => Origin(installed[k], installed[k].cur)
            BY <1>0, <6>1 DEF UsedInv
          <6>3. \A j \in Places : j \in Places' /\ installed'[j] = installed[j]
            BY <3>2, <3>3
          <6> QED BY <6>1, <6>2, <6>3 DEF Origin
        <5> QED BY <5>1, <5>2
      <4> QED BY <1>0, <3>3, <4>3 DEF UsedInv, Origin, Then
    <3> QED BY <1>1, <3>4, <3>5, <3>6, NoRestoration DEF JInv
  <2> QED BY <1>5, <2>3, <2>4
<1> QED BY <1>2, <1>3, <1>4, <1>5 DEF InstallApp

\* The clean-up ends: everything that the update installed is gone.
LEMMA CleanUpReads == ASSUME IInv, IInv', JInv, CleanUp PROVE JInv'
<1>0. /\ pc = "cleanup" /\ pc \in Phases \ {"install", "remove"} /\ pc # "idle"
      /\ UNCHANGED <<before, installed>> /\ result = "none" /\ ReadInv /\ UsedInv
      /\ i \in Nat \ {0} /\ Len(installed) \in Nat /\ i <= Len(installed)
      /\ TypeOK /\ App.new \in Versions
  BY AppType, Running DEF CleanUp, Phases, JInv
<1>1. PICK o \in remove_app(dirs[App.name], App.new) :
        /\ OnDirs(App.name, o)
        /\ (o.res = "ok" /\ Continue(Finish("cleaned"))) \/ Raise
  <2>1. App.new # NoVersion
    BY <1>0, VersionType
  <2> QED BY <2>1 DEF CleanUp, RemoveBundle
<1>2. StillRead
  BY <1>0, <1>1, RemoveStillReads
<1>3. ReadInv' /\ UsedInv'
  BY <1>0, <1>2, ReadKept
<1>4. UseInv'
  BY UseManager DEF Manager, JInv
<1>5. CASE result' \notin {"restored", "cleaned"}
  BY <1>3, <1>4, <1>5, NoRestoration DEF JInv
<1>6. CASE o.res = "ok" /\ ~(i < Len(installed)) /\ Finish("cleaned")
  <2>1. committing' = committing /\ result' = "cleaned"
    BY <1>6 DEF Finish
  <2>2. \A k \in 1..i : New(k)' = "absent"
    BY <1>0, <1>1, <1>6, <2>1, NewRemoved
  <2>3. Places = 1..i
    BY <1>0, <1>6 DEF Places
  <2>4. \A a \in Apps : Readable(before'[a]) => Readable(dirs'[a])
    BY <1>0, <1>2, <2>2, <2>3, ReadRestored
  <2>5. \A a \in Apps : BundlesOf(dirs', a) = BundlesOf(before', a)
    BY <2>1 DEF IInv, VersionsCleaned
  <2>6. CleanUpRestores' /\ RollbackRestores'
    BY <2>1, <2>4, <2>5 DEF CleanUpRestores, AsBefore, RollbackRestores
  <2> QED BY <1>3, <1>4, <2>6 DEF JInv
<1> QED BY <1>0, <1>1, <1>5, <1>6 DEF Continue, Finish, Raise

\* The rollback ends: what runs is the one version from before.
LEMMA RollbackRunReads == ASSUME IInv, IInv', JInv, RollbackRun PROVE JInv'
<1>0. /\ pc = "rbrun" /\ pc \in Phases \ {"install", "remove"} /\ pc # "idle"
      /\ UNCHANGED <<before, installed, dirs>> /\ ReadInv /\ UsedInv /\ TypeOK
  BY Running DEF RollbackRun, OnContainer, Phases, JInv
<1>1. StillRead
  BY <1>0 DEF StillRead
<1>2. ReadInv' /\ UsedInv' /\ UseInv'
  BY <1>0, <1>1, ReadKept, UseManager DEF Manager, JInv
<1>3. CASE result' \notin {"restored", "cleaned"}
  BY <1>2, <1>3, NoRestoration DEF JInv
<1>4. CASE result' = "restored"
  <2>1. \A k \in Places : New(k)' = "absent"
    BY <1>0 DEF IInv, LoopInv, New
  <2>2. ASSUME NEW r \in Range(installed)
        PROVE  /\ AsBefore(r.name)' /\ container'[r.name].version = r.cur
               /\ r.used # NoVersion /\ Cardinality(BundlesOf(before', r.name)) <= 1 =>
                    container'[r.name].version = r.used
    <3>1. PICK k \in Places : r = installed[k]
      BY <1>0, RangePlaces
    <3>2. r.name \in Apps /\ RecordSound(r) /\ r.used \in Then(r.name) \cup {NoVersion}
      BY <1>0, <3>1, PlaceType DEF IInv, RecordInv, UsedInv
    <3>3. BundlesOf(dirs', r.name) = BundlesOf(before', r.name) /\ container'[r.name].version = r.cur
      BY <1>0, <1>4 DEF IInv, VersionsRestored
    <3>4. Readable(before'[r.name]) => Readable(dirs'[r.name])
      BY <1>0, <1>1, <2>1, <3>2, ReadRestored
    <3>5. AsBefore(r.name)'
      BY <3>3, <3>4 DEF AsBefore
    <3>6. ASSUME r.used # NoVersion, Cardinality(Then(r.name)) <= 1 PROVE r.cur = r.used
      <4>1. Then(r.name) \in SUBSET Versions /\ r.used \in Then(r.name)
        BY <3>2, <3>6, VersionType DEF Then
      <4>2. r.cur = Min(Then(r.name)) /\ Min(Then(r.name)) \in Then(r.name)
        BY <3>2, <4>1, MinProp DEF RecordSound
      <4> QED BY <3>6, <4>1, <4>2, AtMostOne
    <3>7. BundlesOf(before', r.name) = Then(r.name)
      BY <1>0 DEF BundlesOf, Then
    <3> QED BY <3>3, <3>5, <3>6, <3>7
  <2>3. RollbackRestores'
    BY <1>0, <2>2 DEF RollbackRestores
  <2>4. CleanUpRestores'
    BY <1>4 DEF CleanUpRestores
  <2> QED BY <1>2, <2>3, <2>4 DEF JInv
<1>5. result' # "cleaned"
  <2>1. result = "none"
    BY <1>0, Running
  <2> QED BY <2>1 DEF RollbackRun, Continue, Finish, Raise
<1> QED BY <1>3, <1>4, <1>5

\* The other steps of the manager.
LEMMA OtherReads ==
  ASSUME IInv, IInv', JInv,
         StartInstalledApps \/ StopRunning \/ RunNew \/ RemovePrevious \/ RollbackStop \/ RollbackRemove
  PROVE  JInv'
<1>1. /\ pc \in Phases \ {"install"} \/ StartInstalledApps
      /\ pc # "idle" /\ UNCHANGED <<before, installed>>
  BY DEF StartInstalledApps, StopRunning, RunNew, RemovePrevious, RollbackStop, RollbackRemove, Phases,
         disk
<1>2. pc \in Phases
  BY <1>1 DEF StartInstalledApps, Phases
<1>3. UseInv' /\ ReadInv /\ UsedInv
  BY UseManager DEF Manager, JInv
<1>4. StillRead
  <2>1. CASE dirs' = dirs
    BY <2>1 DEF StillRead
  <2>2. CASE dirs' # dirs
    <3>1. pc \in Phases \ {"install"} /\ App.new \in Versions /\ App.cur \in Versions \cup {NoVersion}
      BY <1>1, <2>2, AppType DEF StartInstalledApps, disk
    <3>2. PICK v \in Versions : \E o \in remove_app(dirs[App.name], v) : OnDirs(App.name, o)
      BY <2>2, <3>1 DEF StartInstalledApps, StopRunning, RunNew, RemovePrevious, RollbackStop,
                        RollbackRemove, RemoveBundle, OnContainer, disk
    <3> QED BY <1>1, <3>1, <3>2, RemoveStillReads
  <2> QED BY <2>1, <2>2
<1>5. ReadInv' /\ UsedInv'
  BY <1>1, <1>3, <1>4, ReadKept
<1>6. result' \notin {"restored", "cleaned"}
  <2>1. result = "none"
    BY <1>2, Running
  <2> QED BY <2>1 DEF StartInstalledApps, StopRunning, RunNew, RemovePrevious, RollbackStop,
                      RollbackRemove, RemoveBundle, Continue, Goto, Finish, Raise
<1> QED BY <1>3, <1>5, <1>6, NoRestoration DEF JInv

LEMMA StepJInv == ASSUME IInv, IInv', JInv, [Next]_vars PROVE JInv'
<1>0. UseInv'
  BY UseStep DEF JInv
<1>1. ASSUME NEW pkg \in Packages, Unpack(pkg) PROVE JInv'
  <2>1. /\ UNCHANGED <<dirs, container>> /\ before' = dirs /\ installed' = <<>>
        /\ result' \notin {"restored", "cleaned"}
    BY <1>1 DEF Unpack
  <2>2. Places' = {}
    BY <2>1 DEF Places
  <2>3. ReadInv' /\ UsedInv'
    BY <2>1, <2>2 DEF ReadInv, UsedInv
  <2> QED BY <1>0, <2>1, <2>3, NoRestoration DEF JInv
<1>2. CASE Manager
  BY <1>2, InstallReads, CleanUpReads, RollbackRunReads, OtherReads DEF Manager
<1>3. ASSUME pc' = "idle", result' \notin {"restored", "cleaned"} PROVE JInv'
  BY <1>0, <1>3, NoRestoration DEF JInv, ReadInv, UsedInv
<1>4. CASE Crash
  BY <1>3, <1>4 DEF Crash
<1>5. ASSUME NEW a \in Apps, RunAll(a) PROVE JInv'
  <2>1. pc = "idle" /\ pc' = pc /\ result = "none" /\ result' = result
    BY <1>5 DEF IInv, ControlInv, RunAll, control
  <2> QED BY <1>3, <2>1
<1>6. ASSUME NEW a \in Apps, Operator(a) PROVE JInv'
  BY <1>3, <1>6 DEF Operator
<1>7. ASSUME UNCHANGED <<pc, result, dirs, before, installed>>,
             \A b \in Apps : container'[b].version = container[b].version
      PROVE  JInv'
  <2>1. Places' = Places /\ \A b \in Apps : Then(b)' = Then(b)
    BY <1>7 DEF Places, Then
  <2>2. ReadInv'
    BY <1>7, <2>1 DEF JInv, ReadInv
  <2>3. UsedInv'
    BY <1>7 DEF JInv, UsedInv, Origin, Places, Then
  <2>4. \A r \in Range(installed) : r.name \in Apps
    BY RangePlaces, PlaceType DEF IInv
  <2>5. \A b : AsBefore(b)' = AsBefore(b)
    BY <1>7 DEF AsBefore, BundlesOf, Readable
  <2>6. CleanUpRestores'
    BY <1>7, <2>5 DEF JInv, CleanUpRestores
  <2>7. RollbackRestores'
    BY <1>7, <2>4, <2>5 DEF JInv, RollbackRestores, BundlesOf
  <2> QED BY <1>0, <2>2, <2>3, <2>6, <2>7 DEF JInv
<1>8. ASSUME NEW a \in Apps, AppExits(a) PROVE JInv'
  <2>1. /\ container' = [container EXCEPT ![a] = Stopped(container[a])]
        /\ UNCHANGED <<pc, result, dirs, before, installed>>
    BY <1>8 DEF AppExits, control, disk
  <2>2. Stopped(container[a]).version = container[a].version /\ DOMAIN container = Apps
    BY StoppedSound, DirsType DEF IInv, ContainerInv
  <2>3. \A b \in Apps : container'[b].version = container[b].version
    BY <2>1, <2>2
  <2> QED BY <1>7, <2>1, <2>3
<1>9. CASE UNCHANGED vars
  BY <1>7, <1>9 DEF vars
<1> QED BY <1>1, <1>2, <1>4, <1>5, <1>6, <1>8, <1>9 DEF Next

LEMMA InitJInv == ASSUME Init PROVE JInv
<1>0. pc = "idle" /\ result = "none" /\ 0 \in Versions
  BY AppManagerAssumption DEF Init, Versions
<1>1. UseInv
  <2>1. PICK have \in SUBSET Apps :
          /\ dirs = [a \in Apps |-> [v \in Versions |->
                       IF a \in have /\ v = 0 THEN "release" ELSE "absent"]]
          /\ container = [a \in Apps |-> IF a \in have
                            THEN [state |-> "running", version |-> 0] ELSE NoContainer]
    BY DEF Init
  <2>2. ASSUME NEW a \in Apps, container[a].version # NoVersion PROVE container[a].version \in Now(a)
    <3>1. a \in have /\ container[a].version = 0
      BY <2>1, <2>2 DEF NoContainer
    <3>2. dirs[a][0] = "release"
      BY <1>0, <2>1, <3>1
    <3> QED BY <1>0, <3>1, <3>2 DEF Now, OciBundles, Bundles
  <2> QED BY <1>0, <2>2 DEF UseInv
<1> QED BY <1>0, <1>1 DEF JInv, ReadInv, UsedInv, RollbackRestores, CleanUpRestores

\* The second invariant holds in every state.
LEMMA Invariance2 == Spec => []JInv
<1>1. Init => JInv
  BY InitJInv
<1>2. IInv /\ IInv' /\ JInv /\ [Next]_vars => JInv'
  BY StepJInv
<1> QED BY <1>1, <1>2, Invariance, PTL DEF Spec

----------------------------------------------------------------------------
(* The steps of the update as steps of AppVersions.                        *)

\* The bundle that a boot runs.
LEMMA LowestProp ==
  ASSUME NEW ds \in VersionDirs
  PROVE  LET bs == OciBundles(ds)  b == Lowest(ds)
         IN  /\ bs \in SUBSET Versions
             /\ bs = {} <=> b = Booting!Nothing
             /\ bs # {} => /\ b \in Booting!Bundle
                           /\ b.version \in bs /\ b.kind = ds[b.version]
                           /\ \A w \in bs : b.version <= w
<1> DEFINE bs == OciBundles(ds)
<1>1. bs \in SUBSET Versions /\ \A w \in bs : ds[w] \in Bundles
  BY DEF OciBundles
<1>2. CASE bs = {}
  BY <1>1, <1>2 DEF Lowest, Booting!Nothing
<1>3. CASE bs # {}
  <2> DEFINE m == Min(bs)
  <2>1. m \in bs /\ \A w \in bs : m <= w
    BY <1>1, <1>3, MinProp
  <2>2. Lowest(ds) = [version |-> m, kind |-> ds[m]]
    BY <1>3 DEF Lowest
  <2> HIDE DEF m
  <2>3. ds[m] \in {"incomplete", "release"} /\ m \in Versions
    BY <1>1, <2>1 DEF Bundles
  <2>4. Lowest(ds) \in Booting!Bundle
    BY <2>2, <2>3 DEF Booting!Bundle
  <2>5. Lowest(ds).version = m /\ Lowest(ds).kind = ds[m]
    BY <2>2
  <2>6. Lowest(ds) # Booting!Nothing
    BY <2>3, <2>5 DEF Booting!Nothing
  <2> QED BY <1>1, <1>3, <2>1, <2>4, <2>5, <2>6
<1> QED BY <1>2, <1>3

\* Two lists of directories with the same lowest bundle.
LEMMA SameLowest ==
  ASSUME NEW ds \in VersionDirs, NEW es \in VersionDirs, NEW v \in Versions,
         v \in OciBundles(ds), \A w \in OciBundles(ds) : v <= w,
         \A w \in OciBundles(es) : v <= w, es[v] = ds[v]
  PROVE  Lowest(es) = Lowest(ds)
<1> DEFINE bs == OciBundles(ds)  cs == OciBundles(es)
<1>1. bs \in SUBSET Versions /\ cs \in SUBSET Versions
  BY DEF OciBundles
<1>2. v \in cs
  BY DEF OciBundles
<1>3. Min(bs) = v /\ Min(cs) = v
  BY <1>1, <1>2, MinUnique
<1>4. bs # {} /\ cs # {}
  BY <1>2
<1> QED BY <1>3, <1>4 DEF Lowest

\* run-all and the operator's run command keep the bundle that boots.
LEMMA BootKeepsLowest ==
  ASSUME NEW a \in Apps, dirs[a] \in VersionDirs, Sound(container[a]),
         NEW o \in run_app_from_parent_dir(a)
  PROVE  Lowest(o.dirs) = Lowest(dirs[a])
<1> DEFINE bs == Now(a)  cs == OciBundles(o.dirs)
<1>1. /\ o.dirs \in VersionDirs /\ cs \subseteq bs
      /\ bs # {} => o.dirs[Min(bs)] = dirs[a][Min(bs)]
  BY BootProp
<1>2. bs = OciBundles(dirs[a]) /\ bs \in SUBSET Versions
  BY VersionType DEF Now
<1>3. CASE bs = {}
  <2>1. cs = {}
    BY <1>1, <1>3
  <2> QED BY <1>2, <1>3, <2>1 DEF Lowest
<1>4. CASE bs # {}
  <2>1. Min(bs) \in bs /\ \A w \in bs : Min(bs) <= w
    BY <1>2, <1>4, MinProp
  <2> HIDE DEF bs, cs
  <2>2. PICK v \in Versions : v = Min(bs)
    BY <1>2, <2>1
  <2>3. v \in bs /\ (\A w \in bs : v <= w) /\ (\A w \in cs : v <= w) /\ o.dirs[v] = dirs[a][v]
    BY <1>1, <1>4, <2>1, <2>2
  <2> QED BY <1>1, <1>2, <2>3, SameLowest DEF cs
<1> QED BY <1>3, <1>4

\* A removal that leaves a bundle makes a later one boot, or leaves part of the one
\* that boots.
LEMMA RemovalMovesForward ==
  ASSUME NEW ds \in VersionDirs, NEW es \in VersionDirs, NEW v \in Versions, OneDir(ds, es, v),
         es[v] \in Bundles => ds[v] \in Bundles /\ es[v] \in {ds[v], "incomplete"},
         OciBundles(es) # {}
  PROVE  \/ Lowest(es) = Lowest(ds)
         \/ /\ Lowest(ds) # Booting!Nothing /\ Lowest(es) \in Booting!Bundle
            /\ \/ Lowest(es).version > Lowest(ds).version
               \/ Lowest(es).version = Lowest(ds).version /\ Lowest(es).kind = "incomplete"
<1> DEFINE bs == OciBundles(ds)  cs == OciBundles(es)
           b == Lowest(ds)  c == Lowest(es)
<1>1. cs \subseteq bs
  BY DEF OciBundles, OneDir
<1>2. bs # {} /\ cs # {}
  BY <1>1
<1>3. /\ bs \in SUBSET Versions /\ b # Booting!Nothing
      /\ b.version \in bs /\ b.kind = ds[b.version] /\ \A w \in bs : b.version <= w
  BY <1>2, LowestProp
<1>4. /\ c \in Booting!Bundle
      /\ c.version \in cs /\ c.kind = es[c.version] /\ \A w \in cs : c.version <= w
  BY <1>2, LowestProp
<1>5. cs \subseteq Versions /\ es[c.version] \in Bundles
  BY <1>4 DEF OciBundles
<1> HIDE DEF b, c, bs, cs
<1>6. b.version \in Nat /\ c.version \in Nat /\ b.version <= c.version
  BY <1>1, <1>3, <1>4, VersionType
<1>7. CASE c.version = b.version
  <2>1. CASE c.kind = "incomplete"
    BY <1>3, <1>4, <1>7, <2>1 DEF b, c
  <2>2. CASE c.kind # "incomplete"
    <3>1. es[c.version] = ds[c.version]
      <4>1. CASE c.version = v
        BY <1>4, <1>5, <2>2, <4>1
      <4>2. CASE c.version # v
        BY <1>4, <1>5, <4>2 DEF OneDir
      <4> QED BY <4>1, <4>2
    <3>2. PICK m \in Versions : m = b.version
      BY <1>3
    <3>3. /\ m \in bs /\ (\A w \in bs : m <= w) /\ (\A w \in cs : m <= w) /\ es[m] = ds[m]
      BY <1>1, <1>3, <1>7, <3>1, <3>2
    <3> QED BY <3>3, SameLowest DEF bs, cs
  <2> QED BY <2>1, <2>2
<1>8. CASE c.version > b.version
  BY <1>3, <1>4, <1>8 DEF b, c
<1> QED BY <1>6, <1>7, <1>8

\* Before previous versions are removed, the manager goes on, goes to another phase
\* or ends, and only the phase "remove" is for good.
Uncommitted == pc' \in (Phases \cup {"idle"}) \ {"remove"} /\ ~committing'

LEMMA StaysUncommitted ==
  ASSUME ~committing, pc \in Phases \ {"remove"}
  PROVE  /\ \A p \in Phases \ {"remove"} : Goto(p) => Uncommitted
         /\ \A r : Finish(r) => Uncommitted
         /\ UNCHANGED <<pc, committing>> => Uncommitted
<1>1. ASSUME NEW p \in Phases \ {"remove"}, Goto(p) PROVE Uncommitted
  <2>1. pc' = p /\ p # "remove" /\ p \in Phases
    BY <1>1 DEF Goto
  <2>2. ~committing'
    BY <1>1, <2>1, Zenon DEF Goto
  <2> QED BY <2>1, <2>2 DEF Uncommitted
<1>2. ASSUME NEW r, Finish(r) PROVE Uncommitted
  BY <1>2 DEF Finish, Uncommitted, Phases
<1>3. ASSUME UNCHANGED <<pc, committing>> PROVE Uncommitted
  BY <1>3 DEF Uncommitted
<1> QED BY <1>1, <1>2, <1>3

\* The manager's steps before it removes previous versions.
LEMMA TryingStep ==
  ASSUME IInv, Manager, ~RemovePrevious
  PROVE  /\ before' = before /\ pc \in Phases \ {"remove"}
         /\ (pc' = "remove" /\ dirs' = dirs) \/ Uncommitted
<1>0. pc \in Phases \ {"remove"} => ~committing
  BY Running
<1>1. {"run", "stop", "cleanup", "rbstop", "rbremove", "rbrun"} \subseteq Phases \ {"remove"}
  BY DEF Phases
<1> USE DEF Raise, Continue
<1>2. CASE InstallApp
  <2>1. before' = before /\ pc = "install" /\ pc \in Phases \ {"remove"}
    BY <1>2 DEF InstallApp, Phases
  <2>2. \/ Goto("cleanup") \/ Finish("cleaned") \/ Finish("error")
        \/ UNCHANGED <<pc, committing>>
    BY <1>2 DEF InstallApp, InstallFailed, control
  <2> QED BY <1>0, <1>1, <2>1, <2>2, StaysUncommitted
<1>3. CASE StartInstalledApps
  <2>1. before' = before /\ pc = "install" /\ pc \in Phases \ {"remove"} /\ Goto("stop")
    BY <1>3 DEF StartInstalledApps, disk, Phases
  <2> QED BY <1>0, <1>1, <2>1, StaysUncommitted
<1>4. CASE StopRunning
  <2>1. before' = before /\ pc = "stop" /\ pc \in Phases \ {"remove"}
    BY <1>4 DEF StopRunning, Phases
  <2>2. Goto("run") \/ Goto("rbstop") \/ Finish("error") \/ UNCHANGED <<pc, committing>>
    BY <1>4 DEF StopRunning
  <2> QED BY <1>0, <1>1, <2>1, <2>2, StaysUncommitted
<1>5. CASE RunNew
  <2>1. before' = before /\ dirs' = dirs /\ pc = "run" /\ pc \in Phases \ {"remove"}
    BY <1>5 DEF RunNew, OnContainer, Phases
  <2>2. Goto("remove") \/ Goto("rbstop") \/ Finish("error") \/ UNCHANGED <<pc, committing>>
    BY <1>5 DEF RunNew
  <2>3. Goto("remove") => pc' = "remove"
    BY DEF Goto
  <2> QED BY <1>0, <1>1, <2>1, <2>2, <2>3, StaysUncommitted
<1>6. CASE CleanUp
  <2>1. before' = before /\ pc = "cleanup" /\ pc \in Phases \ {"remove"}
    BY <1>6 DEF CleanUp, Phases
  <2>2. Finish("cleaned") \/ Finish("error") \/ UNCHANGED <<pc, committing>>
    BY <1>6 DEF CleanUp, RemoveBundle
  <2> QED BY <1>0, <2>1, <2>2, StaysUncommitted
<1>7. CASE RollbackStop
  <2>1. before' = before /\ pc = "rbstop" /\ pc \in Phases \ {"remove"}
    BY <1>7 DEF RollbackStop, Phases
  <2>2. Goto("rbremove") \/ Finish("error") \/ UNCHANGED <<pc, committing>>
    BY <1>7 DEF RollbackStop
  <2> QED BY <1>0, <1>1, <2>1, <2>2, StaysUncommitted
<1>8. CASE RollbackRemove
  <2>1. before' = before /\ pc = "rbremove" /\ pc \in Phases \ {"remove"}
    BY <1>8 DEF RollbackRemove, Phases
  <2>2. Goto("rbrun") \/ Finish("error") \/ UNCHANGED <<pc, committing>>
    BY <1>8 DEF RollbackRemove, RemoveBundle
  <2> QED BY <1>0, <1>1, <2>1, <2>2, StaysUncommitted
<1>9. CASE RollbackRun
  <2>1. before' = before /\ pc = "rbrun" /\ pc \in Phases \ {"remove"}
    BY <1>9 DEF RollbackRun, Phases
  <2>2. Finish("restored") \/ Finish("error") \/ UNCHANGED <<pc, committing>>
    BY <1>9 DEF RollbackRun
  <2> QED BY <1>0, <2>1, <2>2, StaysUncommitted
<1> QED BY <1>2, <1>3, <1>4, <1>5, <1>6, <1>7, <1>8, <1>9 DEF Manager

\* Where BootInv holds, the bundle that boots is that from before the update.
LEMMA KeptLowest ==
  ASSUME NEW ds \in VersionDirs, NEW es \in VersionDirs, OciBundles(es) # {},
         LET v == Min(OciBundles(es))
         IN  /\ v \in OciBundles(ds) /\ ds[v] = es[v]
             /\ \A w \in OciBundles(ds) : v <= w
  PROVE  Lowest(ds) = Lowest(es)
<1> DEFINE bs == OciBundles(es)
<1>1. bs \in SUBSET Versions
  BY DEF OciBundles
<1>2. Min(bs) \in bs /\ \A w \in bs : Min(bs) <= w
  BY <1>1, MinProp
<1>3. PICK v \in Versions : v = Min(bs)
  BY <1>1, <1>2
<1>4. /\ v \in bs /\ (\A w \in bs : v <= w) /\ ds[v] = es[v]
      /\ \A w \in OciBundles(ds) : v <= w
  BY <1>2, <1>3
<1> QED BY <1>4, SameLowest

LEMMA TryingBoots ==
  ASSUME IInv, IInv', Manager, ~RemovePrevious
  PROVE  Booting!Next
<1>1. /\ before' = before /\ pc \in Phases \ {"remove"} /\ ~committing
      /\ \/ pc' = "remove" /\ dirs' = dirs
         \/ pc' # "remove" /\ ~committing'
  BY TryingStep, Running DEF Uncommitted
<1>2. /\ dirs \in [Apps -> VersionDirs] /\ before \in [Apps -> VersionDirs]
      /\ dirs' \in [Apps -> VersionDirs]
  BY DirsType DEF IInv, TypeOK, VersionDirs
<1>3. pc # "idle" /\ pc # "remove"
  BY <1>1 DEF Phases
<1>4. CASE pc' = "remove" /\ dirs' = dirs
  <2>1. Booting!Commit
    BY <1>1, <1>3, <1>4 DEF Booting!Commit, BundlesOf, Readable
  <2> QED BY <2>1 DEF Booting!Next
<1>5. CASE pc' # "remove" /\ ~committing'
  <2>1. ASSUME NEW a \in Apps, BundlesOf(before, a) # {}
        PROVE  Lowest(dirs'[a]) = Lowest(dirs[a])
    <3>1. Then(a) # {} /\ Then(a) = OciBundles(before[a]) /\ Then(a)' = Then(a)
      BY <1>1, <2>1 DEF BundlesOf, Then
    <3>2. LowestKept(a) /\ LowestKept(a)'
      BY <1>1, <1>5, <3>1 DEF IInv, BootInv
    <3>3. Lowest(dirs[a]) = Lowest(before[a])
      BY <1>2, <3>1, <3>2, KeptLowest DEF LowestKept, Now
    <3>4. Lowest(dirs'[a]) = Lowest(before[a])
      <4> DEFINE v == Min(Then(a))
      <4>1. /\ v \in OciBundles(dirs'[a]) /\ dirs'[a][v] = before[a][v]
            /\ \A w \in OciBundles(dirs'[a]) : v <= w
        BY <1>1, <3>1, <3>2 DEF LowestKept, Now
      <4> QED BY <1>2, <3>1, <4>1, KeptLowest
    <3> QED BY <3>3, <3>4
  <2>2. [a \in Apps |-> Lowest(dirs'[a])] \in [Apps -> Booting!Bundle \cup {Booting!Nothing}]
    BY <1>2, LowestProp
  <2>3. {a \in Apps : ~Readable(dirs'[a])} \in SUBSET Apps
    OBVIOUS
  <2>4. {a \in Apps : ~Readable(dirs[a])}' = {a \in Apps : ~Readable(dirs'[a])}
    BY DEF Readable
  <2>5. Booting!Try
    BY <1>1, <1>3, <1>5, <2>1, <2>2, <2>3, <2>4 DEF Booting!Try, BundlesOf
  <2> QED BY <2>5 DEF Booting!Next
<1> QED BY <1>1, <1>4, <1>5

\* A previous version that is removed is not what keeps its application from booting.
LEMMA ReplacingReads ==
  ASSUME IInv, JInv, RemovePrevious
  PROVE  \A a \in Apps : Readable(dirs'[a]) <=> Readable(dirs[a])
<1>0. /\ pc = "remove" /\ pc \in Phases \ {"install"} /\ pc # "idle" /\ installed' = installed
      /\ i \in Places /\ App.name \in Apps /\ App.cur \in Versions \cup {NoVersion}
      /\ ReadInv /\ UsedInv
  BY AppType, Running DEF RemovePrevious, Phases, JInv
<1>1. CASE dirs' = dirs
  BY <1>1
<1>2. CASE dirs' # dirs
  <2>1. /\ App.cur # NoVersion /\ App.cur \in Versions
        /\ \E o \in remove_app(dirs[App.name], App.cur) : OnDirs(App.name, o)
    BY <1>0, <1>2 DEF RemovePrevious, RemoveBundle
  <2>2. PICK o \in remove_app(dirs[App.name], App.cur) : OnDirs(App.name, o)
    BY <2>1
  <2>3. StillRead /\ OnlyDir(App.name, App.cur)
    BY <1>0, <2>1, <2>2, RemoveStillReads, RemoveDirs
  <2>4. ASSUME NEW k \in Places, installed[k].name = App.name, installed[k].new = App.cur
        PROVE  dirs[App.name][App.cur] # "unreadable"
    <3>1. New(k) \in Bundles
      BY <1>0 DEF IInv, LoopInv
    <3> QED BY <2>4, <3>1 DEF New, Bundles
  <2>5. dirs[App.name][App.cur] # "unreadable"
    <3>1. Origin(App, App.cur)
      BY <1>0, <2>1 DEF UsedInv, App
    <3>2. CASE App.cur \in Then(App.name)
      <4>1. before[App.name][App.cur] # "unreadable"
        BY <3>2 DEF Then, OciBundles, Bundles
      <4> QED BY <1>0, <2>1, <2>4, <4>1 DEF ReadInv
    <3> QED BY <2>4, <3>1, <3>2 DEF Origin
  <2>6. ASSUME NEW a \in Apps, NEW v \in Versions
        PROVE  dirs'[a][v] = "unreadable" <=> dirs[a][v] = "unreadable"
    <3>1. CASE a = App.name /\ v = App.cur
      BY <2>3, <2>5, <3>1 DEF StillRead
    <3>2. CASE a # App.name \/ v # App.cur
      BY <2>3, <3>2 DEF OnlyDir
    <3> QED BY <3>1, <3>2
  <2> QED BY <2>6 DEF Readable
<1> QED BY <1>1, <1>2

\* A removal of a previous version: the new one of the application is a bundle.
LEMMA ReplacingBoots ==
  ASSUME IInv, IInv', JInv, RemovePrevious
  PROVE  Booting!Next \/ UNCHANGED Booting!vars
<1>0. /\ pc = "remove" /\ pc \in Phases \ {"install"} /\ before' = before /\ installed' = installed
      /\ i \in Places /\ App.name \in Apps /\ App.new \in Versions
      /\ App.cur \in Versions \cup {NoVersion}
  BY AppType, Running DEF RemovePrevious, Phases
<1>1. pc' \in {"remove", "idle"}
  BY <1>0 DEF RemovePrevious, RemoveBundle, Continue, Raise, Finish
<1>2. dirs \in [Apps -> VersionDirs] /\ dirs' \in [Apps -> VersionDirs]
  BY DEF IInv, TypeOK, VersionDirs
<1> DEFINE blocked == {a \in Apps : ~Readable(dirs[a])}
<1>9. blocked' = blocked
  BY <1>0, ReplacingReads DEF Readable
<1>3. CASE \A a \in Apps : Lowest(dirs'[a]) = Lowest(dirs[a])
  <2>1. [a \in Apps |-> Lowest(dirs'[a])] = [a \in Apps |-> Lowest(dirs[a])]
    BY <1>3
  <2>2. CASE pc' = "remove"
    BY <1>0, <1>9, <2>1, <2>2 DEF Booting!vars, BundlesOf
  <2>3. CASE pc' = "idle"
    <3>1. Booting!Stop
      BY <1>0, <1>9, <2>1, <2>3 DEF Booting!Stop, BundlesOf
    <3> QED BY <3>1 DEF Booting!Next
  <2> QED BY <1>1, <2>2, <2>3
<1>4. CASE ~\A a \in Apps : Lowest(dirs'[a]) = Lowest(dirs[a])
  <2> DEFINE a == App.name
  <2>1. dirs' # dirs
    BY <1>4
  <2>2. PICK o \in remove_app(dirs[a], App.cur) :
          App.cur # NoVersion /\ dirs' = [dirs EXCEPT ![a] = o.dirs]
    BY <2>1 DEF RemovePrevious, RemoveBundle, OnDirs
  <2>3. App.cur \in Versions /\ App.cur < App.new
    <3>1. RecordSound(installed[i])
      BY <1>0 DEF IInv, RecordInv
    <3> QED BY <1>0, <2>2, <3>1 DEF RecordSound, App
  <2>4. dirs[a][App.new] \in Bundles
    <3>1. New(i) \in Bundles
      BY <1>0 DEF IInv, LoopInv
    <3> QED BY <3>1 DEF New, App
  <2>5. a \in Apps /\ App.new \in Versions
    BY <1>0
  <2> HIDE DEF a
  <2>6. PICK v \in Versions : v = App.cur
    BY <2>3
  <2>7. /\ OneDir(dirs[a], o.dirs, v)
        /\ o.dirs[v] \in Bundles => dirs[a][v] \in Bundles /\ o.dirs[v] \in {dirs[a][v], "incomplete"}
    <3>1. dirs[a] \in VersionDirs /\ o \in remove_app(dirs[a], v)
      BY <1>2, <2>2, <2>5, <2>6
    <3> QED BY <3>1, RemoveProp
  <2>8. o.dirs \in VersionDirs /\ dirs'[a] = o.dirs /\ \A b \in Apps \ {a} : dirs'[b] = dirs[b]
    BY <1>2, <2>2, <2>5, <2>7 DEF OneDir
  <2>9. OciBundles(o.dirs) # {}
    <3>1. App.new # v
      BY <2>3, <2>5, <2>6, VersionType
    <3>2. o.dirs[App.new] = dirs[a][App.new]
      BY <2>5, <2>7, <3>1 DEF OneDir
    <3> QED BY <2>4, <2>5, <3>2 DEF OciBundles
  <2>10. \/ Lowest(o.dirs) = Lowest(dirs[a])
         \/ /\ Lowest(dirs[a]) # Booting!Nothing /\ Lowest(o.dirs) \in Booting!Bundle
            /\ \/ Lowest(o.dirs).version > Lowest(dirs[a]).version
               \/ /\ Lowest(o.dirs).version = Lowest(dirs[a]).version
                  /\ Lowest(o.dirs).kind = "incomplete"
    <3>1. dirs[a] \in VersionDirs
      BY <1>2, <2>5
    <3> QED BY <2>7, <2>8, <2>9, <3>1, RemovalMovesForward
  <2>11. Lowest(o.dirs) # Lowest(dirs[a])
    BY <1>4, <2>8
  <2>12. [b \in Apps |-> Lowest(dirs'[b])]
           = [[b \in Apps |-> Lowest(dirs[b])] EXCEPT ![a] = Lowest(o.dirs)]
    BY <2>5, <2>8
  <2>13. Booting!Replace(a)
    BY <1>0, <1>1, <1>9, <2>5, <2>10, <2>11, <2>12 DEF Booting!Replace, BundlesOf
  <2> QED BY <2>5, <2>13 DEF Booting!Next
<1> QED BY <1>3, <1>4

\* A step that changes neither what boots nor the phase.
LEMMA BootsUnchanged ==
  ASSUME UNCHANGED <<pc, before>>, \A a \in Apps : Lowest(dirs'[a]) = Lowest(dirs[a]),
         \A a \in Apps : Readable(dirs'[a]) <=> Readable(dirs[a])
  PROVE  UNCHANGED Booting!vars
<1> DEFINE blocked == {a \in Apps : ~Readable(dirs[a])}
<1>1. [a \in Apps |-> Lowest(dirs'[a])] = [a \in Apps |-> Lowest(dirs[a])]
  OBVIOUS
<1>2. blocked' = blocked
  BY DEF Readable
<1> QED BY <1>1, <1>2 DEF Booting!vars, BundlesOf

\* run-all and the operator, between updates.
LEMMA RestBoots ==
  ASSUME IInv, NEW a \in Apps, RunAll(a) \/ Operator(a) \/ AppExits(a)
  PROVE  UNCHANGED Booting!vars
<1>1. UNCHANGED <<pc, before>>
  BY DEF RunAll, Operator, AppExits, control, disk
<1>2. CASE dirs' = dirs
  BY <1>1, <1>2, BootsUnchanged
<1>3. CASE dirs' # dirs
  <2>1. PICK o \in run_app_from_parent_dir(a) : dirs' = [dirs EXCEPT ![a] = o.dirs]
    BY <1>3 DEF RunAll, Operator, AppExits, OnContainer, disk
  <2>2. dirs \in [Apps -> VersionDirs] /\ Sound(container[a])
    BY DirsType DEF IInv, ContainerInv
  <2>3. Lowest(o.dirs) = Lowest(dirs[a])
    BY <2>2, BootKeepsLowest
  <2>4. \A w \in Versions : o.dirs[w] = "unreadable" <=> dirs[a][w] = "unreadable"
    BY <2>2, BootProp
  <2>5. \A b \in Apps : /\ Lowest(dirs'[b]) = Lowest(dirs[b])
                        /\ Readable(dirs'[b]) <=> Readable(dirs[b])
    BY <2>1, <2>2, <2>3, <2>4 DEF Readable
  <2> QED BY <1>1, <2>5, BootsUnchanged
<1> QED BY <1>2, <1>3

\* Each step is a step of AppVersions or leaves its variables alone.
LEMMA BootingStep == IInv /\ IInv' /\ JInv /\ [Next]_vars => [Booting!Next]_(Booting!vars)
<1> SUFFICES ASSUME IInv, IInv', JInv, [Next]_vars PROVE Booting!Next \/ UNCHANGED Booting!vars
  OBVIOUS
<1>1. ASSUME NEW pkg \in Packages, Unpack(pkg) PROVE Booting!Next
  <2>1. dirs \in [Apps -> VersionDirs]
    BY DirsType DEF IInv
  <2>2. pc = "idle" /\ pc' \in {"idle", "install"} /\ dirs' = dirs /\ before' = dirs
    BY <1>1 DEF Unpack
  <2>3. {a \in Apps : BundlesOf(before', a) = {}}
          = {a \in Apps : [b \in Apps |-> Lowest(dirs[b])][a] = Booting!Nothing}
    BY <2>1, <2>2, LowestProp DEF BundlesOf
  <2>4. Booting!Begin
    BY <2>2, <2>3 DEF Booting!Begin, Booting!Missing, Readable
  <2> QED BY <2>4 DEF Booting!Next
<1>2. CASE Manager
  BY <1>2, TryingBoots, ReplacingBoots
<1>3. CASE Crash
  <2>1. pc' = "idle" /\ UNCHANGED <<dirs, before>>
    BY <1>3 DEF Crash, disk
  <2>2. Booting!Stop
    BY <2>1 DEF Booting!Stop, BundlesOf, Readable
  <2> QED BY <2>2 DEF Booting!Next
<1>4. CASE UNCHANGED vars
  BY <1>4, BootsUnchanged DEF vars
<1> QED BY <1>1, <1>2, <1>3, <1>4, RestBoots DEF Next

----------------------------------------------------------------------------
(* The theorems.                                                           *)

\* The variables keep their types; in particular no version number is beyond
\* MaxVersion, and the index of a loop is one of _installed_apps.
THEOREM TypeCorrect == Spec => []TypeOK
<1>1. IInv => TypeOK
  BY DEF IInv
<1> QED BY <1>1, Invariance, PTL

\* Exit code 0 means that every application of the package has its new release
\* installed, in use and without a predecessor, if each had at most one version.
THEOREM SuccessSound == Spec => []SuccessInstalls
<1>1. IInv => SuccessInstalls
  BY DEF IInv
<1> QED BY <1>1, Invariance, PTL

\* A rollback without an exception leaves every application with the versions it had,
\* config.json files that can still be read, and a container of the lowest version,
\* which is the one that was in use if one was and there was no other, also when a
\* package holds an application twice.
THEOREM RollbackSound == Spec => []RollbackRestores
<1>1. JInv => RollbackRestores
  BY DEF JInv
<1> QED BY <1>1, Invariance2, PTL

\* A failed installation that was cleaned up leaves the versions that were there.
THEOREM CleanUpSound == Spec => []CleanUpRestores
<1>1. JInv => CleanUpRestores
  BY DEF JInv
<1> QED BY <1>1, Invariance2, PTL

\* Until previous versions are removed, a power cut leaves the version that run-all
\* would have started before the update intact, and as the one that it starts where
\* every config.json of the application can be read.
THEOREM PowerCutSafe == Spec => []BootVersionKept
<1>1. IInv => BootVersionKept
  <2> SUFFICES ASSUME IInv, ~committing, NEW a \in Apps, BundlesOf(before, a) # {}
               PROVE  LET v == Min(BundlesOf(before, a))
                      IN  /\ dirs[a][v] = before[a][v]
                          /\ \A bundles \in get_oci_bundle_paths(dirs[a]) : v = Min(bundles)
    BY DEF BootVersionKept
  <2> DEFINE v == Min(Then(a))
  <2>1. /\ BundlesOf(before, a) = Then(a)
        /\ \A bundles \in get_oci_bundle_paths(dirs[a]) : bundles = Now(a)
    BY DEF BundlesOf, Then, Now, get_oci_bundle_paths
  <2>2. v \in Now(a) /\ dirs[a][v] = before[a][v] /\ \A w \in Now(a) : v <= w
    BY <2>1 DEF IInv, BootInv, LowestKept
  <2>3. Now(a) \in SUBSET Versions
    BY VersionType DEF Now
  <2>4. Min(Now(a)) = v
    BY <2>2, <2>3, MinUnique
  <2> QED BY <2>1, <2>2, <2>4
<1> QED BY <1>1, Invariance, PTL

\* While previous versions are removed, every container of the package was created
\* from the new version.
THEOREM RemovalSafe == Spec => []RemovesIdleOnly
<1>1. IInv => RemovesIdleOnly
  <2> SUFFICES ASSUME IInv, pc = "remove", NEW r \in Range(installed)
               PROVE  container[r.name].version = r.new
    BY DEF RemovesIdleOnly
  <2>1. PICK k \in Places : r = installed[k]
    BY RangePlaces DEF IInv
  <2>2. ContainerOf(k).version = installed[k].new
    BY DEF IInv, LoopInv
  <2> QED BY <2>1, <2>2 DEF ContainerOf
<1> QED BY <1>1, Invariance, PTL

\* What boots changes in the phase that removes previous versions only, each time to
\* a later version and never to none, wherever errors and power cuts end the update,
\* and only an installation makes run-all pass over an application, by a config.json
\* that cannot be read: the update with its rollback, run-all and the operator
\* implement AppVersions.
THEOREM ImplementsVersions == Spec => BootsForward
<1>1. Init => Booting!Init
  <2> SUFFICES ASSUME Init PROVE Booting!Init
    OBVIOUS
  <2>1. PICK have \in SUBSET Apps :
          dirs = [a \in Apps |-> [v \in Versions |->
                    IF a \in have /\ v = 0 THEN "release" ELSE "absent"]]
    BY DEF Init
  <2>2. 0 \in Versions
    BY AppManagerAssumption DEF Versions
  <2>3. ASSUME NEW a \in Apps
        PROVE  /\ dirs[a] \in VersionDirs
               /\ Lowest(dirs[a]) \in {Booting!Nothing, [version |-> 0, kind |-> "release"]}
               /\ Readable(dirs[a])
    <3>1. dirs[a] = [v \in Versions |-> IF a \in have /\ v = 0 THEN "release" ELSE "absent"]
      BY <2>1
    <3>2. dirs[a] \in VersionDirs /\ Readable(dirs[a])
      BY <3>1 DEF VersionDirs, Kinds, Readable
    <3>3. CASE a \in have
      <4>1. OciBundles(dirs[a]) = {0} /\ dirs[a][0] = "release"
        BY <2>2, <3>1, <3>3 DEF OciBundles, Bundles
      <4>2. Min({0}) = 0
        BY <2>2, MinUnique
      <4> QED BY <3>2, <4>1, <4>2 DEF Lowest
    <3>4. CASE a \notin have
      <4>1. OciBundles(dirs[a]) = {}
        BY <3>1, <3>4 DEF OciBundles, Bundles
      <4> QED BY <3>2, <4>1, LowestProp
    <3> QED BY <3>3, <3>4
  <2>4. before = dirs /\ pc = "idle"
    BY DEF Init
  <2>5. {a \in Apps : BundlesOf(before, a) = {}}
          = {a \in Apps : [b \in Apps |-> Lowest(dirs[b])][a] = Booting!Nothing}
    BY <2>3, <2>4, LowestProp DEF BundlesOf
  <2> QED BY <2>3, <2>4, <2>5 DEF Booting!Init, Booting!Missing
<1> QED BY <1>1, BootingStep, Invariance, Invariance2, PTL DEF Spec, BootsForward, Booting!Spec

=============================================================================
