----------------------- MODULE FirmwareActivateProofs -----------------------
(***************************************************************************)
(* Proofs about the activation of a firmware update, for any packages, any *)
(* disk and any number of activations and power cuts.  What is said of the *)
(* bank that is written holds for any partition numbers; the rest for      *)
(* numbers by which str_endswith can tell the banks apart, a hypothesis of *)
(* the theorems (BanksDistinguished).                                      *)
(***************************************************************************)
EXTENDS FirmwareActivate, SequenceTheorems, TLAPS

----------------------------------------------------------------------------
(* Device paths.                                                           *)

\* What str_endswith compares, position by position.
LEMMA SuffixPositions ==
  ASSUME NEW S, NEW s \in Seq(S), NEW t \in Seq(S)
  PROVE  IsSuffix(s, t) <=> /\ Len(s) <= Len(t)
                            /\ \A n \in 1..Len(s) : s[n] = t[Len(t) - Len(s) + n]
<1> DEFINE rs == Reverse(s)  rt == Reverse(t)
<1>1. /\ rs \in Seq(S) /\ Len(rs) = Len(s)
      /\ \A n \in 1..Len(s) : rs[n] = s[Len(s) - n + 1]
  BY DEF Reverse
<1>2. /\ rt \in Seq(S) /\ Len(rt) = Len(t)
      /\ \A n \in 1..Len(t) : rt[n] = t[Len(t) - n + 1]
  BY DEF Reverse
<1> HIDE DEF rs, rt
<1>3. ASSUME Len(s) <= Len(t)
      PROVE  SubSeq(rs, 1, Len(rs)) = SubSeq(rt, 1, Len(rs))
               <=> \A n \in 1..Len(s) : rs[n] = rt[n]
  <2>1. SubSeq(rs, 1, Len(rs)) = rs
    BY <1>1, SubSeqFull
  <2>2. /\ SubSeq(rt, 1, Len(rs)) \in Seq(S)
        /\ Len(SubSeq(rt, 1, Len(rs))) = Len(s)
        /\ \A n \in 1..Len(s) : SubSeq(rt, 1, Len(rs))[n] = rt[n]
    BY <1>1, <1>2, <1>3
  <2>3. ASSUME \A n \in 1..Len(s) : rs[n] = rt[n] PROVE rs = SubSeq(rt, 1, Len(rs))
    BY <1>1, <2>2, <2>3, SeqEqual
  <2> QED BY <2>1, <2>2, <2>3
<1>4. ASSUME Len(s) <= Len(t)
      PROVE  (\A n \in 1..Len(s) : rs[n] = rt[n])
               <=> \A n \in 1..Len(s) : s[n] = t[Len(t) - Len(s) + n]
  <2>1. ASSUME \A n \in 1..Len(s) : rs[n] = rt[n], NEW n \in 1..Len(s)
        PROVE  s[n] = t[Len(t) - Len(s) + n]
    <3>1. Len(s) - n + 1 \in 1..Len(s)
      OBVIOUS
    <3>2. Len(s) - n + 1 \in 1..Len(t)
      BY <1>4
    <3>3. rs[Len(s) - n + 1] = s[n]
      <4>1. Len(s) - (Len(s) - n + 1) + 1 = n
        OBVIOUS
      <4> QED BY <1>1, <3>1, <4>1
    <3>4. rt[Len(s) - n + 1] = t[Len(t) - Len(s) + n]
      <4>1. Len(t) - (Len(s) - n + 1) + 1 = Len(t) - Len(s) + n
        OBVIOUS
      <4> QED BY <1>2, <3>2, <4>1
    <3> QED BY <2>1, <3>1, <3>3, <3>4
  <2>2. ASSUME \A n \in 1..Len(s) : s[n] = t[Len(t) - Len(s) + n], NEW n \in 1..Len(s)
        PROVE  rs[n] = rt[n]
    <3>1. Len(s) - n + 1 \in 1..Len(s)
      OBVIOUS
    <3>2. s[Len(s) - n + 1] = t[Len(t) - Len(s) + (Len(s) - n + 1)]
      BY <2>2, <3>1
    <3>3. Len(t) - Len(s) + (Len(s) - n + 1) = Len(t) - n + 1 /\ n \in 1..Len(t)
      BY <1>4
    <3> QED BY <1>1, <1>2, <3>2, <3>3
  <2> QED BY <2>1, <2>2
<1>5. IsSuffix(s, t) <=> Len(s) <= Len(t) /\ SubSeq(rs, 1, Len(rs)) = SubSeq(rt, 1, Len(rs))
  BY <1>1, <1>2 DEF IsSuffix, IsPrefix, rs, rt
<1> QED BY <1>3, <1>4, <1>5

\* The characters of a device path.
Chars == (STRING \ {"p"}) \cup {"p"} \cup Digits

LEMMA PathParts ==
  /\ Disk \in Seq(Chars) /\ Len(Disk) \in Nat
  /\ \A n \in 1..Len(Disk) : Disk[n] # "p"
  /\ \A b \in Banks : /\ PartNum[b] \in Seq(Chars) /\ Len(PartNum[b]) \in Nat
                       /\ \A n \in 1..Len(PartNum[b]) : PartNum[b][n] # "p"
<1>1. Disk \in Seq(STRING \ {"p"}) /\ \A b \in Banks : PartNum[b] \in Seq(Digits)
  BY ActivateAssumption
<1>2. Disk \in Seq(Chars) /\ \A b \in Banks : PartNum[b] \in Seq(Chars)
  BY <1>1 DEF Chars
<1>3. \A n \in 1..Len(Disk) : Disk[n] # "p"
  BY <1>1
<1>4. \A b \in Banks : \A n \in 1..Len(PartNum[b]) : PartNum[b][n] # "p"
  BY <1>1 DEF Digits
<1> QED BY <1>2, <1>3, <1>4

\* The path of a bank's device file: the disk, a p and the partition number.
LEMMA PathPositions ==
  ASSUME NEW b \in Banks
  PROVE  /\ device_filepath(b) \in Seq(Chars)
         /\ Len(device_filepath(b)) = Len(Disk) + 1 + Len(PartNum[b])
         /\ \A n \in 1..Len(Disk) : device_filepath(b)[n] = Disk[n]
         /\ device_filepath(b)[Len(Disk) + 1] = "p"
         /\ \A n \in 1..Len(PartNum[b]) :
              device_filepath(b)[Len(Disk) + 1 + n] = PartNum[b][n]
<1>1. Disk \in Seq(Chars) /\ PartNum[b] \in Seq(Chars) /\ <<"p">> \in Seq(Chars)
  <2>1. <<"p">> \in Seq(Chars)
    BY DEF Chars
  <2> QED BY <2>1, PathParts
<1> DEFINE front == Disk \o <<"p">>
<1>2. /\ front \in Seq(Chars) /\ Len(front) = Len(Disk) + 1
      /\ \A n \in 1..Len(Disk) : front[n] = Disk[n]
      /\ front[Len(Disk) + 1] = "p"
  BY <1>1
<1> HIDE DEF front
<1>3. /\ front \o PartNum[b] \in Seq(Chars)
      /\ Len(front \o PartNum[b]) = Len(Disk) + 1 + Len(PartNum[b])
      /\ \A n \in 1..Len(front) : (front \o PartNum[b])[n] = front[n]
      /\ \A n \in 1..Len(PartNum[b]) : (front \o PartNum[b])[Len(front) + n] = PartNum[b][n]
  <2> DEFINE t == PartNum[b]
  <2>1. t \in Seq(Chars)
    BY <1>1
  <2> HIDE DEF t
  <2>2. /\ front \o t \in Seq(Chars) /\ Len(front \o t) = Len(front) + Len(t)
        /\ \A n \in 1..(Len(front) + Len(t)) :
             (front \o t)[n] = IF n <= Len(front) THEN front[n] ELSE t[n - Len(front)]
    BY <1>2, <2>1, ConcatProperties
  <2>3. \A n \in 1..Len(front) : (front \o t)[n] = front[n]
    BY <1>2, <2>1, <2>2
  <2>4. \A n \in 1..Len(t) : (front \o t)[Len(front) + n] = t[n]
    <3> TAKE n \in 1..Len(t)
    <3>1. Len(front) + n \in 1..(Len(front) + Len(t)) /\ ~(Len(front) + n <= Len(front))
      BY <1>2, <2>1
    <3>2. Len(front) + n - Len(front) = n
      BY <1>2, <2>1
    <3> QED BY <2>2, <3>1, <3>2
  <2> QED BY <1>1, <1>2, <2>2, <2>3, <2>4 DEF t
<1>4. \A n \in 1..Len(Disk) : (front \o PartNum[b])[n] = Disk[n]
  BY <1>1, <1>2, <1>3
<1>5. (front \o PartNum[b])[Len(Disk) + 1] = "p"
  BY <1>1, <1>2, <1>3
<1>6. device_filepath(b) = front \o PartNum[b]
  BY DEF device_filepath, front
<1> QED BY <1>2, <1>3, <1>4, <1>5, <1>6

\* No partition number has a p: what str_endswith finds at the end of a path it
\* finds at the end of the path's partition number.
LEMMA EndOfPath ==
  ASSUME NEW a \in Banks, NEW b \in Banks
  PROVE  str_endswith(PartNum[a], device_filepath(b)) <=> IsSuffix(PartNum[a], PartNum[b])
<1> DEFINE s == PartNum[a]  t == PartNum[b]  path == device_filepath(b)
<1>1. /\ s \in Seq(Chars) /\ Len(s) \in Nat /\ t \in Seq(Chars) /\ Len(t) \in Nat
      /\ Len(Disk) \in Nat /\ \A n \in 1..Len(s) : s[n] # "p"
  BY PathParts
<1>2. /\ path \in Seq(Chars) /\ Len(path) = Len(Disk) + 1 + Len(t)
      /\ path[Len(Disk) + 1] = "p"
      /\ \A n \in 1..Len(t) : path[Len(Disk) + 1 + n] = t[n]
  BY PathPositions
<1>3. str_endswith(s, path) <=> IsSuffix(s, path)
  BY DEF str_endswith
<1> HIDE DEF s, t, path
<1>4. IsSuffix(s, path) <=> /\ Len(s) <= Len(path)
                            /\ \A n \in 1..Len(s) : s[n] = path[Len(path) - Len(s) + n]
  <2>1. s \in Seq(Chars) /\ path \in Seq(Chars)
    BY <1>1, <1>2
  <2> QED BY <2>1, SuffixPositions
<1>5. IsSuffix(s, t) <=> /\ Len(s) <= Len(t)
                         /\ \A n \in 1..Len(s) : s[n] = t[Len(t) - Len(s) + n]
  BY <1>1, SuffixPositions
<1>6. ASSUME Len(s) <= Len(t), NEW n \in 1..Len(s)
      PROVE  path[Len(path) - Len(s) + n] = t[Len(t) - Len(s) + n]
  <2>1. Len(t) - Len(s) + n \in 1..Len(t)
    BY <1>1, <1>6
  <2>2. Len(path) - Len(s) + n = Len(Disk) + 1 + (Len(t) - Len(s) + n)
    BY <1>1, <1>2
  <2> QED BY <1>2, <2>1, <2>2
<1>7. ASSUME IsSuffix(s, t) PROVE IsSuffix(s, path)
  <2>1. Len(s) <= Len(path)
    BY <1>1, <1>2, <1>5, <1>7
  <2> QED BY <1>4, <1>5, <1>6, <1>7, <2>1
<1>8. ASSUME IsSuffix(s, path) PROVE IsSuffix(s, t)
  <2>1. ASSUME Len(s) > Len(t) PROVE FALSE
    <3>1. Len(s) - Len(t) \in 1..Len(s)
      BY <1>1, <2>1
    <3>2. Len(path) - Len(s) + (Len(s) - Len(t)) = Len(Disk) + 1
      BY <1>1, <1>2
    <3>3. s[Len(s) - Len(t)] = "p"
      BY <1>2, <1>4, <1>8, <3>1, <3>2
    <3> QED BY <1>1, <3>1, <3>3
  <2>2. Len(s) <= Len(t)
    BY <1>1, <2>1
  <2> QED BY <1>4, <1>5, <1>6, <1>8, <2>2
<1>9. str_endswith(s, path) <=> IsSuffix(s, t)
  BY <1>3, <1>7, <1>8
<1> QED BY <1>9 DEF s, t, path

LEMMA OwnSuffix ==
  ASSUME NEW b \in Banks
  PROVE  IsSuffix(PartNum[b], PartNum[b])
<1> DEFINE s == PartNum[b]
<1>1. s \in Seq(Chars) /\ Len(s) \in Nat
  BY PathParts
<1> HIDE DEF s
<1>2. \A n \in 1..Len(s) : s[n] = s[Len(s) - Len(s) + n]
  BY <1>1
<1>3. IsSuffix(s, s)
  BY <1>1, <1>2, SuffixPositions
<1> QED BY <1>3 DEF s

\* str_endswith tells the banks apart, where their numbers let it.
LEMMA EndTellsBank ==
  ASSUME BanksDistinguished, NEW a \in Banks, NEW b \in Banks
  PROVE  str_endswith(PartNum[a], device_filepath(b)) <=> a = b
  BY EndOfPath, OwnSuffix DEF BanksDistinguished

\* Two banks have two device files.
LEMMA PathTellsBank ==
  ASSUME NEW a \in Banks, NEW b \in Banks, device_filepath(a) = device_filepath(b)
  PROVE  a = b
<1> DEFINE s == PartNum[a]  t == PartNum[b]
<1>1. s \in Seq(Chars) /\ t \in Seq(Chars) /\ Len(Disk) \in Nat
  BY PathParts
<1>2. /\ Len(Disk) + 1 + Len(s) = Len(Disk) + 1 + Len(t)
      /\ \A n \in 1..Len(s) : device_filepath(b)[Len(Disk) + 1 + n] = s[n]
      /\ \A n \in 1..Len(t) : device_filepath(b)[Len(Disk) + 1 + n] = t[n]
  BY PathPositions
<1> HIDE DEF s, t
<1>3. Len(s) = Len(t)
  BY <1>1, <1>2
<1>4. s = t
  BY <1>1, <1>2, <1>3, SeqEqual
<1> QED BY <1>4, ActivateAssumption DEF s, t, Banks

\* A sequence that begins with s has s as its front.
LEMMA FrontEqual ==
  ASSUME NEW S, NEW s \in Seq(S), NEW t \in Seq(S), Len(s) <= Len(t),
         \A n \in 1..Len(s) : t[n] = s[n]
  PROVE  SubSeq(t, 1, Len(s)) = s
<1>1. /\ SubSeq(t, 1, Len(s)) \in Seq(S)
      /\ Len(SubSeq(t, 1, Len(s))) = Len(s)
      /\ \A n \in 1..Len(s) : SubSeq(t, 1, Len(s))[n] = t[n]
  OBVIOUS
<1> QED BY <1>1, SeqEqual

\* Where the first p is.
LEMMA FirstP ==
  ASSUME NEW path, NEW k \in Nat \ {0}, NEW m \in Nat, DOMAIN path = 1..(k + m),
         path[k] = "p", \A n \in 1..(k - 1) : path[n] # "p"
  PROVE  /\ {n \in DOMAIN path : path[n] = "p"} # {}
         /\ Min({n \in DOMAIN path : path[n] = "p"}) = k
<1> DEFINE ps == {n \in DOMAIN path : path[n] = "p"}
<1>1. k \in ps /\ \A n \in ps : n \in Nat /\ k <= n
  OBVIOUS
<1> HIDE DEF ps
<1>2. \A n \in ps : (\A y \in ps : n =< y) => n = k
  BY <1>1
<1>3. Min(ps) = k
  BY <1>1, <1>2 DEF Min
<1> QED BY <1>1, <1>3 DEF ps

\* strtok finds the disk in the path.
LEMMA DiskOfPath ==
  ASSUME NEW b \in Banks
  PROVE  DiskOf(device_filepath(b)) = Disk
<1> DEFINE path == device_filepath(b)
           m    == Len(PartNum[b])
           k    == Len(Disk) + 1
           ps   == {n \in DOMAIN path : path[n] = "p"}
<1>1. /\ Disk \in Seq(Chars) /\ Len(Disk) \in Nat /\ m \in Nat
      /\ \A n \in 1..Len(Disk) : Disk[n] # "p"
  BY PathParts
<1>2. /\ path \in Seq(Chars) /\ Len(path) = k + m
      /\ path[k] = "p"
      /\ \A n \in 1..Len(Disk) : path[n] = Disk[n]
  BY PathPositions
<1>3. k \in Nat \ {0} /\ k - 1 = Len(Disk)
  BY <1>1
<1> HIDE DEF path, m, k
<1>4. DOMAIN path = 1..(k + m) /\ \A n \in 1..(k - 1) : path[n] # "p"
  BY <1>1, <1>2, <1>3
<1>5. ps # {} /\ Min(ps) = k
  BY <1>1, <1>2, <1>3, <1>4, FirstP
<1>6. SubSeq(path, 1, Len(Disk)) = Disk
  <2>1. Len(Disk) <= Len(path)
    BY <1>1, <1>2, <1>3
  <2> QED BY <1>1, <1>2, <2>1, FrontEqual
<1>7. DiskOf(path) = IF ps = {} THEN path ELSE SubSeq(path, 1, Min(ps) - 1)
  BY DEF DiskOf
<1>8. DiskOf(path) = Disk
  BY <1>3, <1>5, <1>6, <1>7
<1> QED BY <1>8 DEF path

Other(b) == IF b = "bank1" THEN "bank2" ELSE "bank1"

\* The bank find_target_partition names when m is mounted.
Target(m) == IF IsSuffix(PartNum["bank1"], PartNum[m]) THEN "bank2" ELSE "bank1"

LEMMA TargetFound ==
  ASSUME NEW m \in Banks
  PROVE  find_target_partition(device_filepath(m), PartNum["bank1"], PartNum["bank2"])
           = device_filepath(Target(m))
<1>1. "bank1" \in Banks /\ "bank2" \in Banks /\ m \in {"bank1", "bank2"}
  BY DEF Banks
<1>2. \A b \in Banks : DiskOf(device_filepath(m)) \o <<"p">> \o PartNum[b] = device_filepath(b)
  <2>1. DiskOf(device_filepath(m)) = Disk
    BY DiskOfPath
  <2> QED BY <2>1 DEF device_filepath
<1>3. str_endswith(PartNum["bank1"], device_filepath(m)) <=> IsSuffix(PartNum["bank1"], PartNum[m])
  BY <1>1, EndOfPath
<1>4. m = "bank1" => IsSuffix(PartNum["bank1"], PartNum[m])
  BY OwnSuffix
<1>5. m = "bank2" => str_endswith(PartNum["bank2"], device_filepath(m))
  BY OwnSuffix, EndOfPath
<1> QED BY <1>1, <1>2, <1>3, <1>4, <1>5 DEF find_target_partition, Target

\* find_target_partition names the bank that is not mounted, unless bank 2 is mounted
\* and its number ends with that of bank 1.
LEMMA TargetIsOther ==
  ASSUME NEW m \in Banks
  PROVE  /\ Target(m) \in Banks
         /\ Target(m) = m <=> m = "bank2" /\ IsSuffix(PartNum["bank1"], PartNum["bank2"])
         /\ BanksDistinguished => Target(m) = Other(m)
<1>1. "bank1" \in Banks /\ "bank2" \in Banks /\ m \in {"bank1", "bank2"}
  BY DEF Banks
<1>2. IsSuffix(PartNum["bank1"], PartNum["bank1"])
  BY <1>1, OwnSuffix
<1> QED BY <1>1, <1>2 DEF Target, Other, BanksDistinguished

----------------------------------------------------------------------------
(* The components of a package.                                            *)

\* s is what is left of the package of u, and c one of the components before it.
Rest(u, s) ==
  /\ Len(s) <= Len(Package[u])
  /\ \A n \in 1..Len(s) : s[n] = Package[u][Len(Package[u]) - Len(s) + n]

Did(u, s, c) == \E n \in 1..(Len(Package[u]) - Len(s)) : Package[u][n] = c

\* At the beginning nothing is done.
LEMMA RestBegins ==
  ASSUME NEW u \in Updates
  PROVE  /\ Package[u] \in Seq(Components) /\ Rest(u, Package[u])
         /\ \A c \in Components : ~Did(u, Package[u], c)
<1>1. Package[u] \in Seq(Components)
  BY ActivateAssumption
<1> DEFINE p == Package[u]
<1>2. p \in Seq(Components)
  BY <1>1
<1> HIDE DEF p
<1>3. Len(p) <= Len(p) /\ (\A n \in 1..Len(p) : p[n] = p[Len(p) - Len(p) + n])
      /\ 1..(Len(p) - Len(p)) = {}
  BY <1>2
<1> QED BY <1>1, <1>3 DEF Rest, Did, p

\* When a handler is done, so is the component it was called for.
LEMMA RestTail ==
  ASSUME NEW u \in Updates, NEW s \in Seq(Components), Rest(u, s), s # <<>>
  PROVE  /\ Rest(u, Tail(s))
         /\ \A c \in Components : Did(u, Tail(s), c) => Did(u, s, c) \/ c = Head(s)
<1> DEFINE p == Package[u]  m == Len(p)  k == Len(s)  t == Tail(s)
<1>1. p \in Seq(Components) /\ m \in Nat
  BY ActivateAssumption
<1>2. k \in Nat \ {0} /\ k <= m /\ \A n \in 1..k : s[n] = p[m - k + n]
  <2>1. k \in Nat \ {0}
    BY EmptySeq
  <2>2. k <= m /\ \A n \in 1..k : s[n] = p[m - k + n]
    BY Zenon DEF Rest
  <2> QED BY <2>1, <2>2
<1>3. t \in Seq(Components) /\ Len(t) = k - 1 /\ \A n \in 1..(k - 1) : t[n] = s[n + 1]
  BY HeadTailProperties
<1>4. Head(s) = s[1]
  OBVIOUS
<1> HIDE DEF p, m, k, t
<1>5. Len(t) <= m
  BY <1>1, <1>2, <1>3
<1>6. ASSUME NEW n \in 1..Len(t) PROVE t[n] = p[m - Len(t) + n]
  <2>1. n \in 1..(k - 1) /\ n + 1 \in 1..k
    BY <1>2, <1>3
  <2>2. m - Len(t) + n = m - k + (n + 1)
    BY <1>1, <1>2, <1>3
  <2> QED BY <1>2, <1>3, <2>1, <2>2
<1>7. ASSUME NEW c \in Components, NEW n \in 1..(m - Len(t)), p[n] = c
      PROVE  (\E j \in 1..(m - k) : p[j] = c) \/ c = Head(s)
  <2>1. n \in 1..(m - k) \/ n = m - k + 1
    BY <1>1, <1>2, <1>3
  <2>2. s[1] = p[m - k + 1]
    BY <1>2
  <2> QED BY <1>4, <1>7, <2>1, <2>2
<1> QED BY <1>5, <1>6, <1>7 DEF Rest, Did, p, m, k, t

\* At the end every component of the package is done.
LEMMA RestEnds ==
  ASSUME NEW u \in Updates, NEW c, InPackage(u, c)
  PROVE  Did(u, <<>>, c)
<1>1. Package[u] \in Seq(Components)
  BY ActivateAssumption
<1>2. PICK n \in DOMAIN Package[u] : Package[u][n] = c
  BY DEF InPackage
<1>3. n \in 1..(Len(Package[u]) - Len(<<>>))
  BY <1>1
<1> QED BY <1>2, <1>3 DEF Did

----------------------------------------------------------------------------
(* The inductive invariant.                                                *)

Rebooting == {"ROOTFS", "BOOT"} \cup Bootloaders

\* Where the script is says what it serves and what the running handler writes.
\* The root file system always goes to the bank that is not mounted.
StageInv ==
  /\ pc # "idle" => update \in Updates /\ Rest(update, todo)
  /\ pc \in {"setup", "touch"} => todo = Package[update]
  /\ pc \in {"copy", "flag"} => /\ todo # <<>> /\ Head(todo) = "ROOTFS"
                                /\ target = Other(mounted)
  /\ pc \in {"unpack", "cp", "fs"} => /\ todo # <<>> /\ Head(todo) = "BOOT"
                                      /\ target \in BootParts
  /\ pc = "dd" => todo # <<>> /\ target = Head(todo) /\ target \in Bootloaders
  /\ pc = "dnr" => todo # <<>> /\ Head(todo) \in Rebooting
  /\ pc \in {"header", "cpheader", "restart", "reboot"} => todo = <<>>
  /\ pc = "restart" => header = update
  /\ code # None => pc \in {"idle", "reboot"}

\* A component that takes a reboot has removed do_not_reboot.
RebootInv ==
  pc \notin {"idle", "setup", "touch"} =>
    \A c \in Rebooting : Did(update, todo, c) => ~do_not_reboot

\* Unless the storage failed, the new root file system is there before the flag
\* points to it, and stays there, except while the same package brings another.
RootfsInv ==
  pc \notin {"idle", "reboot"} /\ ~ioError =>
    /\ Did(update, todo, "ROOTFS") => /\ NextBoot = Other(mounted)
                                      /\ pc # "copy" => bank[Other(mounted)] = update
    /\ pc = "flag" => bank[Other(mounted)] = update
    /\ pc = "dnr" /\ Head(todo) = "ROOTFS" => /\ NextBoot = Other(mounted)
                                              /\ bank[Other(mounted)] = update

\* The boot partitions that the device has are written one after the other.
BootInv ==
  pc \notin {"idle", "reboot"} =>
    /\ Did(update, todo, "BOOT") =>
         \A p \in BootParts \ skipped : part[p] = update \/ (pc = "cp" /\ target = p)
    /\ pc = "fs" => part[target] = update
    /\ pc \in {"unpack", "cp", "fs"} /\ target # "BOOT" => part["BOOT"] = update
    /\ pc = "dnr" /\ Head(todo) = "BOOT" =>
         \A p \in BootParts \ skipped : part[p] = update

LoaderInv ==
  pc \notin {"idle", "reboot"} =>
    \A b \in Bootloaders :
      /\ Did(update, todo, b) => part[b] = update \/ (pc = "dd" /\ target = b)
      /\ pc = "dnr" /\ Head(todo) = b => part[b] = update

IInv == /\ BanksDistinguished
        /\ TypeOK
        /\ StageInv
        /\ RebootInv /\ RebootWhenNeeded
        /\ RootfsInv /\ BootInv /\ LoaderInv /\ SuccessInstalls
        /\ NextBootBankSound

LEMMA OtherBank ==
  ASSUME NEW b \in Banks
  PROVE  Other(b) \in Banks /\ Other(b) # b
  BY DEF Other, Banks

\* The invariant holds on a device as it was made.
LEMMA InitIInv == BanksDistinguished /\ Init => IInv
<1> SUFFICES ASSUME BanksDistinguished, Init PROVE IInv
  OBVIOUS
<1>1. TypeOK
  <2>1. bank \in [Banks -> Content] /\ part \in [BootParts \cup Bootloaders -> Content]
    BY DEF Init, Content
  <2>2. activations \in 0..MaxActivations /\ cuts \in 0..MaxCuts
    BY ActivateAssumption DEF Init
  <2>3. todo \in Seq(Components)
    BY DEF Init
  <2> QED BY <2>1, <2>2, <2>3 DEF Init, TypeOK, Banks, Steps
<1>2. StageInv /\ RebootInv /\ RootfsInv /\ BootInv /\ LoaderInv
  BY DEF Init, StageInv, RebootInv, RootfsInv, BootInv, LoaderInv
<1>3. RebootWhenNeeded /\ SuccessInstalls
  BY DEF Init, RebootWhenNeeded, SuccessInstalls
<1>4. NextBootBankSound
  BY ActivateAssumption DEF Init, NextBootBankSound, NextBoot, Banks
<1> QED BY <1>1, <1>2, <1>3, <1>4 DEF IInv

\* The boot flag follows the bank that was written, or is left alone.
LEMMA FlagOutcome ==
  ASSUME BanksDistinguished, TypeOK, StageInv, SetBootFlag
  PROVE  /\ rootfs2' \in BOOLEAN
         /\ pc' \in {"dnr", "idle"}
         /\ pc' = "dnr" => rootfs2' = (target = "bank2")
         /\ rootfs2' # rootfs2 => rootfs2' = (target = "bank2")
<1>1. target \in Banks
  BY OtherBank DEF TypeOK, StageInv, SetBootFlag
<1>2. str_endswith(PartNum["bank2"], device_filepath(target)) <=> target = "bank2"
  BY <1>1, EndTellsBank DEF Banks
<1>3. PICK o \in IF target = "bank2" THEN write_bootflag_file ELSE remove_bootflag_file :
        /\ rootfs2' = o.flag
        /\ \/ o.res = "ok" /\ pc' = "dnr"
           \/ o.res = "error" /\ pc' = "idle"
  BY <1>2 DEF SetBootFlag, HandlerFails, Exit
<1>4. CASE target = "bank2"
  <2>1. PICK r \in get_bootflag_file_path : o = [res |-> r, flag |-> r = "ok" \/ rootfs2]
    BY <1>3, <1>4 DEF write_bootflag_file
  <2>2. o.res = r /\ o.flag = (r = "ok" \/ rootfs2)
    BY <2>1
  <2> QED BY <1>3, <1>4, <2>2 DEF TypeOK
<1>5. CASE target # "bank2"
  <2>1. PICK r \in get_bootflag_file_path : o = [res |-> r, flag |-> r # "ok" /\ rootfs2]
    BY <1>3, <1>5 DEF remove_bootflag_file
  <2>2. o.res = r /\ o.flag = (r # "ok" /\ rootfs2)
    BY <2>1
  <2> QED BY <1>3, <1>5, <2>2 DEF TypeOK
<1> QED BY <1>4, <1>5

\* Every step keeps every variable in its type.
LEMMA TypeStep == IInv /\ [Next]_vars => TypeOK'
<1> SUFFICES ASSUME IInv, [Next]_vars PROVE TypeOK'
  OBVIOUS
<1>0. BanksDistinguished /\ TypeOK /\ StageInv
  BY DEF IInv
<1> USE <1>0 DEF TypeOK, Steps, storage, device, script, history, Exit
<1>1. ASSUME NEW u \in Updates, Activate(u) PROVE TypeOK'
  <2>1. Package[u] \in Seq(Components)
    BY ActivateAssumption
  <2>2. activations' \in 0..MaxActivations
    BY <1>1, ActivateAssumption DEF Activate
  <2> QED BY <1>1, <2>1, <2>2 DEF Activate
<1>2. CASE SetUpPayloadTmpDir
  BY <1>2 DEF SetUpPayloadTmpDir, Codes
<1>3. CASE TouchDoNotReboot \/ SwupdateEnds
  BY <1>3 DEF TouchDoNotReboot, SwupdateEnds
<1>4. CASE OpenTarget
  <2>1. pc' \in Steps /\ code' \in Codes \cup {None} /\ todo' \in Seq(Components)
    BY <1>4 DEF OpenTarget, HandlerFails, Codes
  <2>2. bank' \in [Banks -> Content]
    BY <1>4 DEF OpenTarget, Content
  <2>3. target' \in Banks \cup BootParts \cup Bootloaders \cup {None}
    BY <1>4 DEF OpenTarget, HandlerFails
  <2>4. rewrote' \in BOOLEAN
    BY <1>4 DEF OpenTarget
  <2> QED BY <1>4, <2>1, <2>2, <2>3, <2>4 DEF OpenTarget
<1>5. CASE copy_image_and_sync
  <2>1. target \in Banks /\ update \in Content
    BY <1>5, OtherBank DEF copy_image_and_sync, StageInv, Content
  <2>2. pc' \in Steps /\ code' \in Codes \cup {None} /\ todo' = todo /\ target' = target
    BY <1>5 DEF copy_image_and_sync, HandlerFails, Codes
  <2>3. bank' \in [Banks -> Content] /\ ioError' \in BOOLEAN
    BY <1>5, <2>1 DEF copy_image_and_sync
  <2> QED BY <1>5, <2>2, <2>3 DEF copy_image_and_sync
<1>6. CASE SetBootFlag
  <2>1. pc' \in Steps /\ code' \in Codes \cup {None} /\ todo' = todo /\ target' = target
    BY <1>6 DEF SetBootFlag, HandlerFails, Codes
  <2>2. rootfs2' \in BOOLEAN
    BY <1>6, FlagOutcome
  <2> QED BY <1>6, <2>1, <2>2 DEF SetBootFlag
<1>7. CASE RemoveDoNotReboot
  <2>1. Tail(todo) \in Seq(Components)
    BY <1>7, HeadTailProperties DEF RemoveDoNotReboot, StageInv
  <2>2. pc' \in Steps /\ code' \in Codes \cup {None} /\ todo' \in Seq(Components)
    BY <1>7, <2>1 DEF RemoveDoNotReboot, HandlerDone, HandlerFails, Codes
  <2>3. target' \in {target, None} /\ do_not_reboot' \in BOOLEAN
    BY <1>7 DEF RemoveDoNotReboot, HandlerDone, HandlerFails
  <2> QED BY <1>7, <2>2, <2>3 DEF RemoveDoNotReboot
<1>8. CASE UnpackBoot
  BY <1>8 DEF UnpackBoot, HandlerFails, Codes, BootParts
<1>9. CASE EraseBootPart
  <2>1. target \in BootParts \cup Bootloaders /\ Corrupt \in Content
    BY <1>9 DEF EraseBootPart, StageInv, Content
  <2> QED BY <1>9, <2>1 DEF EraseBootPart, HandlerFails, Codes
<1>10. CASE CopyBootPart
  <2>1. target \in BootParts \cup Bootloaders /\ update \in Content
    BY <1>10 DEF CopyBootPart, StageInv, Content
  <2> QED BY <1>10, <2>1 DEF CopyBootPart, HandlerFails, Codes
<1>11. CASE BootPartDone
  <2>1. pc' \in Steps /\ code' \in Codes \cup {None} /\ todo' = todo
    BY <1>11 DEF BootPartDone, HandlerFails, Codes
  <2>2. target' \in {target, "WKS_BOOTLOADER_FS"} /\ do_not_reboot' \in BOOLEAN
    BY <1>11 DEF BootPartDone, HandlerFails
  <2> QED BY <1>11, <2>1, <2>2 DEF BootPartDone, BootParts
<1>12. CASE StartBootloader
  BY <1>12 DEF StartBootloader, HandlerFails, Serving, Codes, Content
<1>13. CASE WriteBootloader
  <2>1. target \in BootParts \cup Bootloaders /\ update \in Content
    BY <1>13 DEF WriteBootloader, StageInv, Content
  <2> QED BY <1>13, <2>1 DEF WriteBootloader, HandlerFails, Codes
<1>14. CASE InstallApps
  <2>1. Tail(todo) \in Seq(Components)
    BY <1>14, HeadTailProperties DEF InstallApps, Serving
  <2> QED BY <1>14, <2>1 DEF InstallApps, HandlerDone, HandlerFails, Codes
<1>15. CASE OpenSavedHeader
  BY <1>15 DEF OpenSavedHeader, Codes
<1>16. CASE save_header_or_die
  BY <1>16 DEF save_header_or_die, Codes, StageInv
<1>17. CASE RestartClient
  BY <1>17 DEF RestartClient, Codes
<1>18. CASE CallerReboots \/ PowerCut
  <2>1. cuts' \in 0..MaxCuts
    BY <1>18, ActivateAssumption DEF CallerReboots, PowerCut
  <2>2. mounted' \in Banks
    BY <1>18 DEF CallerReboots, PowerCut, Boot, NextBoot, Banks
  <2>3. <<>> \in Seq(Components)
    OBVIOUS
  <2> QED BY <1>18, <2>1, <2>2, <2>3 DEF CallerReboots, PowerCut, Boot
<1>19. CASE CallerDeclines
  BY <1>19 DEF CallerDeclines
<1>20. CASE UNCHANGED vars
  BY <1>20 DEF vars
<1> QED BY <1>1, <1>2, <1>3, <1>4, <1>5, <1>6, <1>7, <1>8, <1>9, <1>10, <1>11, <1>12, <1>13,
           <1>14, <1>15, <1>16, <1>17, <1>18, <1>19, <1>20 DEF Next

\* What the invariant says about an activation in progress and about one that has
\* succeeded.
Progress == /\ StageInv /\ RebootInv /\ RebootWhenNeeded
            /\ RootfsInv /\ BootInv /\ LoaderInv /\ SuccessInstalls

\* A script that ends with an error claims nothing.
LEMMA Failed ==
  ASSUME pc' = "idle", code' # 0
  PROVE  Progress'
  BY DEF Progress, StageInv, RebootInv, RebootWhenNeeded, RootfsInv, BootInv, LoaderInv,
         SuccessInstalls

\* A step that leaves the storage and the flag alone keeps the next boot sound.
LEMMA StorageKept ==
  ASSUME NextBootBankSound, bank' = bank, rootfs2' = rootfs2, ioError' = ioError,
         rewrote' = rewrote
  PROVE  NextBootBankSound'
  BY DEF NextBootBankSound, NextBoot

\* A script that is running has no exit code to answer for.
LEMMA StillRunning ==
  ASSUME StageInv', RebootInv', RootfsInv', BootInv', LoaderInv', code' = None
  PROVE  Progress'
<1>1. code' # 0
  BY ActivateAssumption DEF Codes
<1> QED BY <1>1 DEF Progress, RebootWhenNeeded, SuccessInstalls

\* While no component is done, there is nothing to keep.
LEMMA NothingDone ==
  ASSUME update' \in Updates, todo' = Package[update'], code' = None,
         pc' \in {"setup", "touch", "swupdate"}
  PROVE  Progress'
<1>1. Rest(update', todo') /\ \A c \in Components : ~Did(update', todo', c)
  BY RestBegins
<1>2. StageInv'
  BY <1>1 DEF StageInv
<1>3. \A c \in Rebooting : ~Did(update', todo', c)
  BY <1>1 DEF Rebooting, Components
<1>4. RebootInv'
  BY <1>3 DEF RebootInv
<1>5. RootfsInv'
  BY <1>3 DEF RootfsInv, Rebooting
<1>6. BootInv'
  BY <1>3 DEF BootInv, Rebooting
<1>7. LoaderInv'
  BY <1>3 DEF LoaderInv, Rebooting
<1> QED BY <1>2, <1>4, <1>5, <1>6, <1>7, StillRunning

\* The steps of arm_update_activate.sh before swupdate.
LEMMA BeginStep ==
  ASSUME IInv, (\E u \in Updates : Activate(u)) \/ SetUpPayloadTmpDir \/ TouchDoNotReboot
  PROVE  Progress' /\ NextBootBankSound'
<1> USE DEF IInv, storage, device, script, history
<1>1. ASSUME NEW u \in Updates, Activate(u) PROVE Progress'
  BY <1>1, NothingDone DEF Activate
<1>2. ASSUME SetUpPayloadTmpDir PROVE Progress'
  <2>1. CASE pc' = "touch"
    BY <1>2, <2>1, NothingDone DEF SetUpPayloadTmpDir, Exit, StageInv
  <2>2. CASE pc' # "touch"
    BY <1>2, <2>2, Failed DEF SetUpPayloadTmpDir, Exit
  <2> QED BY <2>1, <2>2
<1>3. ASSUME TouchDoNotReboot PROVE Progress'
  BY <1>3, NothingDone DEF TouchDoNotReboot, StageInv
<1>4. NextBootBankSound'
  BY StorageKept DEF Activate, SetUpPayloadTmpDir, TouchDoNotReboot
<1> QED BY <1>1, <1>2, <1>3, <1>4

\* A handler fails, or the script does, before the storage is touched.
LEMMA FailsEarly ==
  ASSUME HandlerFails
  PROVE  Progress'
  BY Failed DEF HandlerFails, Exit

\* What holds while the script is running.
LEMMA Running ==
  ASSUME IInv, pc \notin {"idle", "reboot"}
  PROVE  /\ code = None /\ update \in Updates /\ Rest(update, todo)
         /\ todo \in Seq(Components) /\ mounted \in Banks /\ bank \in [Banks -> Content]
         /\ part \in [BootParts \cup Bootloaders -> Content]
         /\ rootfs2 \in BOOLEAN /\ ioError \in BOOLEAN
  BY DEF IInv, TypeOK, StageInv

\* swupdate has installed everything.
LEMMA EndsStep ==
  ASSUME IInv, SwupdateEnds
  PROVE  Progress' /\ NextBootBankSound'
<1> USE DEF IInv, storage, device, script, history
<1>1. /\ pc = "swupdate" /\ pc' = "header" /\ todo = <<>>
      /\ UNCHANGED <<bank, part, skipped, rootfs2, mounted, do_not_reboot, update, todo,
                     code, ioError, rewrote>>
  BY DEF SwupdateEnds
<1>2. code = None /\ update \in Updates /\ Rest(update, todo)
  BY <1>1, Running
<1>3. StageInv'
  BY <1>1, <1>2 DEF StageInv
<1>4. RebootInv'
  BY <1>1 DEF RebootInv
<1>5. RootfsInv'
  BY <1>1 DEF RootfsInv, NextBoot
<1>6. BootInv' /\ LoaderInv'
  BY <1>1 DEF BootInv, LoaderInv
<1>7. NextBootBankSound'
  BY <1>1, StorageKept
<1> QED BY <1>1, <1>2, <1>3, <1>4, <1>5, <1>6, <1>7, StillRunning

\* A handler is done: its component is added to the ones that are.
LEMMA DoneStep ==
  ASSUME IInv, HandlerDone, todo # <<>>,
         UNCHANGED <<bank, part, skipped, rootfs2, mounted, update, ioError, rewrote>>,
         \/ pc = "dnr" /\ do_not_reboot' = FALSE
         \/ pc = "swupdate" /\ Head(todo) = "APPS" /\ do_not_reboot' = do_not_reboot
  PROVE  Progress'
<1> USE DEF IInv
<1>1. code = None /\ update \in Updates /\ Rest(update, todo) /\ todo \in Seq(Components)
  BY Running
<1>2. pc' = "swupdate" /\ todo' = Tail(todo) /\ code' = None
  BY <1>1 DEF HandlerDone
<1>3. /\ Rest(update', todo')
      /\ \A c \in Components : Did(update', todo', c) => Did(update, todo, c) \/ c = Head(todo)
  BY <1>1, <1>2, RestTail
<1>4. StageInv'
  BY <1>1, <1>2, <1>3 DEF StageInv
<1>5. \A c \in Rebooting :
        Did(update', todo', c) => Did(update, todo, c) \/ (pc = "dnr" /\ c = Head(todo))
  BY <1>3 DEF Rebooting, Components, Bootloaders
<1>6. RebootInv'
  BY <1>5 DEF RebootInv
<1>7. RootfsInv'
  BY <1>2, <1>5 DEF RootfsInv, NextBoot, Rebooting
<1>8. BootInv'
  BY <1>2, <1>5 DEF BootInv, Rebooting
<1>9. LoaderInv'
  BY <1>2, <1>5 DEF LoaderInv, Rebooting
<1> QED BY <1>2, <1>4, <1>6, <1>7, <1>8, <1>9, StillRunning

\* The last step of a handler, and the installer of the applications.
LEMMA DoneSteps ==
  ASSUME IInv, RemoveDoNotReboot \/ InstallApps
  PROVE  Progress' /\ NextBootBankSound'
<1> USE DEF IInv, storage, device, script, history
<1>1. ASSUME RemoveDoNotReboot PROVE Progress'
  <2>1. pc = "dnr" /\ todo # <<>>
    BY <1>1 DEF RemoveDoNotReboot, StageInv
  <2> QED BY <1>1, <2>1, DoneStep, FailsEarly DEF RemoveDoNotReboot
<1>2. ASSUME InstallApps PROVE Progress'
  BY <1>2, DoneStep, FailsEarly DEF InstallApps, Serving
<1>3. NextBootBankSound'
  BY StorageKept DEF RemoveDoNotReboot, InstallApps
<1> QED BY <1>1, <1>2, <1>3

\* The rootfs handler fails before it writes, or writes the bank that
\* find_target_partition names.
LEMMA OpenedIsTarget ==
  ASSUME mounted \in Banks, OpenTarget
  PROVE  \/ HandlerFails /\ UNCHANGED <<bank, rewrote>>
         \/ /\ pc' = "copy" /\ target' = Target(mounted) /\ code' = code
            /\ bank' = [bank EXCEPT ![Target(mounted)] = Corrupt]
            /\ rewrote' = (rewrote \/ Target(mounted) = NextBoot)
<1>1. PICK path \in get_mounted_device,
           b1_pnum \in read_part_info_file_to_new_str("bank1"),
           b2_pnum \in read_part_info_file_to_new_str("bank2") :
        \/ HandlerFails /\ UNCHANGED <<bank, rewrote>>
        \/ /\ path # None /\ b1_pnum # None /\ b2_pnum # None
           /\ \E b \in Banks :
                /\ device_filepath(b) = find_target_partition(path, b1_pnum, b2_pnum)
                /\ pc' = "copy" /\ target' = b
                /\ bank' = [bank EXCEPT ![b] = Corrupt]
                /\ rewrote' = (rewrote \/ b = NextBoot)
           /\ UNCHANGED <<code, todo>>
  BY DEF OpenTarget
<1>2. SUFFICES ASSUME path # None, b1_pnum # None, b2_pnum # None, code' = code,
                      NEW b \in Banks,
                      device_filepath(b) = find_target_partition(path, b1_pnum, b2_pnum),
                      pc' = "copy", target' = b,
                      bank' = [bank EXCEPT ![b] = Corrupt],
                      rewrote' = (rewrote \/ b = NextBoot)
               PROVE  b = Target(mounted)
  BY <1>1
<1>3. path = device_filepath(mounted)
  BY <1>2 DEF get_mounted_device
<1>4. b1_pnum = PartNum["bank1"] /\ b2_pnum = PartNum["bank2"]
  BY <1>2 DEF read_part_info_file_to_new_str, read_file_to_new_str
<1>5. device_filepath(b) = device_filepath(Target(mounted))
  BY <1>2, <1>3, <1>4, TargetFound
<1> QED BY <1>2, <1>5, TargetIsOther, PathTellsBank

\* ... which is the bank that is not mounted.
LEMMA OpenedIsOther ==
  ASSUME IInv, OpenTarget
  PROVE  \/ HandlerFails /\ UNCHANGED <<bank, rewrote>>
         \/ /\ pc' = "copy" /\ target' = Other(mounted) /\ code' = code
            /\ bank' = [bank EXCEPT ![Other(mounted)] = Corrupt]
            /\ rewrote' = (rewrote \/ Other(mounted) = NextBoot)
<1>1. mounted \in Banks /\ Target(mounted) = Other(mounted)
  BY TargetIsOther DEF IInv, TypeOK
<1> QED BY <1>1, OpenedIsTarget

\* The rootfs handler opens the bank that is not mounted.
LEMMA OpenStep ==
  ASSUME IInv, OpenTarget
  PROVE  Progress' /\ NextBootBankSound'
<1> USE DEF IInv, storage, device, script, history
<1>1. /\ pc = "swupdate" /\ todo # <<>> /\ Head(todo) = "ROOTFS"
      /\ UNCHANGED <<part, skipped, rootfs2, mounted, do_not_reboot, update, todo, ioError>>
  BY DEF OpenTarget, Serving, HandlerFails
<1>2. /\ code = None /\ update \in Updates /\ Rest(update, todo) /\ mounted \in Banks
      /\ bank \in [Banks -> Content] /\ rootfs2 \in BOOLEAN /\ ioError \in BOOLEAN
  BY <1>1, Running
<1>3. \/ HandlerFails /\ UNCHANGED <<bank, rewrote>>
      \/ /\ pc' = "copy" /\ target' = Other(mounted) /\ code' = code
         /\ bank' = [bank EXCEPT ![Other(mounted)] = Corrupt]
         /\ rewrote' = (rewrote \/ Other(mounted) = NextBoot)
  BY OpenedIsOther
<1>4. ASSUME HandlerFails, UNCHANGED <<bank, rewrote>> PROVE Progress' /\ NextBootBankSound'
  BY <1>1, <1>4, FailsEarly, StorageKept
<1>5. ASSUME pc' = "copy", target' = Other(mounted), code' = code,
             bank' = [bank EXCEPT ![Other(mounted)] = Corrupt],
             rewrote' = (rewrote \/ Other(mounted) = NextBoot)
      PROVE  Progress' /\ NextBootBankSound'
  <2>1. StageInv'
    BY <1>1, <1>2, <1>5 DEF StageInv
  <2>2. RebootInv'
    BY <1>1, <1>5 DEF RebootInv
  <2>3. RootfsInv'
    BY <1>1, <1>5 DEF RootfsInv, NextBoot
  <2>4. BootInv' /\ LoaderInv'
    BY <1>1, <1>5 DEF BootInv, LoaderInv
  <2>5. NextBootBankSound'
    <3>1. NextBoot' = NextBoot /\ NextBoot \in Banks
      BY <1>1 DEF NextBoot, Banks
    <3>2. CASE NextBoot = Other(mounted)
      <4>1. rewrote'
        BY <1>5, <3>2
      <4> QED BY <4>1 DEF NextBootBankSound
    <3>3. CASE NextBoot # Other(mounted)
      <4>1. bank'[NextBoot] = bank[NextBoot] /\ rewrote' = (rewrote \/ FALSE)
        BY <1>2, <1>5, <3>1, <3>3
      <4> QED BY <1>1, <3>1, <4>1 DEF NextBootBankSound
    <3> QED BY <3>2, <3>3
  <2> QED BY <1>2, <1>5, <2>1, <2>2, <2>3, <2>4, <2>5, StillRunning
<1> QED BY <1>3, <1>4, <1>5

\* The rootfs handler copies the image to the bank that is not mounted.
LEMMA CopyStep ==
  ASSUME IInv, copy_image_and_sync
  PROVE  Progress' /\ NextBootBankSound'
<1> USE DEF IInv, storage, device, script, history
<1>1. /\ pc = "copy" /\ pc' \in {"flag", "idle"}
      /\ UNCHANGED <<part, skipped, rootfs2, mounted, do_not_reboot, update, todo, target,
                     rewrote>>
  BY DEF copy_image_and_sync, HandlerFails, Exit
<1>2. /\ code = None /\ update \in Updates /\ Rest(update, todo) /\ mounted \in Banks
      /\ bank \in [Banks -> Content]
  BY <1>1, Running
<1>3. /\ target = Other(mounted) /\ todo # <<>> /\ Head(todo) = "ROOTFS"
      /\ Other(mounted) \in Banks
  BY <1>1, <1>2, OtherBank DEF StageInv
<1>4. \/ bank' = [bank EXCEPT ![target] = update] /\ ioError' = ioError
      \/ ioError' = TRUE /\ bank' = bank
  BY DEF copy_image_and_sync
<1>5. ASSUME pc' = "flag" PROVE Progress'
  <2>1. code' = None
    BY <1>2, <1>5 DEF copy_image_and_sync, HandlerFails, Exit
  <2>2. StageInv'
    BY <1>1, <1>2, <1>3, <1>5, <2>1 DEF StageInv
  <2>3. RebootInv'
    BY <1>1, <1>5 DEF RebootInv
  <2>4. RootfsInv'
    <3>1. CASE bank' = [bank EXCEPT ![target] = update] /\ ioError' = ioError
      BY <1>1, <1>2, <1>3, <1>5, <3>1 DEF RootfsInv, NextBoot
    <3>2. CASE ioError' = TRUE
      BY <3>2 DEF RootfsInv
    <3> QED BY <1>4, <3>1, <3>2
  <2>5. BootInv' /\ LoaderInv'
    BY <1>1, <1>5 DEF BootInv, LoaderInv
  <2> QED BY <2>1, <2>2, <2>3, <2>4, <2>5, StillRunning
<1>6. ASSUME pc' = "idle" PROVE Progress'
  <2>1. code' = 25
    BY <1>6 DEF copy_image_and_sync, HandlerFails, Exit
  <2> QED BY <1>6, <2>1, Failed
<1>7. NextBootBankSound'
  <2>1. NextBoot' = NextBoot /\ NextBoot \in Banks
    BY <1>1 DEF NextBoot, Banks
  <2>2. CASE bank' = [bank EXCEPT ![target] = update] /\ ioError' = ioError
    <3>1. update # Corrupt
      BY <1>2, ActivateAssumption
    <3>2. bank'[NextBoot] \in {update, bank[NextBoot]}
      BY <1>2, <2>1, <2>2
    <3> QED BY <1>1, <2>1, <2>2, <3>1, <3>2 DEF NextBootBankSound
  <2>3. CASE ioError' = TRUE
    BY <2>3 DEF NextBootBankSound
  <2> QED BY <1>4, <2>2, <2>3
<1> QED BY <1>1, <1>5, <1>6, <1>7

\* The boot flag moves to a bank that holds the new image.
LEMMA FlagStep ==
  ASSUME IInv, SetBootFlag
  PROVE  Progress' /\ NextBootBankSound'
<1> USE DEF IInv, storage, device, script, history
<1>1. /\ pc = "flag"
      /\ UNCHANGED <<bank, part, skipped, mounted, do_not_reboot, update, todo, target,
                     ioError, rewrote>>
  BY DEF SetBootFlag, HandlerFails
<1>2. /\ code = None /\ update \in Updates /\ Rest(update, todo) /\ mounted \in Banks
      /\ rootfs2 \in BOOLEAN
  BY <1>1, Running
<1>3. /\ target = Other(mounted) /\ todo # <<>> /\ Head(todo) = "ROOTFS"
      /\ target \in Banks
  BY <1>1, <1>2, OtherBank DEF StageInv
<1>4. /\ rootfs2' \in BOOLEAN /\ pc' \in {"dnr", "idle"}
      /\ pc' = "dnr" => rootfs2' = (target = "bank2")
      /\ rootfs2' # rootfs2 => rootfs2' = (target = "bank2")
  BY FlagOutcome
<1>5. pc' = "dnr" => NextBoot' = Other(mounted)
  BY <1>3, <1>4 DEF NextBoot, Banks
<1>6. NextBoot' \in {NextBoot, Other(mounted)}
  BY <1>3, <1>4 DEF NextBoot, Banks
<1>7. ASSUME pc' = "dnr" PROVE Progress'
  <2>1. code' = None
    BY <1>2, <1>7 DEF SetBootFlag, HandlerFails, Exit
  <2>2. StageInv'
    BY <1>1, <1>2, <1>3, <1>7, <2>1 DEF StageInv, Rebooting
  <2>3. RebootInv'
    BY <1>1, <1>7 DEF RebootInv
  <2>4. RootfsInv'
    BY <1>1, <1>5, <1>7 DEF RootfsInv
  <2>5. BootInv'
    BY <1>1, <1>3, <1>7 DEF BootInv
  <2>6. LoaderInv'
    BY <1>1, <1>3, <1>7 DEF LoaderInv, Bootloaders
  <2> QED BY <2>1, <2>2, <2>3, <2>4, <2>5, <2>6, StillRunning
<1>8. ASSUME pc' = "idle" PROVE Progress'
  <2>1. code' = 25
    BY <1>8 DEF SetBootFlag, HandlerFails, Exit
  <2> QED BY <1>8, <2>1, Failed
<1>9. NextBootBankSound'
  <2>1. CASE ioError \/ rewrote
    <3>1. ioError' \/ rewrote'
      BY <1>1, <2>1
    <3> QED BY <3>1 DEF NextBootBankSound
  <2>2. CASE ~ioError /\ ~rewrote
    <3>1. bank[Other(mounted)] = update /\ update # Corrupt
      BY <1>1, <1>2, <2>2, ActivateAssumption DEF RootfsInv
    <3>2. bank[NextBoot] # Corrupt
      BY <2>2 DEF NextBootBankSound
    <3> QED BY <1>1, <1>6, <3>1, <3>2 DEF NextBootBankSound
  <2> QED BY <2>1, <2>2
<1> QED BY <1>4, <1>7, <1>8, <1>9

\* The parts of the invariant that the installers of boot partitions and
\* bootloaders do not disturb.
LEMMA OtherInstallers ==
  ASSUME IInv, pc \notin {"idle", "setup", "touch", "reboot", "copy"},
         pc' \in {"unpack", "cp", "fs", "dd", "dnr"},
         UNCHANGED <<bank, rootfs2, mounted, update, todo, ioError, rewrote>>,
         do_not_reboot' \in {do_not_reboot, FALSE}, Head(todo) # "ROOTFS"
  PROVE  RebootInv' /\ RootfsInv' /\ NextBootBankSound'
<1>1. RebootInv'
  BY DEF IInv, RebootInv
<1>2. RootfsInv'
  BY DEF IInv, RootfsInv, NextBoot
<1>3. NextBootBankSound'
  BY StorageKept DEF IInv
<1> QED BY <1>1, <1>2, <1>3

\* boot_partition_installer.sh.
LEMMA BootSteps ==
  ASSUME IInv, UnpackBoot \/ EraseBootPart \/ CopyBootPart \/ BootPartDone
  PROVE  Progress' /\ NextBootBankSound'
<1> USE DEF IInv, storage, device, script, history
<1>1. /\ pc \in {"swupdate", "unpack", "cp", "fs"}
      /\ todo # <<>> /\ Head(todo) = "BOOT"
      /\ pc # "swupdate" => target \in BootParts
      /\ UNCHANGED <<bank, skipped, rootfs2, mounted, update, todo, ioError, rewrote>>
      /\ pc' = "idle" => HandlerFails
      /\ pc' # "idle" => code' = code /\ pc' \in {"unpack", "cp", "fs", "dnr"}
      /\ do_not_reboot' \in {do_not_reboot, FALSE}
  BY DEF UnpackBoot, EraseBootPart, CopyBootPart, BootPartDone, Serving, StageInv,
         HandlerFails, Exit
<1>2. /\ code = None /\ update \in Updates /\ Rest(update, todo)
      /\ part \in [BootParts \cup Bootloaders -> Content]
  BY <1>1, Running
<1>3. CASE pc' = "idle"
  <2>1. NextBootBankSound'
    BY <1>1, StorageKept
  <2> QED BY <1>1, <1>3, <2>1, FailsEarly
<1>4. CASE pc' # "idle"
  <2>1. RebootInv' /\ RootfsInv' /\ NextBootBankSound'
    BY <1>1, <1>4, OtherInstallers
  <2>2. code' = None /\ target' \in BootParts
    BY <1>1, <1>2, <1>4 DEF UnpackBoot, EraseBootPart, CopyBootPart, BootPartDone,
       HandlerFails, Exit, BootParts
  <2>3. StageInv'
    BY <1>1, <1>2, <1>4, <2>2 DEF StageInv, Rebooting
  <2>4. LoaderInv'
    <3>1. \A b \in Bootloaders : part'[b] = part[b]
      BY <1>1, <1>2, <1>4 DEF UnpackBoot, EraseBootPart, CopyBootPart, BootPartDone,
         HandlerFails, Exit, BootParts, Bootloaders
    <3>2. "BOOT" \notin Bootloaders
      BY DEF Bootloaders
    <3> QED BY <1>1, <1>4, <3>1, <3>2 DEF LoaderInv
  <2>5. BootInv'
    <3>1. CASE UnpackBoot
      <4>1. part' = part /\ target' = "BOOT" /\ pc = "swupdate" /\ pc' = "unpack"
        BY <1>4, <3>1 DEF UnpackBoot, Serving, HandlerFails, Exit
      <4> QED BY <1>1, <4>1 DEF BootInv
    <3>2. CASE EraseBootPart
      <4>1. CASE pc' = "cp"
        <5>1. part' = [part EXCEPT ![target] = Corrupt] /\ target' = target /\ pc = "unpack"
          BY <3>2, <4>1 DEF EraseBootPart, HandlerFails, Exit
        <5> QED BY <1>1, <1>2, <4>1, <5>1 DEF BootInv, BootParts
      <4>2. CASE pc' = "dnr"
        <5>1. part' = part /\ target \in skipped /\ target = "WKS_BOOTLOADER_FS" /\ pc = "unpack"
          BY <3>2, <4>2 DEF EraseBootPart, HandlerFails, Exit
        <5> QED BY <1>1, <1>2, <4>2, <5>1 DEF BootInv, BootParts
      <4> QED BY <1>4, <3>2, <4>1, <4>2 DEF EraseBootPart, HandlerFails, Exit
    <3>3. CASE CopyBootPart
      <4>1. /\ part' = [part EXCEPT ![target] = update] /\ target' = target /\ pc = "cp"
            /\ pc' = "fs"
        BY <1>4, <3>3 DEF CopyBootPart, HandlerFails, Exit
      <4> QED BY <1>1, <1>2, <4>1 DEF BootInv, BootParts
    <3>4. CASE BootPartDone
      <4>1. CASE target = "BOOT"
        <5>1. part' = part /\ target' = "WKS_BOOTLOADER_FS" /\ pc = "fs" /\ pc' = "unpack"
          BY <1>4, <3>4, <4>1 DEF BootPartDone, HandlerFails, Exit
        <5> QED BY <1>1, <1>2, <4>1, <5>1 DEF BootInv, BootParts
      <4>2. CASE target # "BOOT"
        <5>1. part' = part /\ target' = target /\ pc = "fs" /\ pc' = "dnr"
          BY <1>4, <3>4, <4>2 DEF BootPartDone, HandlerFails, Exit
        <5> QED BY <1>1, <1>2, <4>2, <5>1 DEF BootInv, BootParts
      <4> QED BY <4>1, <4>2
    <3> QED BY <3>1, <3>2, <3>3, <3>4
  <2> QED BY <2>1, <2>2, <2>3, <2>4, <2>5, StillRunning
<1> QED BY <1>3, <1>4

\* bootloader_installer.sh.
LEMMA LoaderSteps ==
  ASSUME IInv, StartBootloader \/ WriteBootloader
  PROVE  Progress' /\ NextBootBankSound'
<1> USE DEF IInv, storage, device, script, history
<1>1. /\ pc \in {"swupdate", "dd"}
      /\ todo # <<>> /\ Head(todo) \in Bootloaders
      /\ pc = "dd" => target = Head(todo)
      /\ UNCHANGED <<bank, skipped, rootfs2, mounted, do_not_reboot, update, todo, ioError,
                     rewrote>>
      /\ pc' = "idle" => HandlerFails
      /\ pc' # "idle" => /\ code' = code /\ target' = Head(todo)
                         /\ \/ /\ pc = "swupdate" /\ pc' = "dd"
                               /\ part' = [part EXCEPT ![Head(todo)] = Corrupt]
                            \/ /\ pc = "dd" /\ pc' = "dnr"
                               /\ part' = [part EXCEPT ![Head(todo)] = update]
  BY DEF StartBootloader, WriteBootloader, Serving, StageInv, HandlerFails, Exit
<1>2. /\ code = None /\ update \in Updates /\ Rest(update, todo)
      /\ part \in [BootParts \cup Bootloaders -> Content]
  BY <1>1, Running
<1>3. CASE pc' = "idle"
  <2>1. NextBootBankSound'
    BY <1>1, StorageKept
  <2> QED BY <1>1, <1>3, <2>1, FailsEarly
<1>4. CASE pc' # "idle"
  <2>1. RebootInv' /\ RootfsInv' /\ NextBootBankSound'
    <3>1. Head(todo) # "ROOTFS"
      BY <1>1 DEF Bootloaders
    <3> QED BY <1>1, <1>4, <3>1, OtherInstallers
  <2>2. code' = None
    BY <1>1, <1>2, <1>4
  <2>3. StageInv'
    BY <1>1, <1>2, <1>4, <2>2 DEF StageInv, Rebooting
  <2>4. LoaderInv'
    BY <1>1, <1>2, <1>4 DEF LoaderInv
  <2>5. BootInv'
    <3>1. \A p \in BootParts : part'[p] = part[p]
      BY <1>1, <1>2, <1>4 DEF BootParts, Bootloaders
    <3>2. Head(todo) # "BOOT"
      BY <1>1 DEF Bootloaders
    <3> QED BY <1>1, <1>4, <3>1, <3>2 DEF BootInv
  <2> QED BY <2>1, <2>2, <2>3, <2>4, <2>5, StillRunning
<1> QED BY <1>3, <1>4

\* The end of the script: the header is saved, and exit code 0 is for an update
\* whose components are all done.
LEMMA EndSteps ==
  ASSUME IInv, OpenSavedHeader \/ save_header_or_die \/ RestartClient \/ CallerDeclines
  PROVE  Progress' /\ NextBootBankSound'
<1> USE DEF IInv, storage, device, script, history
<1>1. UNCHANGED <<bank, part, skipped, rootfs2, mounted, do_not_reboot, update, todo, ioError,
                  rewrote>>
  BY DEF OpenSavedHeader, save_header_or_die, RestartClient, CallerDeclines
<1>2. NextBootBankSound'
  BY <1>1, StorageKept
<1>3. ASSUME OpenSavedHeader \/ save_header_or_die PROVE Progress'
  <2>1. /\ pc \in {"header", "cpheader"}
        /\ \/ pc' = "idle" /\ code' = 21
           \/ pc' = "cpheader" /\ code' = code
           \/ pc' = "restart" /\ code' = code /\ header' = update
    BY <1>3 DEF OpenSavedHeader, save_header_or_die, Exit
  <2>2. code = None /\ update \in Updates /\ Rest(update, todo) /\ todo = <<>>
    BY <2>1, Running DEF StageInv
  <2>3. CASE pc' = "idle"
    BY <2>1, <2>3, Failed
  <2>4. CASE pc' # "idle"
    <3>1. StageInv'
      BY <1>1, <2>1, <2>2, <2>4 DEF StageInv
    <3>2. RebootInv' /\ BootInv' /\ LoaderInv'
      BY <1>1, <2>1, <2>4 DEF RebootInv, BootInv, LoaderInv
    <3>3. RootfsInv'
      BY <1>1, <2>1, <2>4 DEF RootfsInv, NextBoot
    <3> QED BY <2>1, <2>2, <2>4, <3>1, <3>2, <3>3, StillRunning
  <2> QED BY <2>3, <2>4
<1>4. ASSUME RestartClient PROVE Progress'
  <2>1. /\ pc = "restart" /\ header' = header
        /\ \/ pc' = "idle" /\ code' = 1
           \/ pc' \in {"idle", "reboot"} /\ code' = 0
    BY <1>4 DEF RestartClient, Exit
  <2>2. CASE pc' = "idle" /\ code' = 1
    BY <2>2, Failed
  <2>3. CASE pc' \in {"idle", "reboot"} /\ code' = 0
    <3>1. update \in Updates /\ Rest(update, todo) /\ todo = <<>> /\ header = update
      BY <2>1, Running DEF StageInv
    <3>2. \A c : InPackage(update, c) => Did(update, todo, c)
      BY <3>1, RestEnds
    <3>3. StageInv'
      BY <1>1, <2>3, <3>1 DEF StageInv
    <3>4. RebootInv'
      BY <1>1, <2>1, <2>3 DEF RebootInv
    <3>5. RootfsInv' /\ BootInv' /\ LoaderInv'
      BY <2>3 DEF RootfsInv, BootInv, LoaderInv
    <3>6. RebootWhenNeeded'
      <4>1. \A c \in Rebooting : InPackage(update, c) => ~do_not_reboot
        BY <2>1, <3>2 DEF RebootInv
      <4> QED BY <1>1, <4>1 DEF RebootWhenNeeded, Rebooting
    <3>7. SuccessInstalls'
      <4>1. InPackage(update, "ROOTFS") /\ ~ioError => bank[NextBoot] = update /\ NextBoot # mounted
        <5>1. Other(mounted) # mounted
          BY OtherBank DEF TypeOK
        <5> QED BY <2>1, <3>2, <5>1 DEF RootfsInv
      <4>2. InPackage(update, "BOOT") => \A p \in BootParts \ skipped : part[p] = update
        BY <2>1, <3>2 DEF BootInv
      <4>3. \A b \in Bootloaders : InPackage(update, b) => part[b] = update
        BY <2>1, <3>2 DEF LoaderInv
      <4> QED BY <1>1, <2>1, <3>1, <4>1, <4>2, <4>3 DEF SuccessInstalls, NextBoot
    <3> QED BY <3>3, <3>4, <3>5, <3>6, <3>7 DEF Progress
  <2> QED BY <2>1, <2>2, <2>3
<1>5. ASSUME CallerDeclines PROVE Progress'
  <2>1. pc' = "idle" /\ code' = code /\ header' = header
    BY <1>5 DEF CallerDeclines
  <2>2. StageInv' /\ RebootInv' /\ RootfsInv' /\ BootInv' /\ LoaderInv'
    BY <2>1 DEF StageInv, RebootInv, RootfsInv, BootInv, LoaderInv
  <2>3. RebootWhenNeeded' /\ SuccessInstalls'
    BY <1>1, <2>1 DEF RebootWhenNeeded, SuccessInstalls, NextBoot
  <2> QED BY <2>2, <2>3 DEF Progress
<1> QED BY <1>2, <1>3, <1>4, <1>5

\* The device boots, wanted or not.
LEMMA BootStep ==
  ASSUME IInv, CallerReboots \/ PowerCut
  PROVE  Progress' /\ NextBootBankSound'
<1>1. Boot
  BY DEF CallerReboots, PowerCut
<1>2. pc' = "idle" /\ code' # 0
  BY <1>1, ActivateAssumption DEF Boot, Codes
<1>3. NextBootBankSound'
  BY <1>1, StorageKept DEF Boot, storage, IInv
<1> QED BY <1>2, <1>3, Failed

\* Every step keeps the invariant.
LEMMA StepIInv == IInv /\ [Next]_vars => IInv'
<1> SUFFICES ASSUME IInv, [Next]_vars PROVE IInv'
  OBVIOUS
<1>1. TypeOK'
  BY TypeStep
<1>2. ASSUME UNCHANGED vars PROVE Progress' /\ NextBootBankSound'
  <2>1. NextBootBankSound' /\ NextBoot' = NextBoot
    BY <1>2 DEF IInv, vars, NextBootBankSound, NextBoot
  <2>2. StageInv' /\ RebootInv' /\ BootInv' /\ LoaderInv'
    BY <1>2 DEF IInv, vars, StageInv, RebootInv, BootInv, LoaderInv
  <2>3. RootfsInv' /\ RebootWhenNeeded' /\ SuccessInstalls'
    BY <1>2, <2>1 DEF IInv, vars, RootfsInv, RebootWhenNeeded, SuccessInstalls
  <2> QED BY <2>1, <2>2, <2>3 DEF Progress
<1>3. Progress' /\ NextBootBankSound'
  BY <1>2, BeginStep, EndsStep, DoneSteps, OpenStep, CopyStep, FlagStep, BootSteps, LoaderSteps,
     EndSteps, BootStep DEF Next
<1> QED BY <1>1, <1>3 DEF IInv, Progress, BanksDistinguished

LEMMA Invariance == BanksDistinguished /\ Spec => []IInv
<1> QED BY InitIInv, StepIInv, PTL DEF Spec

----------------------------------------------------------------------------
(* The steps of the script as steps of TwoBanks.                           *)

\* What the running rootfs handler has written, also when the storage fails.
WrittenInv == /\ pc = "copy" => bank[target] = Corrupt
              /\ pc = "flag" => bank[target] \in {update, Corrupt}

\* The steps that are not about the root file system.
LEMMA OtherSteps ==
  ASSUME Next, ~OpenTarget, ~copy_image_and_sync
  PROVE  /\ pc' \notin {"copy", "flag"}
         /\ bank' = bank /\ ioError' = ioError
         /\ \/ SetBootFlag
            \/ Boot
            \/ \E u \in Updates : update' = u /\ UNCHANGED <<rootfs2, mounted>>
            \/ UNCHANGED <<rootfs2, mounted, update>>
<1> USE DEF storage, device, script, history
<1>1. ASSUME NEW u \in Updates, Activate(u)
      PROVE  pc' = "setup" /\ update' = u /\ UNCHANGED <<bank, ioError, rootfs2, mounted>>
  BY <1>1 DEF Activate
<1>2. CASE SetUpPayloadTmpDir \/ TouchDoNotReboot \/ SwupdateEnds
  BY <1>2 DEF SetUpPayloadTmpDir, TouchDoNotReboot, SwupdateEnds, Exit
<1>3. CASE SetBootFlag
  BY <1>3 DEF SetBootFlag, HandlerFails, Exit
<1>4. CASE RemoveDoNotReboot \/ InstallApps
  BY <1>4 DEF RemoveDoNotReboot, InstallApps, HandlerDone, HandlerFails, Exit
<1>5. CASE UnpackBoot \/ EraseBootPart \/ CopyBootPart \/ BootPartDone
  BY <1>5 DEF UnpackBoot, EraseBootPart, CopyBootPart, BootPartDone, HandlerFails, Exit
<1>6. CASE StartBootloader \/ WriteBootloader
  BY <1>6 DEF StartBootloader, WriteBootloader, HandlerFails, Exit
<1>7. CASE OpenSavedHeader \/ save_header_or_die \/ RestartClient \/ CallerDeclines
  BY <1>7 DEF OpenSavedHeader, save_header_or_die, RestartClient, CallerDeclines, Exit
<1>8. CASE CallerReboots \/ PowerCut
  BY <1>8 DEF CallerReboots, PowerCut, Boot
<1> QED BY <1>1, <1>2, <1>3, <1>4, <1>5, <1>6, <1>7, <1>8 DEF Next

\* What the handler does to the banks.
LEMMA CopyOutcome ==
  ASSUME IInv, copy_image_and_sync
  PROVE  /\ UNCHANGED <<rootfs2, mounted, update, target>> /\ target = Other(mounted)
         /\ pc = "copy" /\ update \in Updates
         /\ \/ bank' = [bank EXCEPT ![target] = update] /\ ioError' = ioError
            \/ bank' = bank /\ ioError' = TRUE
  BY DEF copy_image_and_sync, HandlerFails, Exit, IInv, StageInv

LEMMA WrittenStep == IInv /\ WrittenInv /\ [Next]_vars => WrittenInv'
<1> SUFFICES ASSUME IInv, WrittenInv, [Next]_vars PROVE WrittenInv'
  OBVIOUS
<1>0. bank \in [Banks -> Content] /\ mounted \in Banks /\ Other(mounted) \in Banks
  BY OtherBank DEF IInv, TypeOK
<1>1. CASE OpenTarget
  <2>1. CASE pc' = "copy" /\ target' = Other(mounted)
             /\ bank' = [bank EXCEPT ![Other(mounted)] = Corrupt]
    BY <1>0, <2>1 DEF WrittenInv
  <2>2. CASE HandlerFails
    BY <2>2 DEF HandlerFails, Exit, WrittenInv
  <2> QED BY <1>1, <2>1, <2>2, OpenedIsOther
<1>2. CASE copy_image_and_sync
  <2>1. pc' # "copy"
    BY <1>2 DEF copy_image_and_sync, HandlerFails, Exit
  <2> QED BY <1>0, <1>2, <2>1, CopyOutcome DEF WrittenInv
<1>3. CASE UNCHANGED vars
  BY <1>3 DEF vars, WrittenInv
<1>4. CASE Next /\ ~OpenTarget /\ ~copy_image_and_sync
  BY <1>4, OtherSteps DEF WrittenInv
<1> QED BY <1>1, <1>2, <1>3, <1>4

\* Each step is a step of TwoBanks or leaves its variables alone.
LEMMA StagingStep ==
  IInv /\ WrittenInv /\ [Next]_vars => [Staging!Next]_(Staging!vars)
<1> SUFFICES ASSUME IInv, WrittenInv, [Next]_vars
             PROVE  Staging!Next \/ UNCHANGED Staging!vars
  OBVIOUS
<1>0. /\ bank \in [Banks -> Content] /\ mounted \in Banks /\ rootfs2 \in BOOLEAN
      /\ Other(mounted) \in Banks /\ Other(mounted) # mounted
  BY OtherBank DEF IInv, TypeOK
<1>1. NextBoot = mounted \/ NextBoot = Other(mounted)
  BY <1>0 DEF NextBoot, Other, Banks
<1>2. CASE OpenTarget
  <2>1. UNCHANGED <<rootfs2, mounted, update, ioError>>
    BY <1>2 DEF OpenTarget
  <2>2. NextBoot' = NextBoot
    BY <2>1 DEF NextBoot
  <2>3. CASE bank' = bank
    BY <2>1, <2>2, <2>3 DEF Staging!vars
  <2>4. CASE bank' = [bank EXCEPT ![Other(mounted)] = Corrupt]
    <3>1. bank'[mounted] = bank[mounted]
      BY <1>0, <2>4
    <3>2. CASE NextBoot = mounted
      BY <2>1, <2>2, <3>1, <3>2 DEF Staging!vars
    <3>3. CASE NextBoot = Other(mounted)
      <4>1. bank'[NextBoot] = Corrupt /\ NextBoot # mounted
        BY <1>0, <2>4, <3>3
      <4>2. Staging!Spoil
        BY <2>1, <2>2, <3>1, <4>1 DEF Staging!Spoil
      <4> QED BY <4>2 DEF Staging!Next
    <3> QED BY <1>1, <3>2, <3>3
  <2> QED BY <1>2, <2>3, <2>4, OpenedIsOther
<1>3. CASE copy_image_and_sync
  <2>1. /\ UNCHANGED <<rootfs2, mounted, update>> /\ update # None
        /\ \/ bank' = [bank EXCEPT ![Other(mounted)] = update] /\ ioError' = ioError
           \/ bank' = bank /\ ioError' = TRUE
    BY <1>3, CopyOutcome, ActivateAssumption
  <2>2. NextBoot' = NextBoot
    BY <2>1 DEF NextBoot
  <2>3. CASE bank' = bank /\ ioError' = TRUE
    <3>1. Staging!Fail
      BY <2>1, <2>2, <2>3 DEF Staging!Fail
    <3> QED BY <3>1 DEF Staging!Next
  <2>4. CASE bank' = [bank EXCEPT ![Other(mounted)] = update] /\ ioError' = ioError
    <3>1. bank'[mounted] = bank[mounted]
      BY <1>0, <2>4
    <3>2. CASE NextBoot = mounted
      BY <2>1, <2>2, <2>4, <3>1, <3>2 DEF Staging!vars
    <3>3. CASE NextBoot = Other(mounted)
      <4>1. bank'[NextBoot] = update /\ NextBoot # mounted
        BY <1>0, <2>4, <3>3
      <4>2. Staging!Stage
        BY <2>1, <2>2, <2>4, <3>1, <4>1 DEF Staging!Stage
      <4> QED BY <4>2 DEF Staging!Next
    <3> QED BY <1>1, <3>2, <3>3
  <2> QED BY <2>1, <2>3, <2>4
<1>4. CASE SetBootFlag
  <2>1. /\ UNCHANGED <<bank, mounted, update, ioError>>
        /\ pc = "flag" /\ target = Other(mounted) /\ update \in Updates
    BY <1>4 DEF SetBootFlag, HandlerFails, Exit, storage, history, IInv, StageInv
  <2>2. NextBoot' = NextBoot \/ NextBoot' = Other(mounted)
    BY <1>0, <1>4, <2>1, FlagOutcome DEF NextBoot, Other, Banks, IInv
  <2>3. CASE NextBoot' = NextBoot
    BY <2>1, <2>3 DEF Staging!vars
  <2>4. CASE NextBoot' = Other(mounted)
    <3>1. bank[Other(mounted)] = update \/ (ioError /\ bank[Other(mounted)] = Corrupt)
      <4>1. ~ioError => bank[Other(mounted)] = update
        BY <2>1 DEF IInv, RootfsInv
      <4> QED BY <2>1, <4>1 DEF WrittenInv
    <3>2. update # None
      BY <2>1, ActivateAssumption
    <3>3. (NextBoot' # mounted') = TRUE
      BY <1>0, <2>1, <2>4
    <3>4. Staging!Stage
      BY <2>1, <2>4, <3>1, <3>2, <3>3 DEF Staging!Stage
    <3> QED BY <3>4 DEF Staging!Next
  <2> QED BY <2>2, <2>3, <2>4
<1>5. CASE Boot
  <2>1. /\ UNCHANGED <<bank, rootfs2, ioError>> /\ mounted' = NextBoot /\ update' = None
    BY <1>5 DEF Boot, storage
  <2>2. NextBoot' = NextBoot
    BY <2>1 DEF NextBoot
  <2>3. (NextBoot' # mounted') = FALSE
    BY <2>1, <2>2
  <2>4. Staging!Boot
    BY <2>1, <2>2, <2>3 DEF Staging!Boot
  <2> QED BY <2>4 DEF Staging!Next
<1>6. CASE UNCHANGED <<bank, rootfs2, mounted, ioError>> /\ \E u \in Updates : update' = u
  <2>1. NextBoot' = NextBoot
    BY <1>6 DEF NextBoot
  <2>2. PICK u \in Updates : Staging!Ask(u)
    BY <1>6, <2>1 DEF Staging!Ask
  <2> QED BY <2>2 DEF Staging!Next
<1>7. CASE UNCHANGED <<bank, rootfs2, mounted, ioError, update>>
  <2>1. NextBoot' = NextBoot
    BY <1>7 DEF NextBoot
  <2> QED BY <1>7, <2>1 DEF Staging!vars
<1>8. CASE UNCHANGED vars
  BY <1>7, <1>8 DEF vars
<1> QED BY <1>2, <1>3, <1>4, <1>5, <1>6, <1>7, <1>8, OtherSteps

\* What the handler writes, whatever the numbers of the banks are.
MountInv == /\ bank = [b \in Banks |-> bank[b]]
            /\ mounted \in Banks
            /\ pc = "copy" => target = Target(mounted)

----------------------------------------------------------------------------
(* Theorems.                                                               *)

\* Every variable of the activation keeps its type, whatever fails and wherever
\* the power is cut.
THEOREM TypeCorrect == BanksDistinguished /\ Spec => []TypeOK
<1>1. IInv => TypeOK
  BY DEF IInv
<1> QED BY <1>1, Invariance, PTL

\* The bank of the next boot holds a complete root file system at every moment:
\* rootfsv4_handler writes the other bank first and moves the flag afterwards.
THEOREM PowerCutSafe == BanksDistinguished /\ Spec => []NextBootBankSound
<1>1. IInv => NextBootBankSound
  BY DEF IInv
<1> QED BY <1>1, Invariance, PTL

\* After a successful activation of a component that takes a reboot the file
\* do_not_reboot is gone, whatever order the package has its components in.
THEOREM RebootNotForgotten == BanksDistinguished /\ Spec => []RebootWhenNeeded
<1>1. IInv => RebootWhenNeeded
  BY DEF IInv
<1> QED BY <1>1, Invariance, PTL

\* Exit code 0 of arm_update_activate.sh means that everything in the package is
\* in its place, unless the storage failed.
THEOREM SuccessSound == BanksDistinguished /\ Spec => []SuccessInstalls
<1>1. IInv => SuccessInstalls
  BY DEF IInv
<1> QED BY <1>1, Invariance, PTL

\* Whatever the partition numbers are, the mounted root file system is written only
\* where find_target_partition mistakes the mounted bank for the other.  By
\* TargetIsOther this is exactly when bank 2 is mounted and its number ends with that
\* of bank 1.
THEOREM MountedNotWritten == Spec => MountedBankKept
<1>1. Init => MountInv
  BY DEF Init, MountInv, Banks
<1>2. MountInv /\ [Next]_vars => MountInv' /\ [MountedMistaken \/ bank'[mounted] = bank[mounted]]_vars
  <2> SUFFICES ASSUME MountInv, Next
               PROVE  MountInv' /\ (MountedMistaken \/ bank'[mounted] = bank[mounted])
    <3>1. ASSUME UNCHANGED vars, MountInv PROVE MountInv'
      BY <3>1 DEF vars, MountInv
    <3> QED BY <3>1
  <2>0. /\ bank = [b \in Banks |-> bank[b]] /\ mounted \in Banks
        /\ pc = "copy" => target = Target(mounted)
    BY DEF MountInv
  <2>1. Target(mounted) \in Banks /\ (Target(mounted) = mounted => MountedMistaken)
    BY <2>0, TargetIsOther DEF MountedMistaken
  <2>2. CASE OpenTarget
    <3>1. mounted' = mounted
      BY <2>2 DEF OpenTarget
    <3>2. CASE HandlerFails /\ bank' = bank
      BY <2>0, <3>1, <3>2 DEF HandlerFails, Exit, MountInv
    <3>3. CASE pc' = "copy" /\ target' = Target(mounted)
               /\ bank' = [bank EXCEPT ![Target(mounted)] = Corrupt]
      BY <2>0, <2>1, <3>1, <3>3 DEF MountInv
    <3> QED BY <2>0, <2>2, <3>2, <3>3, OpenedIsTarget
  <2>3. CASE copy_image_and_sync
    <3>1. /\ mounted' = mounted /\ target = Target(mounted) /\ pc' # "copy"
          /\ bank' = [bank EXCEPT ![target] = update] \/ bank' = bank
      BY <2>0, <2>3 DEF copy_image_and_sync, HandlerFails, Exit
    <3> QED BY <2>0, <2>1, <3>1 DEF MountInv
  <2>4. CASE ~OpenTarget /\ ~copy_image_and_sync
    <3>1. pc' # "copy" /\ bank' = bank
      BY <2>4, OtherSteps
    <3>2. mounted' = mounted \/ mounted' \in Banks
      BY <2>4, OtherSteps DEF SetBootFlag, Boot, NextBoot, Banks
    <3> QED BY <2>0, <3>1, <3>2 DEF MountInv
  <2> QED BY <2>2, <2>3, <2>4
<1> QED BY <1>1, <1>2, PTL DEF Spec, MountedBankKept

\* The device runs a complete system until it boots into the next, which is the
\* one it ran or the one that was asked for: the banks, the flag and the order of
\* the steps implement TwoBanks, for any packages and any partition numbers that
\* tell the banks apart.
THEOREM ImplementsTwoBanks == BanksDistinguished /\ Spec => StagesWhole
<1>1. Init => Staging!Init
  <2> SUFFICES ASSUME Init PROVE Staging!Init
    OBVIOUS
  <2>1. NextBoot = "bank1" /\ mounted = "bank1" /\ bank["bank1"] = Factory
    BY DEF Init, NextBoot, Banks
  <2> QED BY <2>1 DEF Init, Staging!Init
<1>2. Init => WrittenInv
  BY DEF Init, WrittenInv
<1>3. BanksDistinguished /\ Spec => []WrittenInv
  BY <1>2, WrittenStep, Invariance, PTL DEF Spec
<1> QED BY <1>1, <1>3, StagingStep, Invariance, PTL DEF Spec, StagesWhole, Staging!Spec

=============================================================================
