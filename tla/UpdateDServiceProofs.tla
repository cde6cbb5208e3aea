----------------------- MODULE UpdateDServiceProofs -------------------------
(***************************************************************************)
(* Proofs about the processes of the update service, for any daemons and   *)
(* clients, any command lines and any number of cleanings of /tmp.         *)
(***************************************************************************)
EXTENDS UpdateDService, TLAPS

----------------------------------------------------------------------------
(* The inductive invariant.                                                *)

\* What the steps need to know of the variables.
Shape ==
  /\ DOMAIN dpc = Daemons /\ DOMAIN inode = Daemons /\ DOMAIN header = Daemons
  /\ DOMAIN cpc = Clients /\ DOMAIN kind = Clients /\ DOMAIN request = Clients
  /\ DOMAIN to = Clients /\ DOMAIN reply = Clients /\ DOMAIN code = Clients
  /\ DOMAIN output = Clients /\ DOMAIN since = Clients
  /\ current \in Nat
  /\ written \in Seq(Range(written))

\* A daemon that tries the lock or is past it has opened one of the lock files
\* there have been.
LockInv ==
  \A d \in Daemons :
    dpc[d] \in {"lock", "init", "ready", "serving"} => inode[d] \in 0..current

\* A HEADER is in the memory of a daemon that serves.  With a single lock file that
\* is the last one assigned: its daemon has been alone since.
HeaderInv ==
  \A d \in Daemons : header[d] # Empty =>
    /\ dpc[d] = "serving"
    /\ current = 0 => Len(written) >= 1 /\ header[d] = written[Len(written)]

\* A request has a path and a HEADER, and its payload was there when the client
\* looked.
PayloadInv ==
  \A c \in Clients : kind[c] = "start" /\ cpc[c] \in {"call", "sent", "started"} =>
    /\ request[c].path # Empty /\ request[c].header # Empty
    /\ request[c].path[1] \in files \cup removed

\* An answer without an error tells the truth.
AnswerInv ==
  \A c \in Clients : cpc[c] = "served" /\ reply[c].status = "OK" =>
    /\ kind[c] = "start" => c \in taken
    /\ kind[c] = "status" /\ reply[c].header \notin {Empty, Torn} /\ current = 0 =>
         \E n \in 1..Len(written) : n >= since[c] /\ written[n] = reply[c].header

\* A client has an exit code when it has exited, a program when it has started.
ClientInv ==
  \A c \in Clients :
    /\ cpc[c] = "off" => kind[c] = None
    /\ cpc[c] # "exited" => code[c] = None
    /\ since[c] \in 0..Len(written)

IInv == /\ Shape
        /\ LockInv /\ OneInstancePerLockFile
        /\ HeaderInv /\ PayloadInv /\ AnswerInv /\ ClientInv

LEMMA InitIInv == Init => IInv
<1> SUFFICES ASSUME Init PROVE IInv
  OBVIOUS
<1>1. Shape
  BY DEF Init, Shape
<1>2. LockInv /\ OneInstancePerLockFile /\ HeaderInv
  BY DEF Init, LockInv, OneInstancePerLockFile, HeaderInv, Holding
<1>3. PayloadInv /\ AnswerInv /\ ClientInv
  BY DEF Init, PayloadInv, AnswerInv, ClientInv
<1> QED BY <1>1, <1>2, <1>3 DEF IInv

DaemonSound == LockInv /\ OneInstancePerLockFile /\ HeaderInv

ClientSound == PayloadInv /\ AnswerInv /\ ClientInv

\* A step of the daemons leaves the clients alone, and a step of the clients the
\* daemons.
LEMMA ClientsKept ==
  ASSUME IInv, UNCHANGED <<client, env, written, taken>>
  PROVE  ClientSound'
<1>1. UNCHANGED <<cpc, kind, request, to, reply, code, output, since, current, files, removed,
                  written, taken>>
  BY DEF client, env
<1> QED BY <1>1 DEF IInv, ClientSound, PayloadInv, AnswerInv, ClientInv

LEMMA DaemonsKept ==
  ASSUME IInv, UNCHANGED <<daemon, current, written>>
  PROVE  DaemonSound'
<1>1. UNCHANGED <<dpc, inode, header, current, written>>
  BY DEF daemon
<1> QED BY <1>1 DEF IInv, DaemonSound, LockInv, OneInstancePerLockFile, HeaderInv, Holding

\* A daemon that ends gives up its lock and its HEADER.
LEMMA DieStep ==
  ASSUME IInv, NEW d \in Daemons, NEW how \in {"exited", "terminated"}, Die(d, how),
         UNCHANGED <<current, written>>
  PROVE  /\ DaemonSound'
         /\ DOMAIN dpc' = Daemons /\ DOMAIN inode' = Daemons /\ DOMAIN header' = Daemons
<1>1. /\ DOMAIN dpc = Daemons /\ DOMAIN inode = Daemons /\ DOMAIN header = Daemons
      /\ dpc' = [dpc EXCEPT ![d] = how] /\ inode' = [inode EXCEPT ![d] = None]
      /\ header' = [header EXCEPT ![d] = Empty]
  BY DEF IInv, Shape, Die
<1>2. LockInv'
  BY <1>1 DEF IInv, LockInv
<1>3. OneInstancePerLockFile'
  BY <1>1 DEF IInv, OneInstancePerLockFile, Holding
<1>4. HeaderInv'
  BY <1>1 DEF IInv, HeaderInv
<1> QED BY <1>1, <1>2, <1>3, <1>4 DEF DaemonSound

\* A daemon goes on to its next step; at the lock, when nobody holds it.
LEMMA GoesOn ==
  ASSUME IInv, NEW d \in Daemons, NEW s \in {"open", "lock", "init", "ready", "serving"},
         dpc' = [dpc EXCEPT ![d] = s], UNCHANGED <<header, current, written>>, dpc[d] # "serving",
         \/ s = "open" /\ inode' = inode
         \/ s = "lock" /\ inode' = [inode EXCEPT ![d] = current]
         \/ /\ s = "init" /\ inode' = inode /\ dpc[d] = "lock"
            /\ \A e \in Daemons \ {d} : Holding(e) => inode[e] # inode[d]
         \/ s = "ready" /\ inode' = inode /\ dpc[d] = "init"
         \/ s = "serving" /\ inode' = inode /\ dpc[d] = "ready"
  PROVE  /\ DaemonSound'
         /\ DOMAIN dpc' = Daemons /\ DOMAIN inode' = Daemons
<1>1. DOMAIN dpc = Daemons /\ DOMAIN inode = Daemons /\ current \in Nat
  BY DEF IInv, Shape
<1>2. LockInv'
  BY <1>1 DEF IInv, LockInv
<1>3. OneInstancePerLockFile'
  BY <1>1 DEF IInv, OneInstancePerLockFile, Holding
<1>4. HeaderInv'
  BY <1>1 DEF IInv, HeaderInv
<1> QED BY <1>1, <1>2, <1>3, <1>4 DEF DaemonSound

\* The daemons start, take the lock, open the server and are killed.
LEMMA DaemonSteps ==
  ASSUME IInv, NEW d \in Daemons,
         \/ \E args \in DaemonLines[d] : StartDaemon(d, args)
         \/ OpenLock(d) \/ TryLock(d) \/ Initialise(d) \/ create_grpc_server(d) \/ Kill(d)
  PROVE  IInv'
<1>1. UNCHANGED <<client, env, written, taken>>
  BY DEF StartDaemon, OpenLock, TryLock, Initialise, create_grpc_server, Kill
<1>2. /\ DaemonSound'
      /\ DOMAIN dpc' = Daemons /\ DOMAIN inode' = Daemons /\ DOMAIN header' = Daemons
  <2>0. current' = current /\ written' = written /\ DOMAIN header = Daemons
    BY <1>1 DEF env, IInv, Shape
  <2>1. ASSUME NEW how \in {"exited", "terminated"}, Die(d, how)
        PROVE  /\ DaemonSound'
               /\ DOMAIN dpc' = Daemons /\ DOMAIN inode' = Daemons /\ DOMAIN header' = Daemons
    BY <2>0, <2>1, DieStep
  <2>2. CASE \E args \in DaemonLines[d] : StartDaemon(d, args)
    <3>1. \/ Die(d, "exited")
          \/ /\ dpc[d] = "off" /\ dpc' = [dpc EXCEPT ![d] = "open"] /\ UNCHANGED <<inode, header>>
      BY <2>2 DEF StartDaemon
    <3> QED BY <2>0, <2>1, <3>1, GoesOn
  <2>3. CASE OpenLock(d)
    BY <2>0, <2>1, <2>3, GoesOn DEF OpenLock
  <2>4. CASE TryLock(d)
    BY <2>0, <2>1, <2>4, GoesOn DEF TryLock
  <2>5. CASE Initialise(d)
    BY <2>0, <2>1, <2>5, GoesOn DEF Initialise
  <2>6. CASE create_grpc_server(d)
    BY <2>0, <2>1, <2>6, GoesOn DEF create_grpc_server
  <2>7. CASE Kill(d)
    BY <2>1, <2>7 DEF Kill
  <2> QED BY <2>2, <2>3, <2>4, <2>5, <2>6, <2>7
<1>3. Shape'
  BY <1>1, <1>2 DEF IInv, Shape, client, env
<1> QED BY <1>1, <1>2, <1>3, ClientsKept DEF IInv, DaemonSound, ClientSound

\* A client exits.
LEMMA ExitStep ==
  ASSUME IInv, NEW c \in Clients, NEW n, NEW o, ExitClient(c, n, o),
         NEW k \in {"start", "status"}, kind' \in {kind, [kind EXCEPT ![c] = k]},
         UNCHANGED <<daemon, env, written>>
  PROVE  IInv'
<1>1. Shape'
  BY DEF IInv, Shape, daemon, env, ExitClient
<1>2. /\ cpc' = [cpc EXCEPT ![c] = "exited"] /\ \A b \in Clients \ {c} : kind'[b] = kind[b]
      /\ \A b \in Clients \ {c} : /\ request'[b] = request[b] /\ reply'[b] = reply[b]
                                  /\ code'[b] = code[b] /\ since'[b] = since[b]
      /\ since'[c] = 0 /\ cpc'[c] = "exited" /\ \A b \in Clients \ {c} : cpc'[b] = cpc[b]
      /\ \A b \in Clients \ {c} : b \in taken' <=> b \in taken
  BY DEF ExitClient, IInv, Shape
<1>3. files' = files /\ removed' = removed /\ current' = current /\ written' = written
  BY DEF env
<1>4. Len(written) \in Nat
  BY DEF IInv, Shape
<1>5. PayloadInv' /\ AnswerInv'
  BY <1>2, <1>3 DEF IInv, PayloadInv, AnswerInv
<1>6. ClientInv'
  BY <1>2, <1>3, <1>4 DEF IInv, ClientInv
<1>7. DaemonSound'
  BY <1>3, DaemonsKept
<1> QED BY <1>1, <1>5, <1>6, <1>7 DEF IInv, DaemonSound

\* The clients start, call, get their answer and exit.
LEMMA ClientSteps ==
  ASSUME IInv, NEW c \in Clients,
         \/ \E args \in ClientLines[c] : RunStartUpdate(c, args)
         \/ RunGetStatus(c) \/ ClientStep(c)
  PROVE  IInv'
<1>0. UNCHANGED <<daemon, env, written>>
  BY DEF RunStartUpdate, RunGetStatus, ClientStep, Call, StartUpdateReturns, GetStatusReturns
<1>u. /\ current' = current /\ files' = files /\ removed' = removed /\ written' = written
      /\ UNCHANGED <<dpc, inode, header>> /\ Shape /\ Len(written) \in Nat
  BY <1>0 DEF env, daemon, IInv, Shape
<1>d. DaemonSound'
  BY <1>0, <1>u, DaemonsKept
<1>1. CASE StartUpdateReturns(c) \/ GetStatusReturns(c)
  BY <1>0, <1>1, ExitStep DEF StartUpdateReturns, GetStatusReturns
<1>2. ASSUME NEW args \in ClientLines[c], RunStartUpdate(c, args) PROVE IInv'
  <2>1. \/ \E n, o : ExitClient(c, n, o)
        \/ \E r : /\ r.path # Empty /\ r.header # Empty /\ r.path[1] \in files
                  /\ request' = [request EXCEPT ![c] = [path |-> r.path, header |-> r.header]]
                  /\ cpc' = [cpc EXCEPT ![c] = "call"]
                  /\ UNCHANGED <<to, reply, code, output, since, taken>>
    <3>1. ASSUME client_parse_args(args).end = "no"
          PROVE  /\ client_parse_args(args).path # Empty /\ client_parse_args(args).header # Empty
                 /\ client_parse_args(args).path[1] \in files
      BY <3>1 DEF client_parse_args
    <3> QED BY <1>2, <3>1 DEF RunStartUpdate
  <2>2. kind' = [kind EXCEPT ![c] = "start"] /\ cpc[c] = "off"
    BY <1>2 DEF RunStartUpdate
  <2>3. CASE \E n, o : ExitClient(c, n, o)
    BY <1>0, <2>2, <2>3, ExitStep
  <2>4. ASSUME NEW r, r.path # Empty, r.header # Empty, r.path[1] \in files,
               request' = [request EXCEPT ![c] = [path |-> r.path, header |-> r.header]],
               cpc' = [cpc EXCEPT ![c] = "call"],
               UNCHANGED <<to, reply, code, output, since, taken>>
        PROVE  IInv'
    <3>1. Shape'
      BY <1>u, <2>2, <2>4 DEF Shape
    <3>2. /\ request'[c].path # Empty /\ request'[c].header # Empty
          /\ request'[c].path[1] \in files /\ cpc'[c] = "call"
      BY <1>u, <2>4 DEF Shape
    <3>3. PayloadInv'
      BY <1>u, <2>2, <2>4, <3>2 DEF Shape, IInv, PayloadInv
    <3>4. AnswerInv'
      BY <1>u, <2>2, <2>4, <3>2 DEF Shape, IInv, AnswerInv
    <3>5. ClientInv'
      BY <1>u, <2>2, <2>4, <3>2 DEF Shape, IInv, ClientInv
    <3> QED BY <1>d, <3>1, <3>3, <3>4, <3>5 DEF IInv, DaemonSound
  <2> QED BY <2>1, <2>3, <2>4
<1>3. CASE RunGetStatus(c)
  <2>1. /\ kind' = [kind EXCEPT ![c] = "status"] /\ cpc' = [cpc EXCEPT ![c] = "call"]
        /\ since' = [since EXCEPT ![c] = Len(written)] /\ cpc[c] = "off"
        /\ UNCHANGED <<request, to, reply, code, output, taken>>
    BY <1>3 DEF RunGetStatus
  <2>2. Shape'
    BY <1>u, <2>1 DEF Shape
  <2>3. PayloadInv' /\ AnswerInv'
    BY <1>u, <2>1 DEF Shape, IInv, PayloadInv, AnswerInv
  <2>4. ClientInv'
    BY <1>u, <2>1 DEF Shape, IInv, ClientInv
  <2> QED BY <1>d, <2>2, <2>3, <2>4 DEF IInv, DaemonSound
<1>4. CASE Call(c)
  <2>1. /\ UNCHANGED <<kind, request, reply, code, output, since, taken>>
        /\ cpc' = [cpc EXCEPT ![c] = "sent"] /\ cpc[c] = "call" /\ DOMAIN to' = Clients
    BY <1>4, <1>u DEF Call, Shape
  <2>2. Shape'
    BY <1>u, <2>1 DEF Shape
  <2>3. PayloadInv'
    BY <1>u, <2>1 DEF Shape, IInv, PayloadInv
  <2>4. AnswerInv' /\ ClientInv'
    BY <1>u, <2>1 DEF Shape, IInv, AnswerInv, ClientInv
  <2> QED BY <1>d, <2>2, <2>3, <2>4 DEF IInv, DaemonSound
<1> QED BY <1>1, <1>2, <1>3, <1>4 DEF ClientStep

\* The daemon answers updated-get-status.
LEMMA HeaderStep ==
  ASSUME IInv, NEW d \in Daemons, NEW c \in Clients, GetUpdateHeader(d, c)
  PROVE  IInv'
<1>1. PICK h \in {header[d], Torn} :
        /\ cpc[c] = "sent" /\ kind[c] = "status" /\ cpc' = [cpc EXCEPT ![c] = "served"]
        /\ reply' = [reply EXCEPT ![c] = Reply("OK", "SUCCESS", h)]
        /\ UNCHANGED <<kind, request, to, code, output, since, dpc, inode, header, current, files,
                       removed, written, taken>>
        /\ UNCHANGED <<daemon, current, written>>
  BY DEF GetUpdateHeader, Served, daemon, env
<1>2. Shape /\ Len(written) \in Nat
  BY DEF IInv, Shape
<1>3. Shape'
  BY <1>1, <1>2 DEF Shape
<1>4. PayloadInv' /\ ClientInv'
  BY <1>1, <1>2 DEF Shape, IInv, PayloadInv, ClientInv
<1>5. AnswerInv'
  <2>1. ASSUME NEW b \in Clients \ {c}
        PROVE  cpc'[b] = cpc[b] /\ reply'[b] = reply[b]
    BY <1>1, <1>2 DEF Shape
  <2>2. reply'[c].header = h
    BY <1>1, <1>2 DEF Shape, Reply
  <2>3. ASSUME h \notin {Empty, Torn}, current = 0
        PROVE  \E n \in 1..Len(written) : n >= since[c] /\ written[n] = h
    <3>1. /\ Len(written) >= 1 /\ h = written[Len(written)] /\ since[c] \in 0..Len(written)
      BY <2>3 DEF IInv, HeaderInv, ClientInv
    <3>2. Len(written) \in 1..Len(written) /\ Len(written) >= since[c]
      BY <1>2, <3>1
    <3> QED BY <3>1, <3>2
  <2> QED BY <1>1, <1>2, <2>1, <2>2, <2>3 DEF IInv, AnswerInv
<1>6. DaemonSound'
  BY <1>1, DaemonsKept
<1> QED BY <1>3, <1>4, <1>5, <1>6 DEF IInv, DaemonSound

\* A sequence grows at its end.
LEMMA Grows ==
  ASSUME NEW s, s \in Seq(Range(s)), NEW x
  PROVE  /\ Append(s, x) \in Seq(Range(Append(s, x)))
         /\ Len(s) \in Nat /\ Len(Append(s, x)) = Len(s) + 1
         /\ Append(s, x)[Len(s) + 1] = x
         /\ \A n \in 1..Len(s) : Append(s, x)[n] = s[n]
<1> DEFINE S == Range(s) \cup {x}  t == Append(s, x)
<1>1. s \in Seq(S) /\ x \in S
  OBVIOUS
<1> HIDE DEF S
<1>2. /\ t \in Seq(S) /\ Len(s) \in Nat /\ Len(t) = Len(s) + 1 /\ t[Len(s) + 1] = x
      /\ \A n \in 1..Len(s) : t[n] = s[n]
  BY <1>1
<1> HIDE DEF t
<1>3. t \in Seq(Range(t))
  <2>1. t \in [1..Len(t) -> S] /\ Len(t) \in Nat
    BY <1>2
  <2>2. t \in [1..Len(t) -> Range(t)]
    BY <2>1 DEF Range
  <2> QED BY <2>1, <2>2
<1> QED BY <1>2, <1>3 DEF t

\* The handler of a request ends its daemon.
LEMMA HandlerDies ==
  ASSUME IInv, NEW d \in Daemons, Die(d, "terminated"), UNCHANGED <<client, env, written, taken>>
  PROVE  IInv'
<1>1. current' = current
  BY DEF env
<1>2. /\ DaemonSound'
      /\ DOMAIN dpc' = Daemons /\ DOMAIN inode' = Daemons /\ DOMAIN header' = Daemons
  BY <1>1, DieStep
<1>3. Shape'
  BY <1>1, <1>2 DEF IInv, Shape, client
<1>4. ClientSound'
  BY ClientsKept
<1> QED BY <1>2, <1>3, <1>4 DEF IInv, DaemonSound, ClientSound

\* The daemon assigns the HEADER: with a single lock file no other daemon has one.
LEMMA StartStep ==
  ASSUME IInv, NEW d \in Daemons, NEW c \in Clients, StartUpdate(d, c)
  PROVE  IInv'
<1>0. Shape /\ Len(written) \in Nat /\ dpc[d] = "serving" /\ cpc[c] = "sent" /\ kind[c] = "start"
  BY DEF IInv, Shape, StartUpdate, Starting
<1>e. current' = current /\ files' = files /\ removed' = removed /\ taken' = taken
  BY DEF StartUpdate, env
<1>1. ASSUME Die(d, "terminated"), UNCHANGED <<client, written>> PROVE IInv'
  BY <1>1, HandlerDies DEF StartUpdate
<1>2. ASSUME Served(c, Failure("CANCELLED")), UNCHANGED <<daemon, written>> PROVE IInv'
  <2>1. /\ cpc' = [cpc EXCEPT ![c] = "served"]
        /\ reply' = [reply EXCEPT ![c] = Failure("CANCELLED")]
        /\ UNCHANGED <<kind, request, to, code, output, since, dpc, inode, header>>
        /\ written' = written
    BY <1>2 DEF Served, daemon
  <2>2. Failure("CANCELLED").status # "OK"
    BY DEF Failure, Reply
  <2>3. Shape'
    BY <1>0, <1>e, <2>1 DEF Shape
  <2>4. PayloadInv' /\ ClientInv'
    BY <1>0, <1>e, <2>1 DEF Shape, IInv, PayloadInv, ClientInv
  <2>5. AnswerInv'
    BY <1>0, <1>e, <2>1, <2>2 DEF Shape, IInv, AnswerInv
  <2>6. DaemonSound'
    BY <1>2, <1>e, DaemonsKept
  <2> QED BY <2>3, <2>4, <2>5, <2>6 DEF IInv, DaemonSound
<1>3. ASSUME header' = [header EXCEPT ![d] = request[c].header],
             written' = Append(written, request[c].header),
             cpc' = [cpc EXCEPT ![c] = "started"],
             UNCHANGED <<dpc, inode, kind, request, to, reply, code, output, since>>
      PROVE  IInv'
  <2>1. /\ cpc' = [cpc EXCEPT ![c] = "started"] /\ taken' = taken
        /\ UNCHANGED <<kind, request, to, reply, code, output, since, dpc, inode>>
    BY <1>3, <1>e
  <2>2. /\ written' \in Seq(Range(written')) /\ Len(written') = Len(written) + 1
        /\ written'[Len(written')] = request[c].header
        /\ \A n \in 1..Len(written) : written'[n] = written[n]
    BY <1>0, <1>3, Grows DEF Shape
  <2>3. Shape'
    BY <1>0, <1>3, <1>e, <2>1, <2>2 DEF Shape
  <2>4. 1..Len(written) \subseteq 1..Len(written') /\ Len(written') \in 1..Len(written')
        /\ 0..Len(written) \subseteq 0..Len(written') /\ Len(written') >= 1
    BY <1>0, <2>2
  <2>5. PayloadInv'
    BY <1>0, <1>e, <2>1 DEF Shape, IInv, PayloadInv
  <2>6. ClientInv'
    BY <1>0, <1>e, <2>1, <2>4 DEF Shape, IInv, ClientInv
  <2>7. AnswerInv'
    <3>1. ASSUME NEW b \in Clients, cpc'[b] = "served", reply[b].status = "OK"
          PROVE  /\ kind[b] = "start" => b \in taken
                 /\ kind[b] = "status" /\ reply[b].header \notin {Empty, Torn} /\ current = 0 =>
                      \E n \in 1..Len(written') : n >= since[b] /\ written'[n] = reply[b].header
      <4>1. cpc[b] = "served"
        BY <1>0, <2>1, <3>1 DEF Shape
      <4>2. /\ kind[b] = "start" => b \in taken
            /\ kind[b] = "status" /\ reply[b].header \notin {Empty, Torn} /\ current = 0 =>
                 \E n \in 1..Len(written) : n >= since[b] /\ written[n] = reply[b].header
        BY <3>1, <4>1 DEF IInv, AnswerInv
      <4> QED BY <2>2, <2>4, <4>2
    <3> QED BY <1>e, <2>1, <3>1 DEF AnswerInv
  <2>8. LockInv' /\ OneInstancePerLockFile'
    BY <1>e, <2>1 DEF IInv, LockInv, OneInstancePerLockFile, Holding
  <2>9. HeaderInv'
    <3>1. ASSUME NEW e \in Daemons \ {d}, header[e] # Empty PROVE current # 0
      <4>1. dpc[e] = "serving"
        BY <3>1 DEF IInv, HeaderInv
      <4>2. inode[e] # inode[d] /\ inode[e] \in 0..current /\ inode[d] \in 0..current
        BY <1>0, <4>1 DEF IInv, OneInstancePerLockFile, LockInv, Holding
      <4>3. current \in Nat
        BY <1>0 DEF Shape
      <4> QED BY <4>2, <4>3
    <3>2. header'[d] = request[c].header /\ \A e \in Daemons \ {d} : header'[e] = header[e]
      BY <1>0, <1>3 DEF Shape
    <3> QED BY <1>0, <1>e, <2>1, <2>2, <2>4, <3>1, <3>2 DEF IInv, HeaderInv
  <2> QED BY <2>3, <2>5, <2>6, <2>7, <2>8, <2>9 DEF IInv
<1> QED BY <1>1, <1>2, <1>3 DEF StartUpdate

\* The daemon links the payload and has taken on the request.
LEMMA LinkStep ==
  ASSUME IInv, NEW d \in Daemons, NEW c \in Clients, LinkPayload(d, c)
  PROVE  IInv'
<1>1. CASE Die(d, "terminated") /\ UNCHANGED <<client, taken>>
  BY <1>1, HandlerDies DEF LinkPayload
<1>2. CASE Served(c, Reply("OK", "SUCCESS", Empty)) /\ taken' = taken \cup {c} /\ UNCHANGED daemon
  <2>1. /\ cpc' = [cpc EXCEPT ![c] = "served"] /\ cpc[c] = "started" /\ kind[c] = "start"
        /\ reply' = [reply EXCEPT ![c] = Reply("OK", "SUCCESS", Empty)]
        /\ UNCHANGED <<kind, request, to, code, output, since, dpc, inode, header, current, files,
                       removed, written>>
        /\ UNCHANGED <<daemon, current, written>>
    BY <1>2 DEF LinkPayload, Starting, Served, daemon, env
  <2>2. Shape
    BY DEF IInv
  <2>3. Shape'
    BY <2>1, <2>2 DEF Shape
  <2>4. PayloadInv' /\ ClientInv'
    BY <2>1, <2>2 DEF Shape, IInv, PayloadInv, ClientInv
  <2>5. AnswerInv'
    <3>1. ASSUME NEW b \in Clients \ {c}
          PROVE  cpc'[b] = cpc[b] /\ reply'[b] = reply[b] /\ (b \in taken => b \in taken')
      BY <1>2, <2>1, <2>2 DEF Shape
    <3>2. c \in taken' /\ kind[c] # "status"
      BY <1>2, <2>1
    <3> QED BY <2>1, <3>1, <3>2 DEF IInv, AnswerInv
  <2>6. DaemonSound'
    BY <2>1, DaemonsKept
  <2> QED BY <2>3, <2>4, <2>5, <2>6 DEF IInv, DaemonSound
<1> QED BY <1>1, <1>2 DEF LinkPayload

\* A payload is removed or its file system fails, /tmp is cleaned, or nothing happens.
LEMMA AroundSteps ==
  ASSUME IInv,
         (\E f \in Files : RemovePayload(f) \/ BreakFileSystem(f)) \/ CleanTmp \/ UNCHANGED vars
  PROVE  IInv'
<1>1. /\ UNCHANGED <<dpc, inode, header, cpc, kind, request, to, reply, code, output, since,
                     written, taken>>
      /\ current' \in {current, current + 1} /\ files \cup removed \subseteq files' \cup removed'
  BY DEF RemovePayload, BreakFileSystem, CleanTmp, vars, daemon, client, env
<1>2. Shape /\ current \in Nat
  BY DEF IInv, Shape
<1>3. Shape'
  BY <1>1, <1>2 DEF Shape
<1>4. current' = 0 => current = 0
  BY <1>1, <1>2
<1>5. LockInv' /\ OneInstancePerLockFile'
  BY <1>1, <1>2 DEF IInv, LockInv, OneInstancePerLockFile, Holding
<1>6. HeaderInv' /\ PayloadInv' /\ ClientInv'
  BY <1>1, <1>4 DEF IInv, HeaderInv, PayloadInv, ClientInv
<1>7. AnswerInv'
  BY <1>1, <1>4 DEF IInv, AnswerInv
<1> QED BY <1>3, <1>5, <1>6, <1>7 DEF IInv

LEMMA StepIInv == IInv /\ [Next]_vars => IInv'
  BY DaemonSteps, ClientSteps, HeaderStep, StartStep, LinkStep, AroundSteps
     DEF Next, DaemonStep, Handler

LEMMA Invariance == Spec => []IInv
<1> QED BY InitIInv, StepIInv, PTL DEF Spec

----------------------------------------------------------------------------
(* Theorems.                                                               *)

\* LockFile keeps a second daemon from getting past the lock, unless the file was
\* replaced between their calls of open.
THEOREM LockFileExcludes == Spec => []OneInstancePerLockFile
<1>1. IInv => OneInstancePerLockFile
  BY DEF IInv
<1> QED BY <1>1, Invariance, PTL

\* A client that exits with 0 after a call has a reply without an error.
LEMMA ExitsWithZero ==
  ASSUME IInv, Next, NEW c \in Clients, kind[c] \in {"start", "status"}, cpc[c] # "exited",
         code'[c] = 0
  PROVE  /\ cpc[c] = "served" /\ reply[c].status = "OK"
         /\ kind[c] = "status" => reply[c].header # Empty /\ output'[c] = reply[c].header
<1>0. /\ code[c] # 0 /\ cpc[c] # "off" /\ DOMAIN code = Clients /\ DOMAIN output = Clients
  BY ServiceAssumption DEF IInv, ClientInv, Shape
<1>1. ASSUME NEW b \in Clients, NEW n, NEW o, ExitClient(b, n, o)
      PROVE  b = c /\ n = 0 /\ output'[c] = o
  BY <1>0, <1>1 DEF ExitClient
<1>2. \E b \in Clients : \/ \E args \in ClientLines[b] : RunStartUpdate(b, args)
                         \/ StartUpdateReturns(b) \/ GetStatusReturns(b)
  BY <1>0 DEF Next, DaemonStep, ClientStep, Handler, StartDaemon, OpenLock, TryLock, Initialise,
     create_grpc_server, Kill, GetUpdateHeader, StartUpdate, LinkPayload, Served, RunGetStatus,
     Call, RemovePayload, BreakFileSystem, CleanTmp, client
<1>3. ASSUME NEW b \in Clients, NEW args \in ClientLines[b], RunStartUpdate(b, args) PROVE FALSE
  <2>1. cpc[b] = "off" /\ (code' = code \/ \E n, o : ExitClient(b, n, o))
    BY <1>3 DEF RunStartUpdate
  <2> QED BY <1>0, <1>1, <2>1
<1>r. ASSUME NEW b \in Clients, NEW r \in Results(b), ~Throws(r)
      PROVE  cpc[b] = "served" /\ r = reply[b] /\ reply[b].status = "OK"
  BY <1>r DEF Results, Throws, throw_on_grpc_error, Failure, Reply
<1>4. ASSUME NEW b \in Clients, StartUpdateReturns(b)
      PROVE  cpc[c] = "served" /\ reply[c].status = "OK" /\ kind[c] = "start"
  <2>1. PICK r \in Results(b) : ExitClient(b, IF Throws(r) THEN Aborted ELSE 0, None)
    BY <1>4 DEF StartUpdateReturns
  <2>2. b = c /\ (IF Throws(r) THEN Aborted ELSE 0) = 0
    BY <1>1, <2>1
  <2>3. ~Throws(r)
    BY <2>2 DEF Aborted
  <2> QED BY <1>4, <1>r, <2>2, <2>3 DEF StartUpdateReturns
<1>5. ASSUME NEW b \in Clients, GetStatusReturns(b)
      PROVE  /\ cpc[c] = "served" /\ reply[c].status = "OK"
             /\ reply[c].header # Empty /\ output'[c] = reply[c].header
  <2>1. PICK r \in Results(b) :
          \/ ExitClient(b, Aborted, None)
          \/ ExitClient(b, 1, None)
          \/ ~Throws(r) /\ r.header # Empty /\ ExitClient(b, 0, r.header)
    BY <1>5 DEF GetStatusReturns
  <2>2. b = c /\ ~Throws(r) /\ r.header # Empty /\ output'[c] = r.header
    BY <1>1, <2>1 DEF Aborted
  <2> QED BY <1>r, <2>2
<1> QED BY <1>2, <1>3, <1>4, <1>5

\* Exit code 0 of updated-start-update means that a daemon took on the request: it
\* linked the payload.
THEOREM ExitZeroSound == Spec => ExitZeroMeansAccepted
<1>1. IInv /\ [Next]_vars =>
        [\A c \in Clients :
           kind[c] = "start" /\ cpc[c] # "exited" /\ code'[c] = 0 => c \in taken]_vars
  BY ExitsWithZero DEF IInv, AnswerInv
<1> QED BY <1>1, Invariance, PTL DEF Spec, ExitZeroMeansAccepted

\* As long as the lock file stays, updated-get-status does not print a HEADER that
\* was replaced before it was called; what it prints may be Torn.
THEOREM StatusFresh == Spec => StatusNotStale
<1>1. IInv /\ [Next]_vars =>
        [\A c \in Clients :
           kind[c] = "status" /\ cpc[c] # "exited" /\ code'[c] = 0 /\ current = 0 =>
             \/ output'[c] = Torn
             \/ \E n \in DOMAIN written : n >= since[c] /\ written[n] = output'[c]]_vars
  <2> SUFFICES ASSUME IInv, Next, NEW c \in Clients, kind[c] = "status", cpc[c] # "exited",
                      code'[c] = 0, current = 0, output'[c] # Torn
               PROVE  \E n \in DOMAIN written : n >= since[c] /\ written[n] = output'[c]
    OBVIOUS
  <2>1. /\ cpc[c] = "served" /\ reply[c].status = "OK" /\ reply[c].header # Empty
        /\ output'[c] = reply[c].header
    BY ExitsWithZero
  <2>2. \E n \in 1..Len(written) : n >= since[c] /\ written[n] = reply[c].header
    BY <2>1 DEF IInv, AnswerInv
  <2>3. DOMAIN written = 1..Len(written)
    BY DEF IInv, Shape
  <2> QED BY <2>1, <2>2, <2>3
<1> QED BY <1>1, Invariance, PTL DEF Spec, StatusNotStale

\* UpdateCoordinator::start ends the daemon only for a relative path, for a payload
\* that was removed after updated-start-update had seen it, or when a payload's file
\* system refuses changes.
THEOREM OnlyBadRequestsKill == Spec => RequestKills
<1>1. IInv /\ [Next]_vars =>
        [\A d \in Daemons :
           dpc[d] = "serving" /\ dpc'[d] = "terminated" =>
             \E c \in Clients : /\ Starting(d, c, "started")
                                /\ \/ request[c].path \in Relative
                                   \/ request[c].path[1] \in removed
                                   \/ broken # {}]_vars
  <2> SUFFICES ASSUME IInv, Next, NEW d \in Daemons, dpc[d] = "serving", dpc'[d] = "terminated"
               PROVE  \E c \in Clients : /\ Starting(d, c, "started")
                                         /\ \/ request[c].path \in Relative
                                            \/ request[c].path[1] \in removed
                                            \/ broken # {}
    OBVIOUS
  <2>0. DOMAIN dpc = Daemons
    BY DEF IInv, Shape
  <2>1. \E c \in Clients, e \in Daemons : StartUpdate(e, c) \/ LinkPayload(e, c)
    <3>1. ASSUME NEW e \in Daemons, NEW args \in DaemonLines[e], StartDaemon(e, args) PROVE FALSE
      BY <2>0, <3>1 DEF StartDaemon, Die
    <3>2. ASSUME NEW e \in Daemons, OpenLock(e) \/ TryLock(e) PROVE FALSE
      BY <2>0, <3>2 DEF OpenLock, TryLock, Die
    <3>3. ASSUME NEW e \in Daemons, Initialise(e) \/ create_grpc_server(e) \/ Kill(e) PROVE FALSE
      BY <2>0, <3>3 DEF Initialise, create_grpc_server, Kill, Die
    <3>4. dpc' # dpc
      OBVIOUS
    <3> QED BY <3>1, <3>2, <3>3, <3>4 DEF Next, DaemonStep, ClientStep, Handler, GetUpdateHeader,
               RunStartUpdate, RunGetStatus, Call, StartUpdateReturns, GetStatusReturns,
               RemovePayload, BreakFileSystem, CleanTmp, daemon
  <2>2. PICK c \in Clients, e \in Daemons : StartUpdate(e, c) \/ LinkPayload(e, c)
    BY <2>1
  <2>3. /\ Die(e, "terminated")
        /\ \/ Starting(e, c, "sent") /\ (request[c].path = Empty \/ request[c].header = Empty)
           \/ /\ Starting(e, c, "started")
              /\ (request[c].path[1] \notin files \/ broken # {} \/ request[c].path \in Relative)
    BY <2>2 DEF StartUpdate, LinkPayload, daemon
  <2>4. e = d
    BY <2>0, <2>3 DEF Die
  <2>5. cpc[c] \in {"sent", "started"} /\ kind[c] = "start"
    BY <2>3 DEF Starting
  <2>6. /\ request[c].path # Empty /\ request[c].header # Empty
        /\ request[c].path[1] \in files \cup removed
    BY <2>5 DEF IInv, PayloadInv
  <2> QED BY <2>3, <2>4, <2>6
<1> QED BY <1>1, Invariance, PTL DEF Spec, RequestKills

=============================================================================
