--------------------------- MODULE UpdateDService ---------------------------
(***************************************************************************)
(* The update daemon as a service: how processes of updated start, lock    *)
(* out one another and open their RPC server, and how the two client       *)
(* programs, updated-start-update and updated-get-status, call it.         *)
(*                                                                         *)
(* A daemon or a client is one process: one that the init system starts    *)
(* again is another element of the set.  UpdateD models what happens       *)
(* inside UpdateCoordinator::start and run; here start() has two steps,    *)
(* the assignment of the header and the link.  gRPC, the file system and   *)
(* the init system are external.  gRPC binds its port with SO_REUSEPORT,   *)
(* so that the port does not keep a second daemon out.                     *)
(***************************************************************************)
EXTENDS Naturals, Sequences, SequencesExt

CONSTANTS Daemons,      \* processes of updated
          Clients,      \* processes of the client programs
          DaemonLines,  \* for each daemon its command lines: sequences of options
          ClientLines,  \* for each client its command lines of updated-start-update
          Askers,       \* the clients that may run updated-get-status
          Files,        \* payload files
          Headers,      \* update HEADERs
          Empty,        \* the empty string
          Torn,         \* what a read of the header during its assignment may return
          None,         \* no value
          MaxCleans     \* bound: times that /tmp is cleaned

ASSUME ServiceAssumption ==
  /\ Askers \subseteq Clients /\ MaxCleans \in Nat
  /\ {Empty, None, Torn} \cap (Files \cup Headers \cup Daemons) = {} /\ Torn \notin {Empty, None}
  /\ None \notin {"start", "status"} /\ None \notin {0, 1, 134, 139}

VARIABLES
  dpc,          \* where each daemon is
  word,         \* log_level, as parse_args returns it
  level,        \* the level of spdlog
  inode,        \* the file that its LockFile opened
  header,       \* update_manifest.header
  current,      \* the file that is /tmp/updated_lock now
  cpc,          \* where each client is
  kind,         \* its program: "start" or "status"
  request,      \* its request: a payload path and a HEADER
  to,           \* the daemon it is connected to
  reply,        \* what the call returns
  code,         \* its exit code
  output,       \* the HEADER that it printed, or "help"
  files,        \* the payload files that exist
  removed,      \* those removed since the beginning
  broken,       \* the payloads that cannot be linked: a directory, or a file on a
                \* file system that is full or read-only
  written,      \* history: the HEADERs that daemons assigned, oldest first
  taken,        \* history: the clients under way whose request a daemon took on
  since         \* history: the length of written when the client began

daemon == <<dpc, word, level, inode, header>>
client == <<cpc, kind, request, to, reply, code, output, since>>
env    == <<current, files, removed, broken>>
vars   == <<daemon, client, env, written, taken>>

\* A path names a file, from the root or from the client's directory.
Paths    == Files \X {"absolute", "relative"}
Relative == Files \X {"relative"}

Levels     == {"critical", "err", "warn", "info", "debug", "trace"}
ErrorCodes == {"UNKNOWN_ERROR", "SUCCESS"}

\* The statuses that grpc_status_to_str knows; gRPC itself makes those other than
\* OK and CANCELLED.
GrpcStatuses == {"OK", "CANCELLED", "UNKNOWN", "DEADLINE_EXCEEDED", "UNAUTHENTICATED",
                 "RESOURCE_EXHAUSTED", "UNIMPLEMENTED", "INTERNAL", "UNAVAILABLE",
                 "INVALID_ARGUMENT", "NOT_FOUND", "ALREADY_EXISTS", "PERMISSION_DENIED",
                 "FAILED_PRECONDITION", "ABORTED", "OUT_OF_RANGE", "DATA_LOSS"}

NoRequest == [path |-> Empty, header |-> Empty]

Reply(status, value, h) == [status |-> status, value |-> value, header |-> h]

\* What a call that fails in gRPC returns: the response keeps its defaults.
Failure(status) == Reply(status, "UNKNOWN_ERROR", Empty)

TypeOK ==
  /\ dpc \in [Daemons -> {"off", "open", "lock", "init", "ready", "serving", "exited",
                         "terminated"}]
  /\ word \in [Daemons -> {"CRITICAL", "ERROR", "WARNING", "INFO", "DEBUG", "TRACE", None}]
  /\ level \in [Daemons -> Levels \cup {None}]
  /\ inode \in [Daemons -> 0..MaxCleans \cup {None}]
  /\ header \in [Daemons -> Headers \cup {Empty}]
  /\ current \in 0..MaxCleans
  /\ cpc \in [Clients -> {"off", "call", "sent", "started", "served", "exited"}]
  /\ kind \in [Clients -> {"start", "status", None}]
  /\ request \in [Clients -> [path : Paths \cup {Empty}, header : Headers \cup {Empty}]]
  /\ to \in [Clients -> Daemons \cup {None}]
  /\ reply \in [Clients -> [status : GrpcStatuses, value : ErrorCodes,
                            header : Headers \cup {Empty, Torn}] \cup {None}]
  /\ code \in [Clients -> {0, 1, 134, 139, None}]
  /\ output \in [Clients -> Headers \cup {None, Torn, "help"}]
  /\ files \subseteq Files /\ removed \subseteq Files /\ broken \subseteq files
  /\ written \in Seq(Headers) /\ taken \subseteq Clients
  /\ since \in [Clients -> 0..Len(written)]

Init ==
  /\ dpc = [d \in Daemons |-> "off"]
  /\ word = [d \in Daemons |-> None] /\ level = [d \in Daemons |-> None]
  /\ inode = [d \in Daemons |-> None] /\ header = [d \in Daemons |-> Empty]
  /\ current = 0
  /\ cpc = [c \in Clients |-> "off"] /\ kind = [c \in Clients |-> None]
  /\ request = [c \in Clients |-> NoRequest]
  /\ to = [c \in Clients |-> None] /\ reply = [c \in Clients |-> None]
  /\ code = [c \in Clients |-> None] /\ output = [c \in Clients |-> None]
  /\ files \in SUBSET Files /\ removed = {} /\ broken = {}
  /\ written = <<>> /\ taken = {} /\ since = [c \in Clients |-> 0]

----------------------------------------------------------------------------
(* A daemon starts                                                         *)

\* The process ends: it exits or is killed, or an exception terminates it.  Its
\* memory and its lock go with it.
Die(d, how) == /\ dpc' = [dpc EXCEPT ![d] = how]
               /\ word' = [word EXCEPT ![d] = None] /\ level' = [level EXCEPT ![d] = None]
               /\ inode' = [inode EXCEPT ![d] = None] /\ header' = [header EXCEPT ![d] = Empty]

\* The outcomes of parse_args.  The first option decides, and words that are no
\* option are an error.  --log-level without a value in the same word leaves optarg
\* null; the table of long options has no end, so that a long option which is not
\* in it may do anything.
parse_args(args) ==
  LET options == SelectSeq(args, LAMBDA o : o[1] # "word")
      opt     == Head(options)
  IN  IF args = <<>> THEN {"INFO"}
      ELSE IF options = <<>> THEN {"usage"}
      ELSE CASE opt[1] \in {"-l", "--log-level="} ->
                  IF opt[2] \in {"CRITICAL", "ERROR", "WARNING", "INFO", "DEBUG", "TRACE"}
                  THEN {opt[2]} ELSE {"usage"}
             [] opt[1] = "--log-level" -> {"crash"}
             [] opt[1] = "-h"          -> {"help"}
             [] opt[1] = "-x"          -> {"usage"}
             [] opt[1] = "--unknown"   -> {"usage", "crash"}

\* A daemon is started: main() up to the initialiser; its catch of invalid_argument
\* ends here.
StartDaemon(d, args) ==
  /\ dpc[d] = "off"
  /\ \E r \in parse_args(args) :
       IF r \in {"help", "usage", "crash"}
       THEN Die(d, "exited")
       ELSE /\ word' = [word EXCEPT ![d] = r]
            /\ dpc' = [dpc EXCEPT ![d] = "open"]
            /\ UNCHANGED <<level, inode, header>>
  /\ UNCHANGED <<client, env, written, taken>>

\* LockFile opens /tmp/updated_lock, which it creates where there is none, or fails.
OpenLock(d) ==
  /\ dpc[d] = "open"
  /\ \/ Die(d, "terminated")
     \/ /\ inode' = [inode EXCEPT ![d] = current]
        /\ dpc' = [dpc EXCEPT ![d] = "lock"]
        /\ UNCHANGED <<word, level, header>>
  /\ UNCHANGED <<client, env, written, taken>>

Holding(d) == dpc[d] \in {"init", "ready", "serving"}

\* Fault: the file is opened, but not locked.
TryLock_NoLock(d) ==
  /\ dpc[d] = "lock"
  /\ dpc' = [dpc EXCEPT ![d] = "init"]
  /\ UNCHANGED <<word, level, inode, header, client, env, written, taken>>

\* lockf(F_TLOCK): no other process holds the lock on the same file.  main() does
\* not catch the LockFileError, so that the process is terminated.
TryLock(d) ==
  /\ dpc[d] = "lock"
  /\ IF \E e \in Daemons \ {d} : Holding(e) /\ inode[e] = inode[d]
     THEN Die(d, "terminated")
     ELSE /\ dpc' = [dpc EXCEPT ![d] = "init"]
          /\ UNCHANGED <<word, level, inode, header>>
  /\ UNCHANGED <<client, env, written, taken>>

\* The Level that a word names; None where it throws invalid_argument.
level_from_string(w) ==
  CASE w \in {"CRITICAL", "ERROR", "INFO", "DEBUG", "TRACE"} -> w
    [] w = "WARNING" -> "WARN"
    [] OTHER         -> None

set_global_level(l) ==
  CASE l = "CRITICAL" -> "critical" [] l = "ERROR" -> "err"   [] l = "WARN"  -> "warn"
    [] l = "INFO"     -> "info"     [] l = "DEBUG" -> "debug" [] l = "TRACE" -> "trace"

\* initialise() creates the logger and registers the signal handlers, and
\* notify_start() tells the init system that the daemon is ready: before there is
\* an RPC server.
Initialise(d) ==
  /\ dpc[d] = "init"
  /\ IF level_from_string(word[d]) = None
     THEN Die(d, "terminated")
     ELSE /\ level' = [level EXCEPT ![d] = set_global_level(level_from_string(word[d]))]
          /\ dpc' = [dpc EXCEPT ![d] = "ready"]
          /\ UNCHANGED <<word, inode, header>>
  /\ UNCHANGED <<client, env, written, taken>>

\* The RPC server starts, or its constructor throws.
create_grpc_server(d) ==
  /\ dpc[d] = "ready"
  /\ \/ Die(d, "terminated")
     \/ /\ dpc' = [dpc EXCEPT ![d] = "serving"]
        /\ UNCHANGED <<word, level, inode, header>>
  /\ UNCHANGED <<client, env, written, taken>>

\* SIGTERM or SIGKILL, which the daemon does not handle.
Kill(d) ==
  /\ dpc[d] \notin {"off", "exited", "terminated"}
  /\ Die(d, "exited")
  /\ UNCHANGED <<client, env, written, taken>>

----------------------------------------------------------------------------
(* The clients                                                             *)

\* A client exits with code n and output o; its memory is gone.
ExitClient(c, n, o) == /\ cpc' = [cpc EXCEPT ![c] = "exited"]
                       /\ request' = [request EXCEPT ![c] = NoRequest]
                       /\ since' = [since EXCEPT ![c] = 0] /\ taken' = taken \ {c}
                       /\ to' = [to EXCEPT ![c] = None]
                       /\ reply' = [reply EXCEPT ![c] = None]
                       /\ code' = [code EXCEPT ![c] = n]
                       /\ output' = [output EXCEPT ![c] = o]

\* One pass of the loop over the options of updated-start-update.
ParseOption(acc, opt) ==
  IF acc.end # "no" THEN acc
  ELSE CASE opt[1] = "-p"        -> [acc EXCEPT !.path = opt[2]]
         [] opt[1] = "-u"        -> [acc EXCEPT !.header = opt[2]]
         [] opt[1] = "-h"        -> [acc EXCEPT !.end = "help"]
         [] opt[1] = "-x"        -> [acc EXCEPT !.end = "invalid"]
         [] opt[1] = "--unknown" -> [acc EXCEPT !.end = "undefined"]

\* Fault: the payload's existence is left to the daemon.
client_parse_args_NoExists(args) ==
  LET r == FoldLeft(ParseOption, [path |-> Empty, header |-> Empty, end |-> "no"], args)
      ok == r.path # Empty /\ r.header # Empty
  IN  [path |-> r.path, header |-> r.header, end |-> IF r.end = "no" /\ ~ok THEN "invalid" ELSE r.end]

\* No options at all, no payload that exists, or no HEADER: invalid_argument.
client_parse_args(args) ==
  LET r == FoldLeft(ParseOption, [path |-> Empty, header |-> Empty, end |-> "no"], args)
      ok == r.path # Empty /\ r.path[1] \in files /\ r.header # Empty
  IN  [path |-> r.path, header |-> r.header, end |-> IF r.end = "no" /\ ~ok THEN "invalid" ELSE r.end]

\* updated-start-update is started: its main() up to the call.
RunStartUpdate(c, args) ==
  /\ cpc[c] = "off" /\ kind' = [kind EXCEPT ![c] = "start"]
  /\ LET r == client_parse_args(args)
     IN     \/ r.end = "help" /\ ExitClient(c, 0, "help")
            \/ r.end \in {"invalid", "undefined"} /\ ExitClient(c, 1, None)
            \/ r.end = "undefined" /\ ExitClient(c, 139, None)
            \/ /\ r.end = "no"
               /\ request' = [request EXCEPT ![c] = [path |-> r.path, header |-> r.header]]
               /\ cpc' = [cpc EXCEPT ![c] = "call"] /\ UNCHANGED <<to, reply, code, output, since, taken>>
  /\ UNCHANGED <<daemon, env, written>>

\* updated-get-status is started; it has no options.
RunGetStatus(c) ==
  /\ c \in Askers /\ cpc[c] = "off" /\ kind' = [kind EXCEPT ![c] = "status"]
  /\ cpc' = [cpc EXCEPT ![c] = "call"]
  /\ since' = [since EXCEPT ![c] = Len(written)]
  /\ UNCHANGED <<request, to, reply, code, output, daemon, env, written, taken>>

Serving == {d \in Daemons : dpc[d] = "serving"}

\* The stub is created and the call made, to one of the servers on the port.
Call(c) ==
  /\ cpc[c] = "call"
  /\ \E d \in Serving : to' = [to EXCEPT ![c] = d]
  /\ cpc' = [cpc EXCEPT ![c] = "sent"]
  /\ UNCHANGED <<kind, request, reply, code, output, since, daemon, env, written, taken>>

Served(c, r) == /\ reply' = [reply EXCEPT ![c] = r]
                /\ cpc' = [cpc EXCEPT ![c] = "served"]
                /\ UNCHANGED <<kind, request, to, code, output, since>>

\* A call of StartUpdate of the client c at the daemon d is at the step s.
Starting(d, c, s) == dpc[d] = "serving" /\ cpc[c] = s /\ to[c] = d /\ kind[c] = "start"

\* The coordinator's mutex is free: no call is between the assignment and the link.
MutexFree(d) == \A b \in Clients : ~Starting(d, b, "started")

\* ServiceImpl::GetUpdateHeader.  manifest() copies the header without the mutex:
\* while a call of start() assigns it the copy may be the old one, the new one or
\* neither.  That the race ends the process instead is among what Kill does.
GetUpdateHeader(d, c) ==
  /\ dpc[d] = "serving" /\ cpc[c] = "sent" /\ to[c] = d /\ kind[c] = "status"
  /\ \/ Served(c, Reply("OK", "SUCCESS", header[d]))
     \/ /\ MutexFree(d) /\ \E b \in Clients : Starting(d, b, "sent")
        /\ Served(c, Reply("OK", "SUCCESS", Torn))
  /\ UNCHANGED <<daemon, env, written, taken>>

\* Fault: a HEADER that is there is not replaced.
StartUpdate_FirstHeader(d, c) ==
  /\ Starting(d, c, "sent")
  /\ \/ /\ request[c].path # Empty /\ request[c].header # Empty /\ MutexFree(d)
        /\ header' = [header EXCEPT ![d] = IF @ = Empty THEN request[c].header ELSE @]
        /\ written' = Append(written, request[c].header)
        /\ cpc' = [cpc EXCEPT ![c] = "started"]
        /\ UNCHANGED <<dpc, word, level, inode, kind, request, to, reply, code, output, since>>
     \/ Served(c, Failure("CANCELLED")) /\ UNCHANGED <<daemon, written>>
     \/ /\ request[c].path = Empty \/ request[c].header = Empty
        /\ Die(d, "terminated") /\ UNCHANGED <<client, written>>
  /\ UNCHANGED <<env, taken>>

\* ServiceImpl::StartUpdate, and start() as far as the assignment of the header.
\* Only a failure to copy the arguments reaches the catch; start() asserts that
\* neither is empty.
StartUpdate(d, c) ==
  /\ Starting(d, c, "sent")
  /\ \/ /\ request[c].path # Empty /\ request[c].header # Empty /\ MutexFree(d)
        /\ header' = [header EXCEPT ![d] = request[c].header]
        /\ written' = Append(written, request[c].header)
        /\ cpc' = [cpc EXCEPT ![c] = "started"]
        /\ UNCHANGED <<dpc, word, level, inode, kind, request, to, reply, code, output, since>>
     \/ Served(c, Failure("CANCELLED")) /\ UNCHANGED <<daemon, written>>
     \/ /\ request[c].path = Empty \/ request[c].header = Empty
        /\ Die(d, "terminated") /\ UNCHANGED <<client, written>>
  /\ UNCHANGED <<env, taken>>

\* PayloadHardLink and the rest of start(), which is noexcept: when the directory
\* cannot be made anew, the payload not be linked into it or the link that it replaces
\* not be removed, the exception ends the process; so does a relative path, which an
\* assertion forbids and which means something else in the daemon's directory.  That
\* run() cannot remove a link is among what Kill does.
LinkPayload(d, c) ==
  /\ Starting(d, c, "started")
  /\ \/ /\ request[c].path[1] \in files \ broken
        /\ Served(c, Reply("OK", "SUCCESS", Empty))
        /\ taken' = taken \cup {c}
        /\ UNCHANGED daemon
     \/ /\ request[c].path[1] \notin files \/ broken # {} \/ request[c].path \in Relative
        /\ Die(d, "terminated") /\ UNCHANGED <<client, taken>>
  /\ UNCHANGED <<env, written>>

\* The daemon that has the call is gone, and what it has answered is lost.
Lost(c) == cpc[c] \in {"sent", "started", "served"} /\ dpc[to[c]] \in {"exited", "terminated"}

\* Fault: the call waits for a server.
Results_WaitForReady(c) == {r \in {reply[c]} : cpc[c] = "served"}
                           \cup {r \in {Failure("UNAVAILABLE")} : Lost(c)}

\* What the call may return now: the reply, or the failure of gRPC when it is lost or,
\* at once, when there is no server on the port.
Results(c) == {r \in {reply[c]} : cpc[c] = "served"}
              \cup {r \in {Failure("UNAVAILABLE")} : Lost(c) \/ (cpc[c] = "call" /\ Serving = {})}

throw_on_grpc_error(r)        == r.status # "OK"
throw_on_updated_rpc_error(r) == r.value # "SUCCESS"

\* Client::StartUpdate and Client::GetUpdateHeader throw for both kinds of error.
Throws(r) == throw_on_grpc_error(r) \/ throw_on_updated_rpc_error(r)

\* GrpcError and UpdateDRpcError are runtime_errors, not invalid_arguments: no main()
\* catches them, and the process is aborted with this exit code.
Aborted == 134

\* Fault: main() catches every exception, tells of it and goes on to its end.
StartUpdateReturns_CatchAll(c) ==
  /\ kind[c] = "start" /\ Results(c) # {}
  /\ ExitClient(c, 0, None)
  /\ UNCHANGED <<kind, daemon, env, written>>

\* The call returns to main() of updated-start-update; an exception terminates it.
StartUpdateReturns(c) ==
  /\ kind[c] = "start"
  /\ \E r \in Results(c) : ExitClient(c, IF Throws(r) THEN Aborted ELSE 0, None)
  /\ UNCHANGED <<kind, daemon, env, written>>

\* The call returns to main() of updated-get-status.
GetStatusReturns(c) ==
  /\ kind[c] = "status"
  /\ \E r \in Results(c) :
       \/ Throws(r) /\ ExitClient(c, Aborted, None)
       \/ ~Throws(r) /\ r.header = Empty /\ ExitClient(c, 1, None)
       \/ ~Throws(r) /\ r.header # Empty /\ ExitClient(c, 0, r.header)
  /\ UNCHANGED <<kind, daemon, env, written>>

----------------------------------------------------------------------------
(* Around them                                                             *)

\* A payload is removed or renamed.
RemovePayload(f) ==
  /\ f \in files
  /\ files' = files \ {f} /\ removed' = removed \cup {f} /\ broken' = broken \ {f}
  /\ UNCHANGED <<current, daemon, client, written, taken>>

\* The file system of a payload fills up or becomes read-only, or the payload is
\* replaced by a directory.
BreakFileSystem(f) ==
  /\ f \in files \ broken
  /\ broken' = broken \cup {f}
  /\ UNCHANGED <<current, files, removed, daemon, client, written, taken>>

\* /tmp is cleaned: the next open creates another lock file.  A file that no process
\* has open is as good as a new one, so that cleaning it changes nothing.
CleanTmp ==
  /\ current < MaxCleans /\ \E d \in Daemons : inode[d] = current
  /\ current' = current + 1
  /\ UNCHANGED <<files, removed, broken, daemon, client, written, taken>>

DaemonStep(d) == OpenLock(d) \/ TryLock(d) \/ Initialise(d) \/ create_grpc_server(d)

\* One of the daemons takes a step in the handler of the client's call.
Handler(c) ==
  \E d \in Daemons : GetUpdateHeader(d, c) \/ StartUpdate(d, c) \/ LinkPayload(d, c)

ClientStep(c) == Call(c) \/ StartUpdateReturns(c) \/ GetStatusReturns(c)

Next ==
  \/ \E d \in Daemons : \/ \E args \in DaemonLines[d] : StartDaemon(d, args)
                        \/ DaemonStep(d) \/ Kill(d)
  \/ \E c \in Clients : \/ \E args \in ClientLines[c] : RunStartUpdate(c, args)
                        \/ RunGetStatus(c) \/ ClientStep(c) \/ Handler(c)
  \/ \E f \in Files : RemovePayload(f) \/ BreakFileSystem(f)
  \/ CleanTmp

\* A client that can take a step is scheduled, and so is the thread of a daemon that
\* handles its call.  Nothing is assumed of the daemons' start.
Spec == /\ Init /\ [][Next]_vars
        /\ \A c \in Clients : WF_vars(ClientStep(c) \/ Handler(c))

----------------------------------------------------------------------------
(* Properties                                                              *)

\* Two daemons are past the lock at once only when the lock file was removed from
\* /tmp between their calls of open.
OneInstancePerLockFile ==
  \A d, e \in Daemons : d # e /\ Holding(d) /\ Holding(e) => inode[d] # inode[e]

\* updated-start-update returns 0 without a usage text only when a daemon took on
\* its request and linked the payload: no lost reply, dead daemon or error code
\* looks like success.
ExitZeroMeansAccepted ==
  [][\A c \in Clients :
       kind[c] = "start" /\ cpc[c] # "exited" /\ code'[c] = 0 => c \in taken]_vars

\* As long as the lock file stays, the HEADER that updated-get-status prints is the
\* last one that a daemon assigned before the program was started, or a later one,
\* whatever daemons died and were replaced meanwhile; it is Torn at worst when it
\* was read during an assignment.  The documentation of GetUpdateHeader
\* (ServiceImpl.h) promises more, the HEADER "for the most recent successful
\* firmware update transaction": the daemon assigns it before the update begins
\* and keeps no record of success.
StatusNotStale ==
  [][\A c \in Clients :
       kind[c] = "status" /\ cpc[c] # "exited" /\ code'[c] = 0 /\ current = 0 =>
         \/ output'[c] = Torn
         \/ \E n \in DOMAIN written : n >= since[c] /\ written[n] = output'[c]]_vars

\* A request ends the daemon only when its path is relative, its payload was removed
\* after the client had seen it, or a payload's file system refuses changes at that
\* time: never because of an empty or a missing path or HEADER.
RequestKills ==
  [][\A d \in Daemons :
       dpc[d] = "serving" /\ dpc'[d] = "terminated" =>
         \E c \in Clients : /\ Starting(d, c, "started")
                            /\ \/ request[c].path \in Relative
                               \/ request[c].path[1] \in removed
                               \/ broken # {}]_vars

\* Every client ends, whatever becomes of the daemon that it called: again and again
\* there is none under way.
ClientsEnd == []<>(\A c \in Clients : cpc[c] \in {"off", "exited"})
=============================================================================
