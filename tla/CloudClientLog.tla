--------------------------- MODULE CloudClientLog ---------------------------
(***************************************************************************)
(* The log of mbl-cloud-client (log.cpp).  Both threads print through the  *)
(* mbed-trace library, which calls mbl_trace_print_handler under a mutex   *)
(* of its own.  The log is rotated from outside: the file is renamed and   *)
(* SIGHUP tells the process to open the path again.                        *)
(***************************************************************************)
CONSTANT None  \* no owner of a mutex, no event, no exit code

Threads == {"main", "loop"}

ASSUME LogAssumption == None \notin Threads

VARIABLES
  g_log_stream,       \* "closed", or open on the "current" file or on a "rotated" one
  g_log_need_reopen,  \* SIGHUP asks for the path to be opened again
  trace_mutex,        \* the thread inside the print handler, or None
  printPc,            \* where each thread is in a call of mbed-trace
  owed,               \* SIGHUP was taken on a rotated file, which is still open
  want                \* the value of owed when the line being printed was begun

logVars == <<g_log_stream, g_log_need_reopen, trace_mutex, printPc, owed, want>>

LogTypeOK ==
  /\ g_log_stream \in {"closed", "current", "rotated"}
  /\ g_log_need_reopen \in BOOLEAN /\ owed \in BOOLEAN /\ want \in BOOLEAN
  /\ trace_mutex \in Threads \cup {None}
  /\ printPc \in [Threads -> {"out", "wait", "open", "reset", "write"}]

LogInit ==
  /\ g_log_stream = "closed" /\ g_log_need_reopen = FALSE
  /\ trace_mutex = None
  /\ printPc = [t \in Threads |-> "out"]
  /\ owed = FALSE /\ want = FALSE

\* Thread t is not in a call of mbed-trace.
Out(t) == printPc[t] = "out"

\* A step of t prints a line: t goes on when the print handler has returned.
Trace(t) == /\ printPc' = [printPc EXCEPT ![t] = "wait"]
            /\ UNCHANGED <<g_log_stream, g_log_need_reopen, trace_mutex, owed, want>>

PrintStep(t, from, to) == /\ printPc[t] = from
                          /\ printPc' = [printPc EXCEPT ![t] = to]

\* Fault: the file is opened again only when there is none.
PrintTest_Never(t) ==
  /\ PrintStep(t, "wait", IF g_log_stream = "closed" THEN "open" ELSE "write")
  /\ trace_mutex = None /\ trace_mutex' = t
  /\ want' = owed
  /\ UNCHANGED <<g_log_stream, g_log_need_reopen, owed>>

\* mbed-trace enters the print handler under its mutex; the handler tests for a
\* reason to open the path again, and closes the file.
PrintTest(t) ==
  LET reopen == g_log_stream = "closed" \/ g_log_need_reopen
  IN  /\ PrintStep(t, "wait", IF reopen THEN "open" ELSE "write")
      /\ trace_mutex = None /\ trace_mutex' = t
      /\ want' = owed
      /\ g_log_stream' = IF reopen THEN "closed" ELSE g_log_stream
      /\ UNCHANGED <<g_log_need_reopen, owed>>

\* fopen, which may fail; the next line then tries again.
PrintOpen(t) ==
  /\ PrintStep(t, "open", "reset")
  /\ g_log_stream' \in {"current", "closed"}
  /\ owed' = FALSE
  /\ UNCHANGED <<g_log_need_reopen, trace_mutex, want>>

PrintReset(t) ==
  /\ PrintStep(t, "reset", "write")
  /\ g_log_need_reopen' = FALSE
  /\ UNCHANGED <<g_log_stream, trace_mutex, owed, want>>

\* The line, with its time prefix, is written and flushed if a file is open.
PrintWrite(t) ==
  /\ PrintStep(t, "write", "out")
  /\ trace_mutex' = None /\ want' = FALSE
  /\ UNCHANGED <<g_log_stream, g_log_need_reopen, owed>>

PrintHandler(t) == PrintTest(t) \/ PrintOpen(t) \/ PrintReset(t) \/ PrintWrite(t)

\* log_init opens the file, which may fail.
OpenLog(ok) ==
  /\ g_log_stream' = IF ok THEN "current" ELSE "closed"
  /\ UNCHANGED <<g_log_need_reopen, trace_mutex, printPc, owed, want>>

\* The handler of SIGHUP.  When the print handler is between fopen and the reset
\* of the flag, the request is lost: nothing is owed for it.
mbl_log_reopen_signal_handler ==
  /\ g_log_need_reopen' = TRUE
  /\ owed' = (owed \/ (g_log_stream = "rotated" /\ \A t \in Threads : printPc[t] # "reset"))
  /\ UNCHANGED <<g_log_stream, trace_mutex, printPc, want>>

\* The log is rotated: the path names a new file.  A SIGHUP of its own follows.
RotateLog ==
  /\ g_log_stream = "current"
  /\ g_log_stream' = "rotated"
  /\ owed' = FALSE /\ want' = FALSE
  /\ UNCHANGED <<g_log_need_reopen, trace_mutex, printPc>>

\* A line that is begun after the SIGHUP that follows a rotation is not written
\* to the rotated file: the handler opens the path again first, whatever signals
\* and lines of the other thread come in between, except for a SIGHUP that is
\* taken between fopen and the reset of g_log_need_reopen.
LinesReachNewFile ==
  \A t \in Threads : printPc[t] = "write" => ~(want /\ g_log_stream = "rotated")
=============================================================================
