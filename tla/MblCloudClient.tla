--------------------------- MODULE MblCloudClient ---------------------------
(***************************************************************************)
(* The cloud client daemon (cloud-services/mbl-cloud-client).  The main    *)
(* thread sets up the log, the signal handlers and the Pelion client       *)
(* library, then loops in MblCloudClient::run, which registers with the    *)
(* server again at half of the registration's lifetime and looks for a     *)
(* signal or for the loss of the registration.  The event loop thread of   *)
(* the library calls the handlers below.  Both threads share *s_instance   *)
(* under s_mutex, which the main thread destroys on the way out, and both  *)
(* print to the log (CloudClientLog).                                      *)
(*                                                                         *)
(* The library is external.  Its functions may or may not wait for the     *)
(* event to end that the event loop is handling (waits): the destructor's  *)
(* comment says that they might.                                           *)
(***************************************************************************)
EXTENDS Integers, CloudClientLog, MblError

CONSTANTS Lifetime,    \* MBED_CLOUD_CLIENT_LIFETIME
          MaxDelay,    \* bound: seconds by which sleep(1) or register_update is late
          Word,        \* 2^32, scaled down: uint32_t and unsigned are below it
          Sizes,       \* sizes of downloads
          Errors       \* errors that the library reports

\* An iteration is shorter than the period, which is not 0, or the registration
\* may run out.
ASSUME ClientAssumption ==
  /\ Lifetime \in Nat \ {0, 1} /\ MaxDelay \in Nat /\ Lifetime \div 2 >= 2 * MaxDelay
  /\ Word \in Nat /\ Word > 100
  /\ Sizes \subseteq 1..(Word - 1)
  /\ Errors \subseteq CloudClientErrors

VARIABLES
  pc,                 \* where the main thread is
  handled,            \* the signals with a handler
  g_shutdown_signal,  \* SIGTERM or SIGINT was handled
  s_mutex,            \* MblCloudClient::s_mutex: its owner, or None
  s_instance,         \* MblCloudClient::s_instance is not 0
  client,             \* *s_instance and its MbedCloudClient
  state_,             \* MblCloudClient::state_
  result,             \* the error that run() or a step before it returns
  code,               \* the exit code, or None
  loop,               \* where the event loop thread is
  event,              \* the event it handles
  waits,              \* the library waits for the event loop; never changes
  badUse,             \* a handler used an instance that was gone
  last,               \* the state that the last event of the registration asks for
  due,                \* seconds to next_registration_s
  age,                \* seconds since the client registered or updated
  delay               \* seconds by which the call that run() is in is late

mainVars == <<pc, result, code>>
shared   == <<s_mutex, s_instance, client, state_>>
loopVars == <<loop, event, badUse, last>>
timeVars == <<due, age, delay>>
sigVars  == <<handled, g_shutdown_signal>>
vars     == <<mainVars, shared, loopVars, timeVars, sigVars, waits, logVars>>

Setup     == {"daemon", "log_init", "mutex", "sigterm", "sigint", "sighup", "app_init", "new",
              "called", "setup"}
RunLoop   == {"top", "check", "time", "update", "sleep"}
Teardown  == {"destroy", "close", "delete", "stop", "return"}
Ended     == {"exited", "killed"}

States   == {"Unregistered", "CalledRegister", "Registered"}
Requests == {"Download", "Install", "Other"}
Events   == {<<"registered">>, <<"unregistered">>}
              \cup {<<"error", e>> : e \in Errors}
              \cup {<<"authorize", r>> : r \in Requests}
              \cup {e \in {"progress"} \X Sizes \X Sizes : e[2] <= e[3]}

TypeOK ==
  /\ pc \in Setup \cup RunLoop \cup Teardown \cup Ended
  /\ handled \subseteq {"TERM", "INT", "HUP"} /\ g_shutdown_signal \in BOOLEAN
  /\ s_mutex \in Threads \cup {None} /\ s_instance \in BOOLEAN
  /\ client \in {"none", "made", "started", "closed", "deleted"}
  /\ state_ \in States /\ last \in States
  /\ result \in DOMAIN Error
  /\ code \in {0, 1, None}
  /\ loop \in {"off", "idle", "begin", "lock", "test", "use", "unlock"}
  /\ event \in Events \cup {None}
  /\ waits \in BOOLEAN /\ badUse \in BOOLEAN
  /\ due \in Int /\ age \in Nat /\ delay \in 0..MaxDelay
  /\ LogTypeOK

Init ==
  /\ pc = "daemon" /\ result = "None" /\ code = None
  /\ handled = {} /\ g_shutdown_signal = FALSE
  /\ s_mutex = None /\ s_instance = FALSE /\ client = "none" /\ state_ = "Unregistered"
  /\ loop = "off" /\ event = None /\ badUse = FALSE /\ last = "CalledRegister"
  /\ waits \in BOOLEAN
  /\ due = 0 /\ age = 0 /\ delay = 0
  /\ LogInit

----------------------------------------------------------------------------
(* main(): the set-up.                                                     *)

MainStep(from, to) == /\ pc = from /\ Out("main")
                      /\ pc' = to
                      /\ UNCHANGED <<event, badUse, last, waits>>

\* The main thread goes on and leaves the result, the signals and the time alone.
Go(from, to) == MainStep(from, to) /\ UNCHANGED <<result, code, loop, timeVars, sigVars>>

\* A step before run() fails with error e, and main() returns.
Fail(from, e) == /\ MainStep(from, "return")
                 /\ result' = e
                 /\ UNCHANGED <<code, loop, shared, timeVars, sigVars>>

Daemon ==
  /\ \/ Go("daemon", "log_init") /\ UNCHANGED shared
     \/ Fail("daemon", "Unknown")
  /\ UNCHANGED logVars

log_init ==
  \/ Go("log_init", "mutex") /\ OpenLog(TRUE) /\ UNCHANGED shared
  \/ Fail("log_init", "LogInitFopen") /\ OpenLog(FALSE)
  \/ Go("mutex", "sigterm") /\ UNCHANGED <<shared, logVars>>
  \/ Fail("mutex", "LogInitMutexCreate") /\ UNCHANGED logVars

\* One call of sigaction.
Sigaction(sig, from, to) ==
  \/ /\ MainStep(from, to)
     /\ handled' = handled \cup {sig}
     /\ UNCHANGED <<result, code, loop, shared, timeVars, g_shutdown_signal, logVars>>
  \/ /\ Fail(from, "SignalsInitSigaction")
     /\ Trace("main")

signals_init == \/ Sigaction("TERM", "sigterm", "sigint")
                \/ Sigaction("INT", "sigint", "sighup")
                \/ Sigaction("HUP", "sighup", "app_init")

\* The credentials of the device are there and verify, or the process ends.
application_init ==
  /\ \/ Go("app_init", "new") /\ UNCHANGED shared
     \/ Fail("app_init", "Unknown")
  /\ Trace("main")

----------------------------------------------------------------------------
(* MblCloudClient::run, its set-up.                                        *)

\* InstanceScoper makes the instance, with the library's client, whose event
\* loop starts, and the broker; run() then registers the handlers.
NewInstance ==
  /\ MainStep("new", "called")
  /\ s_instance' = TRUE /\ client' = "made" /\ state_' = "Unregistered" /\ loop' = "idle"
  /\ UNCHANGED <<result, code, s_mutex, timeVars, sigVars>>
  /\ Trace("main")

\* cloud_client_setup notes under the mutex that it is about to register, and
\* calls the library's setup: from here on there are events.
CallSetup ==
  /\ Go("called", "setup")
  /\ s_mutex = None
  /\ state_' = "CalledRegister" /\ client' = "started"
  /\ UNCHANGED <<s_mutex, s_instance, logVars>>

\* Fault: the state is set when the library's setup has returned.
SetupReturns_SetsState ==
  /\ MainStep("setup", "top")
  /\ s_mutex = None
  /\ state_' = "CalledRegister"
  /\ due' = Lifetime \div 2 /\ age' = 0 /\ delay' = 0
  /\ UNCHANGED <<result, code, loop, s_mutex, s_instance, client, sigVars, logVars>>

\* The D-Bus object of the resource broker does nothing yet, and the broker returns
\* its result.
IpcDBus_Init == "None"
Broker_Init  == IpcDBus_Init

\* setup returns.  A broker that fails is only reported; the first re-registration
\* is due in half of the lifetime.
SetupReturns ==
  \/ /\ MainStep("setup", "top")
     /\ due' = Lifetime \div 2 /\ age' = 0 /\ delay' = 0
     /\ IF Broker_Init = "None" THEN UNCHANGED logVars ELSE Trace("main")
     /\ UNCHANGED <<result, code, loop, shared, sigVars>>
  \/ /\ MainStep("setup", "destroy")
     /\ result' = "ConnectUnknownError"
     /\ UNCHANGED <<code, loop, shared, timeVars, sigVars>>
     /\ Trace("main")

----------------------------------------------------------------------------
(* MblCloudClient::run, its loop.                                          *)

\* run() returns e: its variables end, and the scope of the instance.
RunReturns(from, e) == /\ MainStep(from, "destroy")
                       /\ result' = e
                       /\ due' = 0 /\ age' = 0 /\ UNCHANGED delay
                       /\ UNCHANGED <<code, loop, shared, sigVars>>

CheckSignal ==
  \/ /\ ~g_shutdown_signal
     /\ Go("top", "check")
     /\ UNCHANGED <<shared, logVars>>
  \/ /\ g_shutdown_signal
     /\ RunReturns("top", "ShutdownRequested")
     /\ Trace("main")

\* The state is read under the mutex.
CheckState ==
  /\ s_mutex = None
  /\ \/ state_ # "Unregistered" /\ Go("check", "time") /\ UNCHANGED shared
     \/ state_ = "Unregistered" /\ RunReturns("check", "DeviceUnregistered")
  /\ UNCHANGED logVars

\* Fault: the next registration is a whole lifetime away.
ReadTime_Lifetime ==
  /\ MainStep("time", IF due <= 0 THEN "update" ELSE "sleep")
  /\ due' = IF due <= 0 THEN Lifetime ELSE due
  /\ UNCHANGED <<result, code, loop, shared, age, delay, sigVars, logVars>>

\* get_monotonic_time_s; the time of the next registration follows from the
\* time that was read, not from the time at which the registration is done.
ReadTime ==
  /\ MainStep("time", IF due <= 0 THEN "update" ELSE "sleep")
  /\ due' = IF due <= 0 THEN Lifetime \div 2 ELSE due
  /\ UNCHANGED <<result, code, loop, shared, age, delay, sigVars, logVars>>

\* The library is not in the way of the main thread.
LibraryFree == ~waits \/ loop = "idle"

RegisterUpdate ==
  /\ MainStep("update", "sleep")
  /\ LibraryFree
  /\ age' = 0 /\ delay' = 0
  /\ UNCHANGED <<result, code, loop, shared, due, sigVars, logVars>>

\* A second passes while run() sleeps or waits in register_update, the steps that
\* take time: sleep(1) ends, unless it, or the call, is delayed.
Tick ==
  /\ pc \in {"sleep", "update"}
  /\ \/ pc = "sleep" /\ pc' = "top" /\ delay' = 0
     \/ delay < MaxDelay /\ delay' = delay + 1 /\ UNCHANGED pc
  /\ due' = due - 1 /\ age' = age + 1
  /\ UNCHANGED <<result, code, shared, loopVars, sigVars, waits, logVars>>

----------------------------------------------------------------------------
(* ~MblCloudClient and the end of main().                                  *)

\* Fault: s_instance is cleared without the mutex.
ClearInstance_NoMutex ==
  /\ Go("destroy", "close")
  /\ s_instance' = FALSE
  /\ UNCHANGED <<s_mutex, client, state_, logVars>>

\* Fault: the event loop is stopped before the client is closed.
ClearInstance_StopFirst ==
  /\ MainStep("destroy", "close")
  /\ s_mutex = None /\ loop = "idle"
  /\ s_instance' = FALSE /\ loop' = "off"
  /\ UNCHANGED <<result, code, timeVars, sigVars, s_mutex, client, state_, logVars>>

\* The destructor first hides the instance from the handlers.
ClearInstance ==
  /\ Go("destroy", "close")
  /\ s_mutex = None
  /\ s_instance' = FALSE
  /\ UNCHANGED <<s_mutex, client, state_, logVars>>

CloseClient ==
  /\ LibraryFree
  /\ Go("close", "delete")
  /\ client' = "closed"
  /\ UNCHANGED <<s_mutex, s_instance, state_, logVars>>

DeleteClient ==
  /\ LibraryFree
  /\ Go("delete", "stop")
  /\ client' = "deleted"
  /\ UNCHANGED <<s_mutex, s_instance, state_, logVars>>

\* ns_event_loop_thread_stop waits for the thread, which then is gone; main()
\* prints its last line.
StopEventLoop ==
  /\ MainStep("stop", "return")
  /\ loop = "idle" /\ loop' = "off"
  /\ UNCHANGED <<result, code, shared, timeVars, sigVars>>
  /\ Trace("main")

\* The process ends; ~MblMutex asserts that the mutex is free.
Return ==
  /\ MainStep("return", "exited")
  /\ code' = IF result = "ShutdownRequested" THEN 0 ELSE 1
  /\ UNCHANGED <<result, loop, shared, timeVars, sigVars, logVars>>

----------------------------------------------------------------------------
(* The event loop thread and its handlers.                                 *)

LoopStep(from, to) == /\ loop = from /\ Out("loop") /\ pc \notin Ended
                      /\ loop' = to
                      /\ UNCHANGED <<mainVars, timeVars, sigVars, waits>>

\* The library has an event for a client that is set up and not deleted.
Dispatch(e) ==
  /\ LoopStep("idle", "begin")
  /\ client \in {"started", "closed"}
  /\ event' = e
  /\ UNCHANGED <<shared, badUse, last, logVars>>

\* update_handlers::handle_authorize grants the requests it knows.
handle_authorize(request) == request \in {"Download", "Install"}

\* What a handler does before it takes the mutex: it prints, and an event of the
\* download, or a request that is not granted, ends here.
HandlerBegins ==
  LET locks == event[1] # "progress" /\ (event[1] = "authorize" => handle_authorize(event[2]))
  IN  /\ LoopStep("begin", IF locks THEN "lock" ELSE "idle")
      /\ event' = IF locks THEN event ELSE None
      /\ UNCHANGED <<shared, badUse, last>>
      /\ IF event[1] = "unregistered" THEN UNCHANGED logVars ELSE Trace("loop")

\* MblMutex; the short critical sections of the main thread are single steps, which
\* only wait for the mutex to be free.
lock(t) == s_mutex = None /\ s_mutex' = t
unlock  == s_mutex' = None

\* MblScopedLock
HandlerLocks ==
  /\ LoopStep("lock", "test")
  /\ lock("loop")
  /\ UNCHANGED <<s_instance, client, state_, event, badUse, last, logVars>>

\* The handler tests s_instance; without one only handle_error has a line to print.
HandlerTests ==
  /\ LoopStep("test", IF s_instance THEN "use" ELSE "unlock")
  /\ UNCHANGED <<shared, event, badUse, last>>
  /\ IF ~s_instance /\ event[1] = "error" THEN Trace("loop") ELSE UNCHANGED logVars

\* It uses *s_instance and its client: to set the state, to print what the client
\* tells, or to authorize the update.
HandlerUses ==
  /\ LoopStep("use", "unlock")
  /\ badUse' = (badUse \/ ~s_instance \/ client # "started")
  /\ state_' = CASE event[1] = "registered"   -> "Registered"
                 [] event[1] = "unregistered" -> "Unregistered"
                 [] OTHER                     -> state_
  /\ last' = IF event[1] \in {"registered", "unregistered"} THEN state_' ELSE last
  /\ UNCHANGED <<s_mutex, s_instance, client, event>>
  /\ IF event[1] \in {"registered", "error"} THEN Trace("loop") ELSE UNCHANGED logVars

HandlerUnlocks ==
  /\ LoopStep("unlock", "idle")
  /\ unlock
  /\ event' = None
  /\ UNCHANGED <<s_instance, client, state_, badUse, last>>
  /\ IF event[1] = "unregistered" /\ s_instance THEN Trace("loop") ELSE UNCHANGED logVars

\* Fault: the product has the width of an unsigned.
percent_Narrow(progress, total) == ((progress * 100) % Word) \div total

\* handle_download_progress: the product is an unsigned long long, of twice the
\* width of progress, and the quotient is cast to unsigned.
percent(progress, total) == (((progress * 100) % (Word * Word)) \div total) % Word

----------------------------------------------------------------------------
(* The environment.                                                        *)

\* The handlers of SIGTERM and SIGINT set a flag, that of SIGHUP another; either
\* ends a sleep.  A signal without a handler kills the process.
Signal(sig) ==
  /\ pc \notin Ended
  /\ pc' = IF sig \notin handled THEN "killed" ELSE IF pc = "sleep" THEN "top" ELSE pc
  /\ delay' = IF pc' = "top" /\ pc = "sleep" THEN 0 ELSE delay
  /\ g_shutdown_signal' = (g_shutdown_signal \/ (sig # "HUP" /\ sig \in handled))
  /\ IF sig = "HUP" /\ sig \in handled THEN mbl_log_reopen_signal_handler ELSE UNCHANGED logVars
  /\ UNCHANGED <<result, code, handled, shared, loopVars, due, age, waits>>

Rotate == RotateLog /\ UNCHANGED <<mainVars, shared, loopVars, timeVars, sigVars, waits>>

----------------------------------------------------------------------------
Main == \/ Daemon \/ log_init \/ signals_init \/ application_init
        \/ NewInstance \/ CallSetup \/ SetupReturns
        \/ CheckSignal \/ CheckState \/ ReadTime \/ RegisterUpdate
        \/ ClearInstance \/ CloseClient \/ DeleteClient \/ StopEventLoop \/ Return

Loop == HandlerBegins \/ HandlerLocks \/ HandlerTests \/ HandlerUses \/ HandlerUnlocks

Printing(t) == /\ pc \notin Ended
               /\ PrintHandler(t)
               /\ UNCHANGED <<mainVars, shared, loopVars, timeVars, sigVars, waits>>

\* The process has ended.
Finished == pc \in Ended /\ UNCHANGED vars

Next == \/ Main \/ Loop \/ Tick \/ Rotate \/ Finished
        \/ \E e \in Events : Dispatch(e)
        \/ \E t \in Threads : Printing(t)
        \/ \E sig \in {"TERM", "INT", "HUP"} : Signal(sig)

\* Both threads are scheduled, a thread that waits for a mutex gets it though the
\* other takes it again and again, the library's calls return, and time passes.
Spec == /\ Init /\ [][Next]_vars
        /\ SF_vars(Main \/ Printing("main")) /\ SF_vars(Loop \/ Printing("loop"))
        /\ WF_vars(Tick)

----------------------------------------------------------------------------
(* Properties                                                              *)

\* No handler of the event loop uses *s_instance or its client once the
\* destructor has begun to take them down, though the thread runs on.
NoUseAfterDelete == ~badUse

\* An event of the registration that comes while setup has not yet returned is
\* not overwritten: state_ is what the last such event asks for.
StateFollowsEvents == pc \in {"setup"} \cup RunLoop => state_ = last

\* The registration is updated before it runs out, though the loop only looks
\* once a second and may be delayed.
RegistrationKept == pc \in RunLoop => age <= Lifetime

\* The percentage logged is at most 100, and 100 only for a finished download:
\* the product does not overflow for any size of the download.
PercentSound ==
  event # None /\ event[1] = "progress" =>
    /\ percent(event[2], event[3]) \in 0..100
    /\ percent(event[2], event[3]) = 100 <=> event[2] = event[3]

\* The line that is printed for an error names it, whichever of its errors the
\* library reports: no case of the two switches, each of which is a table of its
\* own, is missing or crossed, and no two codes are equal.
ErrorsTold ==
  event # None /\ event[1] = "error" =>
    \A e \in CloudClientErrors :
      MblError_to_str(CloudClientError_to_MblError(e)) =
        CASE e = "ConnectErrorNone" -> "None"
          [] e = "NoEnumerator"     -> "Unknown"
          [] OTHER                  -> e

\* SIGTERM or SIGINT, once handled, ends the process, whatever the event loop is
\* doing: the destructor and the handlers never wait for each other.
ShutdownEnds == g_shutdown_signal ~> pc \in Ended
=============================================================================
