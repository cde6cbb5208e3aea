----------------------- MODULE MblCloudClientProofs -------------------------
(***************************************************************************)
(* Proofs about the cloud client daemon, for any lifetime of the           *)
(* registration, any delays that fit in it, any sizes of downloads and any *)
(* errors.                                                                 *)
(***************************************************************************)
EXTENDS MblCloudClient, TLAPS

----------------------------------------------------------------------------
(* The log.                                                                *)

\* What a step does to the log.
LogStep == \/ UNCHANGED logVars
           \/ \E t \in Threads : Trace(t) \/ PrintHandler(t)
           \/ \E ok \in BOOLEAN : OpenLog(ok)
           \/ mbl_log_reopen_signal_handler
           \/ RotateLog

\* A SIGHUP that counts is not forgotten before the path is opened again, and the
\* line begun after it does not see the rotated file.
LogInv ==
  /\ LogTypeOK
  /\ owed => g_log_need_reopen /\ \A t \in Threads : printPc[t] # "reset"
  /\ want => g_log_stream # "rotated"

\* Every step has one of these effects.
LEMMA EveryLogStep == [Next]_vars => LogStep
<1> SUFFICES ASSUME [Next]_vars PROVE LogStep
  OBVIOUS
<1> USE DEF Threads
<1>1. CASE Main
  <2>1. CASE Daemon \/ log_init
    BY <2>1 DEF Daemon, log_init, Go, Fail, LogStep
  <2>2. CASE signals_init \/ application_init
    BY <2>2 DEF signals_init, Sigaction, application_init, LogStep
  <2>3. CASE NewInstance \/ CallSetup \/ SetupReturns
    BY <2>3 DEF NewInstance, CallSetup, SetupReturns, LogStep
  <2>4. CASE CheckSignal \/ CheckState \/ ReadTime \/ RegisterUpdate
    BY <2>4 DEF CheckSignal, CheckState, ReadTime, RegisterUpdate, LogStep
  <2>5. CASE ClearInstance \/ CloseClient \/ DeleteClient \/ StopEventLoop \/ Return
    BY <2>5 DEF ClearInstance, CloseClient, DeleteClient, StopEventLoop, Return, LogStep
  <2> QED BY <1>1, <2>1, <2>2, <2>3, <2>4, <2>5 DEF Main
<1>2. CASE Loop
  BY <1>2 DEF Loop, HandlerBegins, HandlerLocks, HandlerTests, HandlerUses, HandlerUnlocks,
     LogStep
<1>3. CASE Tick \/ Rotate \/ Finished \/ UNCHANGED vars
  BY <1>3 DEF Tick, Rotate, Finished, vars, LogStep
<1>4. CASE \E e \in Events : Dispatch(e)
  BY <1>4 DEF Dispatch, LogStep
<1>5. CASE \E t \in Threads : Printing(t)
  BY <1>5 DEF Printing, LogStep
<1>6. CASE \E sig \in {"TERM", "INT", "HUP"} : Signal(sig)
  BY <1>6 DEF Signal, LogStep
<1> QED BY <1>1, <1>2, <1>3, <1>4, <1>5, <1>6 DEF Next

LEMMA LogInvStep == LogInv /\ LogStep => LogInv'
<1> SUFFICES ASSUME LogInv, LogStep PROVE LogInv'
  OBVIOUS
<1> USE DEF LogInv, LogTypeOK
<1>1. CASE UNCHANGED logVars
  BY <1>1 DEF logVars
<1>2. ASSUME NEW t \in Threads, Trace(t) PROVE LogInv'
  BY <1>2 DEF Trace
<1>3. ASSUME NEW t \in Threads, PrintTest(t) PROVE LogInv'
  <2>1. /\ printPc[t] = "wait" /\ trace_mutex' = t /\ want' = owed
        /\ UNCHANGED <<g_log_need_reopen, owed>>
        /\ \E to \in {"open", "write"} : printPc' = [printPc EXCEPT ![t] = to]
        /\ IF g_log_stream = "closed" \/ g_log_need_reopen
           THEN g_log_stream' = "closed" ELSE g_log_stream' = g_log_stream
    BY <1>3 DEF PrintTest, PrintStep
  <2>2. LogTypeOK'
    BY <2>1
  <2>3. \A s \in Threads : printPc'[s] = "reset" => printPc[s] = "reset"
    BY <2>1
  <2> QED BY <2>1, <2>2, <2>3
<1>4. ASSUME NEW t \in Threads, PrintOpen(t) \/ PrintReset(t) \/ PrintWrite(t) PROVE LogInv'
  <2>1. /\ trace_mutex' \in {trace_mutex, None} /\ want' \in {want, FALSE}
        /\ owed' \in {owed, FALSE} /\ g_log_need_reopen' \in {g_log_need_reopen, FALSE}
        /\ g_log_stream' \in {g_log_stream, "current", "closed"}
        /\ \E to \in {"reset", "write", "out"} : printPc' = [printPc EXCEPT ![t] = to]
    BY <1>4 DEF PrintOpen, PrintReset, PrintWrite, PrintStep
  <2>2. LogTypeOK'
    BY <2>1
  <2>3. owed' => g_log_need_reopen' /\ \A s \in Threads : printPc'[s] # "reset"
    <3>1. CASE PrintOpen(t)
      BY <3>1 DEF PrintOpen
    <3>2. CASE PrintReset(t)
      BY <3>2 DEF PrintReset, PrintStep
    <3>3. CASE PrintWrite(t)
      BY <3>3 DEF PrintWrite, PrintStep
    <3> QED BY <1>4, <3>1, <3>2, <3>3
  <2>4. want' => g_log_stream' # "rotated"
    BY <2>1
  <2> QED BY <2>2, <2>3, <2>4
<1>5. ASSUME NEW ok \in BOOLEAN, OpenLog(ok) PROVE LogInv'
  BY <1>5 DEF OpenLog
<1>6. CASE mbl_log_reopen_signal_handler
  BY <1>6 DEF mbl_log_reopen_signal_handler
<1>7. CASE RotateLog
  BY <1>7 DEF RotateLog
<1> QED BY <1>1, <1>2, <1>3, <1>4, <1>5, <1>6, <1>7 DEF LogStep, PrintHandler

----------------------------------------------------------------------------
(* The percentage of a download.                                           *)

\* handle_download_progress computes a percentage.
LEMMA PercentBounds ==
  ASSUME NEW p \in Sizes, NEW t \in Sizes, p <= t
  PROVE  /\ percent(p, t) \in 0..100
         /\ percent(p, t) = 100 <=> p = t
<1>1. /\ Word \in Nat /\ Word > 100 /\ p \in Nat /\ t \in Nat \ {0} /\ p < Word
  BY ClientAssumption
<1>2. p * 100 \in Nat /\ p * 100 < Word * Word
  <2>1. p * 100 < Word * 100
    BY <1>1
  <2>2. Word * 100 <= Word * Word
    BY <1>1
  <2> QED BY <1>1, <2>1, <2>2
<1>3. (p * 100) % (Word * Word) = p * 100
  BY <1>1, <1>2
<1> DEFINE q == (p * 100) \div t
<1>4. q \in Nat /\ t * q <= p * 100 /\ p * 100 < t * (q + 1)
  BY <1>1
<1> HIDE DEF q
<1>5. q <= 100
  <2>1. t * q <= t * 100
    BY <1>1, <1>4
  <2> QED BY <1>1, <1>4, <2>1
<1>6. q = 100 <=> p = t
  BY <1>1, <1>4, <1>5
<1>7. q % Word = q
  BY <1>1, <1>4, <1>5
<1> QED BY <1>3, <1>4, <1>5, <1>6, <1>7 DEF percent, q

----------------------------------------------------------------------------
(* The inductive invariant.                                                *)

Period == Lifetime \div 2

LEMMA PeriodFits ==
  Period \in Nat /\ Period >= 1 /\ Period >= 2 * MaxDelay /\ 2 * Period <= Lifetime
  BY ClientAssumption DEF Period

\* The results that main() returns are error codes.
LEMMA ResultNames ==
  {"None", "Unknown", "LogInitFopen", "LogInitMutexCreate", "SignalsInitSigaction",
   "DeviceUnregistered", "ShutdownRequested", "ConnectUnknownError"} \subseteq DOMAIN Error
<1>1. DOMAIN Error = UNION {ToSet(Groups[g]) : g \in DOMAIN Groups}
  BY DEF Error
<1>2. 1 \in DOMAIN Groups /\ Groups[1] = GeneralErrors /\ 2 \in DOMAIN Groups
      /\ Groups[2] = ConnectErrors
  BY DEF Groups
<1>3. {"None", "Unknown", "LogInitFopen", "LogInitMutexCreate", "SignalsInitSigaction",
       "DeviceUnregistered", "ShutdownRequested"} \subseteq ToSet(GeneralErrors)
  BY DEF GeneralErrors, ToSet
<1>4. "ConnectUnknownError" \in ToSet(ConnectErrors)
  BY DEF ConnectErrors, ToSet
<1>5. ToSet(GeneralErrors) \subseteq DOMAIN Error /\ ToSet(ConnectErrors) \subseteq DOMAIN Error
  BY <1>1, <1>2
<1> QED BY <1>3, <1>4, <1>5

\* Where the main thread is says what there is of the instance and of the event
\* loop; the event loop holds s_mutex from its test to its unlock, and what it
\* found there is still so when it uses it.
ThreadInv ==
  /\ s_mutex = IF loop \in {"test", "use", "unlock"} THEN "loop" ELSE None
  /\ pc \in Setup \ {"called", "setup"} => loop = "off"
  /\ pc = "called" => loop = "idle" /\ client = "made" /\ s_instance
  /\ pc \in {"setup", "destroy"} \cup RunLoop => client = "started" /\ s_instance
  /\ pc \in {"close", "delete", "stop"} => ~s_instance
  /\ pc = "return" => loop = "off"
  /\ loop = "use" => s_instance /\ client = "started"

\* No event is handled before the library's setup is called.
LastInv == pc \in Setup \ {"setup"} => last = "CalledRegister"

\* How far the re-registration is, for each place in the loop of run().
TimeInv ==
  /\ pc \in {"top", "check", "time"} => delay = 0 /\ due + MaxDelay >= 0 /\ age + due <= Period
  /\ pc = "sleep" => due + delay >= 1 /\ age + due <= Period
  /\ pc = "update" => due + delay = Period /\ age <= Period + MaxDelay + delay

IInv == TypeOK /\ LogInv /\ ThreadInv /\ LastInv /\ StateFollowsEvents /\ TimeInv
          /\ NoUseAfterDelete

LEMMA InitIInv == Init => IInv
<1> SUFFICES ASSUME Init PROVE IInv
  OBVIOUS
<1>1. LogInv
  BY DEF Init, LogInit, LogInv, LogTypeOK, Threads
<1>2. TypeOK
  <2>1. /\ pc \in Setup /\ handled \subseteq {"TERM", "INT", "HUP"} /\ s_mutex = None
        /\ client = "none" /\ state_ \in States /\ last \in States /\ result \in DOMAIN Error
        /\ code = None /\ loop = "off" /\ event = None /\ due \in Int /\ age \in Nat
        /\ delay \in 0..MaxDelay
    BY ResultNames, ClientAssumption DEF Init, Setup, States
  <2>2. /\ g_shutdown_signal \in BOOLEAN /\ s_instance \in BOOLEAN /\ badUse \in BOOLEAN
        /\ waits \in BOOLEAN
    BY DEF Init
  <2> QED BY <1>1, <2>1, <2>2 DEF TypeOK, LogInv
<1>3. ThreadInv /\ LastInv /\ StateFollowsEvents /\ TimeInv /\ NoUseAfterDelete
  BY DEF Init, ThreadInv, LastInv, StateFollowsEvents, TimeInv, NoUseAfterDelete, Setup, RunLoop
<1> QED BY <1>1, <1>2, <1>3 DEF IInv

\* What the invariant says beyond the log.
Sound == ThreadInv /\ LastInv /\ StateFollowsEvents /\ TimeInv /\ NoUseAfterDelete

\* The flags stay flags.
LEMMA FlagStep ==
  ASSUME IInv, [Next]_vars
  PROVE  /\ g_shutdown_signal' \in BOOLEAN /\ s_instance' \in BOOLEAN
         /\ badUse' \in BOOLEAN /\ waits' \in BOOLEAN
<1>0. /\ g_shutdown_signal \in BOOLEAN /\ s_instance \in BOOLEAN
      /\ badUse \in BOOLEAN /\ waits \in BOOLEAN
  BY DEF IInv, TypeOK
<1>1. waits' = waits
  BY DEF Next, Main, Daemon, log_init, signals_init, Sigaction, application_init, NewInstance,
     CallSetup, SetupReturns, CheckSignal, CheckState, RunReturns, ReadTime, RegisterUpdate,
     ClearInstance, CloseClient, DeleteClient, StopEventLoop, Return, Loop, HandlerBegins,
     HandlerLocks, HandlerTests, HandlerUses, HandlerUnlocks, Tick, Rotate, Finished, Dispatch,
     Printing, Signal, MainStep, Go, Fail, LoopStep, vars
<1>2. badUse' = badUse \/ badUse' = (badUse \/ ~s_instance \/ client # "started")
  BY DEF Next, Main, Daemon, log_init, signals_init, Sigaction, application_init, NewInstance,
     CallSetup, SetupReturns, CheckSignal, CheckState, RunReturns, ReadTime, RegisterUpdate,
     ClearInstance, CloseClient, DeleteClient, StopEventLoop, Return, Loop, HandlerBegins,
     HandlerLocks, HandlerTests, HandlerUses, HandlerUnlocks, Tick, Rotate, Finished, Dispatch,
     Printing, Signal, MainStep, Go, Fail, LoopStep, loopVars, vars
<1>3. s_instance' \in {s_instance, TRUE, FALSE}
  BY DEF Next, Main, Daemon, log_init, signals_init, Sigaction, application_init, NewInstance,
     CallSetup, SetupReturns, CheckSignal, CheckState, RunReturns, ReadTime, RegisterUpdate,
     ClearInstance, CloseClient, DeleteClient, StopEventLoop, Return, Loop, HandlerBegins,
     HandlerLocks, HandlerTests, HandlerUses, HandlerUnlocks, Tick, Rotate, Finished, Dispatch,
     Printing, Signal, MainStep, Go, Fail, LoopStep, shared, vars
<1>4. g_shutdown_signal' = g_shutdown_signal
      \/ \E sig \in {"TERM", "INT", "HUP"} :
           g_shutdown_signal' = (g_shutdown_signal \/ (sig # "HUP" /\ sig \in handled))
  BY DEF Next, Main, Daemon, log_init, signals_init, Sigaction, application_init, NewInstance,
     CallSetup, SetupReturns, CheckSignal, CheckState, RunReturns, ReadTime, RegisterUpdate,
     ClearInstance, CloseClient, DeleteClient, StopEventLoop, Return, Loop, HandlerBegins,
     HandlerLocks, HandlerTests, HandlerUses, HandlerUnlocks, Tick, Rotate, Finished, Dispatch,
     Printing, Signal, MainStep, Go, Fail, LoopStep, sigVars, vars
<1> QED BY <1>0, <1>1, <1>2, <1>3, <1>4

\* The types of the other variables.
OtherTypes ==
  /\ pc \in Setup \cup RunLoop \cup Teardown \cup Ended
  /\ handled \subseteq {"TERM", "INT", "HUP"}
  /\ s_mutex \in Threads \cup {None}
  /\ client \in {"none", "made", "started", "closed", "deleted"}
  /\ state_ \in States /\ last \in States
  /\ result \in DOMAIN Error
  /\ code \in {0, 1, None}
  /\ loop \in {"off", "idle", "begin", "lock", "test", "use", "unlock"}
  /\ event \in Events \cup {None}
  /\ due \in Int /\ age \in Nat /\ delay \in 0..MaxDelay

\* Every step keeps every variable in its type.
LEMMA OtherTypeStep == IInv /\ [Next]_vars => OtherTypes'
<1> SUFFICES ASSUME IInv, [Next]_vars PROVE OtherTypes'
  OBVIOUS
<1>0. OtherTypes
  BY DEF IInv, TypeOK, OtherTypes
<1>n. /\ Period \in Nat /\ MaxDelay \in Nat
      /\ {"None", "Unknown", "LogInitFopen", "LogInitMutexCreate", "SignalsInitSigaction",
          "DeviceUnregistered", "ShutdownRequested", "ConnectUnknownError"} \subseteq DOMAIN Error
  BY PeriodFits, ResultNames, ClientAssumption
<1>1. CASE Main
  <2> USE <1>0, <1>1 DEF OtherTypes, Main, Daemon, log_init, signals_init, Sigaction,
        application_init, NewInstance, CallSetup, SetupReturns, CheckSignal, CheckState,
        RunReturns, ReadTime, RegisterUpdate, ClearInstance, CloseClient, DeleteClient,
        StopEventLoop, Return, MainStep, Go, Fail
  <2>1. pc' \in Setup \cup RunLoop \cup Teardown \cup Ended
    BY DEF Setup, RunLoop, Teardown, Ended
  <2>2. handled' \subseteq {"TERM", "INT", "HUP"}
    BY DEF sigVars
  <2>3. /\ s_mutex' = s_mutex /\ event' = event /\ last' = last
        /\ client' \in {client, "made", "started", "closed", "deleted"}
        /\ state_' \in {state_, "Unregistered", "CalledRegister"}
    BY DEF shared
  <2>4. result' \in DOMAIN Error
    BY <1>n
  <2>5. code' \in {0, 1, None} /\ loop' \in {loop, "idle", "off"}
    OBVIOUS
  <2>6. due' \in {due, 0, Period} /\ age' \in {age, 0} /\ delay' \in {delay, 0}
    BY DEF timeVars, Period
  <2> QED BY <1>n, <2>1, <2>2, <2>3, <2>4, <2>5, <2>6 DEF States
<1> USE <1>0, <1>n DEF OtherTypes, Setup, RunLoop, Teardown, Ended, States, mainVars, shared,
        loopVars, timeVars, sigVars
<1>2. CASE HandlerBegins \/ HandlerLocks \/ HandlerTests \/ HandlerUnlocks
  <2>1. /\ UNCHANGED <<pc, result, code, due, age, delay, handled, client, state_, last>>
        /\ event' \in {event, None}
    BY <1>2 DEF HandlerBegins, HandlerLocks, HandlerTests, HandlerUnlocks, LoopStep
  <2>2. /\ s_mutex' \in {s_mutex, "loop", None}
        /\ loop' \in {"idle", "lock", "test", "use", "unlock"}
    BY <1>2 DEF HandlerBegins, HandlerLocks, HandlerTests, HandlerUnlocks, LoopStep, lock, unlock
  <2> QED BY <2>1, <2>2 DEF Threads
<1>3. CASE HandlerUses
  <2>1. state_' \in States /\ last' \in States
    BY <1>3 DEF HandlerUses
  <2> QED BY <1>3, <2>1 DEF HandlerUses, LoopStep
<1>4. CASE Tick
  BY <1>4 DEF Tick
<1>5. CASE Rotate
  BY <1>5 DEF Rotate
<1>6. CASE \E e \in Events : Dispatch(e)
  BY <1>6 DEF Dispatch, LoopStep
<1>7. CASE \E t \in Threads : Printing(t)
  BY <1>7 DEF Printing
<1>8. ASSUME NEW sig \in {"TERM", "INT", "HUP"}, Signal(sig) PROVE OtherTypes'
  BY <1>8 DEF Signal
<1>9. CASE Finished \/ UNCHANGED vars
  <2>1. UNCHANGED <<mainVars, shared, loopVars, timeVars, sigVars, waits>>
    BY <1>9 DEF Finished, vars
  <2> QED BY <2>1
<1> QED BY <1>1, <1>2, <1>3, <1>4, <1>5, <1>6, <1>7, <1>8, <1>9 DEF Next, Loop

LEMMA TypeStep == IInv /\ [Next]_vars => TypeOK'
<1> SUFFICES ASSUME IInv, [Next]_vars PROVE TypeOK'
  OBVIOUS
<1>1. LogTypeOK'
  <2>1. LogInv'
    BY EveryLogStep, LogInvStep DEF IInv
  <2> QED BY <2>1 DEF LogInv
<1> QED BY <1>1, FlagStep, OtherTypeStep DEF TypeOK, OtherTypes

\* The main thread sets up the process.
LEMMA SetupSteps ==
  ASSUME IInv, Daemon \/ log_init \/ signals_init \/ application_init \/ NewInstance
  PROVE  Sound'
<1> USE DEF mainVars, shared, loopVars, timeVars, sigVars, MainStep, Go, Fail
<1>1. /\ pc \in Setup \ {"called", "setup"} /\ last' = last /\ badUse' = badUse
      /\ \/ /\ pc' \in (Setup \ {"called", "setup"}) \cup {"return"}
            /\ loop' = loop /\ s_mutex' = s_mutex
         \/ /\ pc' = "called" /\ loop' = "idle" /\ client' = "made" /\ s_instance' = TRUE
            /\ s_mutex' = s_mutex
  BY DEF Daemon, log_init, signals_init, Sigaction, application_init, NewInstance, Setup
<1>2. loop = "off" /\ s_mutex = None /\ last = "CalledRegister" /\ ~badUse
  BY <1>1 DEF IInv, ThreadInv, LastInv, NoUseAfterDelete
<1>3. ThreadInv'
  BY <1>1, <1>2 DEF ThreadInv, Setup, RunLoop
<1>4. LastInv' /\ StateFollowsEvents' /\ TimeInv' /\ NoUseAfterDelete'
  BY <1>1, <1>2 DEF LastInv, StateFollowsEvents, TimeInv, NoUseAfterDelete, Setup, RunLoop
<1> QED BY <1>3, <1>4 DEF Sound

\* The main thread registers with the server.
LEMMA RegisterSteps ==
  ASSUME IInv, CallSetup \/ SetupReturns
  PROVE  Sound'
<1> USE DEF mainVars, shared, loopVars, timeVars, sigVars, MainStep, Go, Fail
<1>0. ThreadInv /\ LastInv /\ StateFollowsEvents /\ NoUseAfterDelete
  BY DEF IInv
<1>1. CASE CallSetup
  <2>1. /\ pc = "called" /\ pc' = "setup" /\ client' = "started" /\ state_' = "CalledRegister"
        /\ UNCHANGED <<s_mutex, s_instance, loop, last, badUse>>
    BY <1>1 DEF CallSetup
  <2>2. ThreadInv'
    BY <1>0, <2>1 DEF ThreadInv, Setup, RunLoop
  <2>3. LastInv' /\ StateFollowsEvents' /\ TimeInv' /\ NoUseAfterDelete'
    BY <1>0, <2>1 DEF LastInv, StateFollowsEvents, TimeInv, NoUseAfterDelete, Setup, RunLoop
  <2> QED BY <2>2, <2>3 DEF Sound
<1>2. CASE SetupReturns
  <2>1. /\ pc = "setup" /\ pc' \in {"top", "destroy"}
        /\ pc' = "top" => due' = Period /\ age' = 0 /\ delay' = 0
        /\ UNCHANGED <<s_mutex, s_instance, client, state_, loop, last, badUse>>
    BY <1>2 DEF SetupReturns, Period
  <2>2. ThreadInv'
    BY <1>0, <2>1 DEF ThreadInv, Setup, RunLoop
  <2>3. LastInv' /\ StateFollowsEvents' /\ NoUseAfterDelete'
    BY <1>0, <2>1 DEF LastInv, StateFollowsEvents, NoUseAfterDelete, Setup, RunLoop
  <2>4. TimeInv'
    BY <2>1, PeriodFits, ClientAssumption DEF TimeInv
  <2> QED BY <2>2, <2>3, <2>4 DEF Sound
<1> QED BY <1>1, <1>2

\* The loop of run().
LEMMA RunSteps ==
  ASSUME IInv, CheckSignal \/ CheckState \/ ReadTime \/ RegisterUpdate \/ Tick
  PROVE  Sound'
<1> USE DEF mainVars, shared, loopVars, timeVars, sigVars, MainStep, Go
<1>0. TypeOK /\ ThreadInv /\ LastInv /\ StateFollowsEvents /\ NoUseAfterDelete /\ TimeInv
  BY DEF IInv
<1>1. /\ pc \in RunLoop /\ pc' \in RunLoop \cup {"destroy"}
      /\ UNCHANGED <<s_mutex, s_instance, client, state_, loop, last, badUse>>
  BY DEF CheckSignal, CheckState, RunReturns, ReadTime, RegisterUpdate, Tick, RunLoop
<1>2. ThreadInv'
  BY <1>0, <1>1 DEF ThreadInv, Setup, RunLoop
<1>3. LastInv' /\ StateFollowsEvents' /\ NoUseAfterDelete'
  BY <1>0, <1>1 DEF LastInv, StateFollowsEvents, NoUseAfterDelete, Setup, RunLoop
<1>4. due \in Int /\ age \in Nat /\ delay \in 0..MaxDelay /\ MaxDelay \in Nat
  BY <1>0, ClientAssumption DEF TypeOK
<1>5. TimeInv'
  <2>1. CASE CheckSignal \/ CheckState
    BY <1>0, <2>1 DEF CheckSignal, CheckState, RunReturns, TimeInv
  <2>2. CASE ReadTime
    <3>1. pc = "time" /\ age' = age /\ delay' = delay
      BY <2>2 DEF ReadTime
    <3>2. CASE due <= 0
      <4>1. pc' = "update" /\ due' = Period
        BY <2>2, <3>2 DEF ReadTime, Period
      <4> QED BY <1>0, <1>4, <3>1, <3>2, <4>1, PeriodFits DEF TimeInv
    <3>3. CASE ~(due <= 0)
      <4>1. pc' = "sleep" /\ due' = due
        BY <2>2, <3>3 DEF ReadTime
      <4> QED BY <1>0, <1>4, <3>1, <3>3, <4>1 DEF TimeInv
    <3> QED BY <3>2, <3>3
  <2>3. CASE RegisterUpdate
    <3>1. pc = "update" /\ pc' = "sleep" /\ age' = 0 /\ delay' = 0 /\ due' = due
      BY <2>3 DEF RegisterUpdate
    <3> QED BY <1>0, <1>4, <3>1, PeriodFits DEF TimeInv
  <2>4. CASE Tick
    <3>1. /\ due' = due - 1 /\ age' = age + 1
          /\ \/ pc = "sleep" /\ pc' = "top" /\ delay' = 0
             \/ pc \in {"sleep", "update"} /\ pc' = pc /\ delay < MaxDelay /\ delay' = delay + 1
      BY <2>4 DEF Tick
    <3> QED BY <1>0, <1>4, <3>1, PeriodFits DEF TimeInv
  <2> QED BY <2>1, <2>2, <2>3, <2>4
<1> QED BY <1>2, <1>3, <1>5 DEF Sound

\* The destructor and the end of main().
LEMMA TeardownSteps ==
  ASSUME IInv, ClearInstance \/ CloseClient \/ DeleteClient \/ StopEventLoop \/ Return
  PROVE  Sound'
<1> USE DEF mainVars, shared, loopVars, timeVars, sigVars, MainStep, Go
<1>0. TypeOK /\ ThreadInv /\ NoUseAfterDelete
  BY DEF IInv
<1>1. /\ pc' \in {"close", "delete", "stop", "return", "exited"}
      /\ UNCHANGED <<s_mutex, badUse>>
      /\ pc' # "return" => loop' = loop
      /\ pc' = "return" => loop = "idle" /\ loop' = "off"
      /\ pc = "destroy" => pc' = "close" /\ s_mutex = None /\ ~s_instance'
      /\ pc # "destroy" => pc \in {"close", "delete", "stop", "return"} /\ s_instance' = s_instance
      /\ pc = "return" => pc' = "exited"
  BY DEF ClearInstance, CloseClient, DeleteClient, StopEventLoop, Return
<1>2. loop # "use"
  BY <1>0, <1>1, LogAssumption DEF ThreadInv, Threads
<1>3. ThreadInv'
  BY <1>0, <1>1, <1>2 DEF ThreadInv, Setup, RunLoop
<1>4. LastInv' /\ StateFollowsEvents' /\ TimeInv' /\ NoUseAfterDelete'
  BY <1>0, <1>1 DEF LastInv, StateFollowsEvents, TimeInv, NoUseAfterDelete, Setup, RunLoop
<1> QED BY <1>3, <1>4 DEF Sound

\* The event loop thread.
LEMMA LoopSteps ==
  ASSUME IInv, Loop \/ \E e \in Events : Dispatch(e)
  PROVE  Sound'
<1> USE DEF mainVars, shared, loopVars, timeVars, sigVars, LoopStep
<1>0. ThreadInv /\ LastInv /\ StateFollowsEvents /\ NoUseAfterDelete /\ TimeInv
  BY DEF IInv
<1>1. /\ pc \notin Ended /\ UNCHANGED <<pc, due, age, delay, s_instance, client>>
      /\ loop # "off" /\ loop' # "off"
      /\ pc = "called" => loop # "idle"
  BY <1>0 DEF Loop, HandlerBegins, HandlerLocks, HandlerTests, HandlerUses, HandlerUnlocks,
     Dispatch, ThreadInv
<1>2. s_mutex' = IF loop' \in {"test", "use", "unlock"} THEN "loop" ELSE None
  BY <1>0 DEF Loop, HandlerBegins, HandlerLocks, HandlerTests, HandlerUses, HandlerUnlocks,
     Dispatch, ThreadInv, lock, unlock
<1>3. loop' = "use" => s_instance
  BY <1>0 DEF Loop, HandlerBegins, HandlerLocks, HandlerTests, HandlerUses, HandlerUnlocks,
     Dispatch
<1>4. s_instance => client = "started"
  BY <1>0, <1>1 DEF IInv, TypeOK, ThreadInv, Setup, RunLoop, Teardown, Ended
<1>5. ThreadInv'
  BY <1>0, <1>1, <1>2, <1>3, <1>4 DEF ThreadInv
<1>6. LastInv' /\ StateFollowsEvents' /\ NoUseAfterDelete'
  <2>1. CASE HandlerUses
    <3>1. loop = "use" /\ pc \notin Setup \ {"setup"}
      BY <1>0, <1>1, <2>1 DEF HandlerUses, ThreadInv, Setup
    <3>2. ~badUse'
      BY <1>0, <2>1, <3>1 DEF HandlerUses, ThreadInv, NoUseAfterDelete
    <3>3. (state_' = state_ /\ last' = last) \/ last' = state_'
      BY <2>1 DEF HandlerUses
    <3> QED BY <1>0, <1>1, <3>1, <3>2, <3>3 DEF LastInv, StateFollowsEvents, NoUseAfterDelete
  <2>2. CASE ~HandlerUses
    <3>1. UNCHANGED <<state_, last, badUse>>
      BY <2>2 DEF Loop, HandlerBegins, HandlerLocks, HandlerTests, HandlerUnlocks, Dispatch
    <3> QED BY <1>0, <1>1, <3>1 DEF LastInv, StateFollowsEvents, NoUseAfterDelete
  <2> QED BY <2>1, <2>2
<1>7. TimeInv'
  BY <1>0, <1>1 DEF TimeInv
<1> QED BY <1>5, <1>6, <1>7 DEF Sound

\* Signals, lines of the log, the rotation and the end.
LEMMA OutsideSteps ==
  ASSUME IInv,
         \/ Rotate \/ Finished \/ UNCHANGED vars
         \/ \E t \in Threads : Printing(t)
         \/ \E sig \in {"TERM", "INT", "HUP"} : Signal(sig)
  PROVE  Sound'
<1> USE DEF mainVars, shared, loopVars, timeVars, sigVars
<1>0. TypeOK /\ ThreadInv /\ LastInv /\ StateFollowsEvents /\ NoUseAfterDelete /\ TimeInv
  BY DEF IInv
<1>1. /\ UNCHANGED <<s_mutex, s_instance, client, state_, loop, last, badUse, due, age>>
      /\ \/ pc' = pc /\ delay' = delay
         \/ pc' = "killed"
         \/ pc = "sleep" /\ pc' = "top" /\ delay' = 0
  BY DEF Rotate, Finished, vars, Printing, Signal
<1>2. ThreadInv'
  BY <1>0, <1>1 DEF ThreadInv, Setup, RunLoop
<1>3. LastInv' /\ StateFollowsEvents' /\ NoUseAfterDelete'
  BY <1>0, <1>1 DEF LastInv, StateFollowsEvents, NoUseAfterDelete, Setup, RunLoop
<1>4. TimeInv'
  <2>1. due \in Int /\ delay \in 0..MaxDelay /\ MaxDelay \in Nat
    BY <1>0, ClientAssumption DEF TypeOK
  <2> QED BY <1>0, <1>1, <2>1 DEF TimeInv
<1> QED BY <1>2, <1>3, <1>4 DEF Sound

LEMMA StepIInv == IInv /\ [Next]_vars => IInv'
<1> SUFFICES ASSUME IInv, [Next]_vars PROVE IInv'
  OBVIOUS
<1>1. TypeOK'
  BY TypeStep
<1>2. LogInv'
  BY EveryLogStep, LogInvStep DEF IInv
<1>3. Sound'
  BY SetupSteps, RegisterSteps, RunSteps, TeardownSteps, LoopSteps, OutsideSteps DEF Next, Main
<1> QED BY <1>1, <1>2, <1>3 DEF IInv, Sound

LEMMA Invariance == Spec => []IInv
<1> QED BY InitIInv, StepIInv, PTL DEF Spec

----------------------------------------------------------------------------
(* The names of the errors.                                                *)

\* Every group of codes has less than 256 of them, as the tables begin 256 apart.
LEMMA GroupSizes ==
  /\ DOMAIN Groups = 1..4
  /\ \A g \in 1..4 : \E k \in 0..255 : DOMAIN Groups[g] = 1..k
<1>1. Groups[1] = GeneralErrors /\ Groups[2] = ConnectErrors /\ Groups[3] = UpdateErrors
      /\ Groups[4] = EnrollmentErrors /\ DOMAIN Groups = 1..4
  BY DEF Groups
<1>2. DOMAIN GeneralErrors = 1..7
  BY DEF GeneralErrors
<1>3. DOMAIN ConnectErrors = 1..15
  BY DEF ConnectErrors
<1>4. DOMAIN UpdateErrors = 1..20
  BY DEF UpdateErrors
<1>5. DOMAIN EnrollmentErrors = 1..2
  BY DEF EnrollmentErrors
<1>6. ASSUME NEW g \in 1..4 PROVE \E k \in 0..255 : DOMAIN Groups[g] = 1..k
  <2>1. 7 \in 0..255 /\ 15 \in 0..255 /\ 20 \in 0..255 /\ 2 \in 0..255
    OBVIOUS
  <2>2. g = 1 \/ g = 2 \/ g = 3 \/ g = 4
    OBVIOUS
  <2> QED BY <1>1, <1>2, <1>3, <1>4, <1>5, <2>1, <2>2, Zenon
<1> QED BY <1>1, <1>6

\* The place of a name in the tables, and the code that goes with it.
At(name, g, n) == Groups[g][n] = name /\ Error[name] = 256 * (g - 1) + n - 1

LEMMA CodeOf ==
  ASSUME NEW name \in DOMAIN Error
  PROVE  \E g \in 1..4, n \in 1..255 : At(name, g, n)
<1> DEFINE G == CHOOSE g \in DOMAIN Groups : name \in ToSet(Groups[g])
           N == CHOOSE n \in DOMAIN Groups[G] : Groups[G][n] = name
<1>1. name \in UNION {ToSet(Groups[g]) : g \in DOMAIN Groups}
  BY DEF Error
<1>2. G \in DOMAIN Groups /\ name \in ToSet(Groups[G])
  BY <1>1
<1>3. N \in DOMAIN Groups[G] /\ Groups[G][N] = name
  <2>1. \E n \in DOMAIN Groups[G] : Groups[G][n] = name
    BY <1>2, Zenon DEF ToSet
  <2> QED BY <2>1, Zenon
<1>4. Error[name] = 256 * (G - 1) + N - 1
  BY <1>1 DEF Error
<1> HIDE DEF G, N
<1>5. G \in 1..4 /\ N \in 1..255
  <2>1. G \in 1..4
    BY <1>2, GroupSizes
  <2>2. PICK k \in 0..255 : DOMAIN Groups[G] = 1..k
    BY <2>1, GroupSizes
  <2>3. N \in 1..k
    BY <1>3, <2>2
  <2> QED BY <2>1, <2>3
<1> QED BY <1>3, <1>4, <1>5 DEF At

\* No two names share a code.
LEMMA CodesDiffer ==
  ASSUME NEW a \in DOMAIN Error, NEW b \in DOMAIN Error, Error[a] = Error[b]
  PROVE  a = b
<1>1. PICK g \in 1..4, n \in 1..255 : At(a, g, n)
  BY CodeOf
<1>2. PICK h \in 1..4, m \in 1..255 : At(b, h, m)
  BY CodeOf
<1>3. 256 * (g - 1) + n - 1 = 256 * (h - 1) + m - 1
  BY <1>1, <1>2 DEF At
<1>4. g = h /\ n = m
  BY <1>3
<1> QED BY <1>1, <1>2, <1>4 DEF At

\* The cases of the first switch: every error of the library is translated to the
\* enumerator of the same name, and its success to None.
LEMMA TranslationCases ==
  /\ \A e \in DOMAIN Translations : Translations[e] = IF e = "ConnectErrorNone" THEN "None" ELSE e
  /\ CloudClientErrors = DOMAIN Translations \cup {"NoEnumerator"}
  /\ "NoEnumerator" \notin DOMAIN Translations
<1>1. \A e \in DOMAIN Translations : Translations[e] = IF e = "ConnectErrorNone" THEN "None" ELSE e
  BY DEF Translations
<1>2. /\ ToSet(ConnectErrors) \cup ToSet(EnrollmentErrors) \subseteq DOMAIN Translations
      /\ "ConnectErrorNone" \in DOMAIN Translations
  BY DEF ToSet, ConnectErrors, EnrollmentErrors, Translations
<1>3. ToSet(UpdateErrors) \subseteq DOMAIN Translations
  BY DEF ToSet, UpdateErrors, Translations
<1>4. DOMAIN Translations \subseteq {"ConnectErrorNone"} \cup ToSet(ConnectErrors)
                                   \cup ToSet(UpdateErrors) \cup ToSet(EnrollmentErrors)
  <2>1. \A e \in DOMAIN Translations : \/ e = "ConnectErrorNone"
                                       \/ \E n \in DOMAIN ConnectErrors : ConnectErrors[n] = e
                                       \/ \E n \in DOMAIN UpdateErrors : UpdateErrors[n] = e
                                       \/ \E n \in DOMAIN EnrollmentErrors : EnrollmentErrors[n] = e
    BY DEF Translations, ConnectErrors, UpdateErrors, EnrollmentErrors
  <2> QED BY <2>1 DEF ToSet
<1>5. "NoEnumerator" \notin DOMAIN Translations
  BY DEF Translations
<1> QED BY <1>1, <1>2, <1>3, <1>4, <1>5 DEF CloudClientErrors

\* The cases of the second switch: it has one for every enumerator, and prints the
\* name of those that the first may return.
LEMMA StringCases ==
  /\ DOMAIN Strings \subseteq DOMAIN Error
  /\ {"None", "Unknown"} \subseteq DOMAIN Strings
  /\ DOMAIN Translations \subseteq DOMAIN Strings \cup {"ConnectErrorNone"}
  /\ \A e \in DOMAIN Translations \cup {"None", "Unknown"} : e = "ConnectErrorNone" \/ Strings[e] = e
<1>1. \A l \in DOMAIN Strings : \E g \in 1..4 : \E n \in DOMAIN Groups[g] : Groups[g][n] = l
  BY DEF Strings, Groups, GeneralErrors, ConnectErrors, UpdateErrors, EnrollmentErrors
<1>2. DOMAIN Error = UNION {ToSet(Groups[g]) : g \in DOMAIN Groups} /\ DOMAIN Groups = 1..4
  BY GroupSizes DEF Error
<1>3. DOMAIN Strings \subseteq DOMAIN Error
  <2> SUFFICES ASSUME NEW l \in DOMAIN Strings PROVE l \in DOMAIN Error
    OBVIOUS
  <2>1. PICK g \in 1..4 : \E n \in DOMAIN Groups[g] : Groups[g][n] = l
    BY <1>1
  <2>2. l \in ToSet(Groups[g])
    BY <2>1, Zenon DEF ToSet
  <2> QED BY <1>2, <2>2
<1>4. DOMAIN Translations \subseteq DOMAIN Strings \cup {"ConnectErrorNone"}
  BY DEF Translations, Strings
<1>5. \A e \in DOMAIN Translations : e = "ConnectErrorNone" \/ Strings[e] = e
  BY DEF Translations, Strings
<1>6. {"None", "Unknown"} \subseteq DOMAIN Strings /\ Strings["None"] = "None" /\ Strings["Unknown"] = "Unknown"
  BY DEF Strings
<1> QED BY <1>3, <1>4, <1>5, <1>6

\* MblError_to_str finds the case of each code.
LEMMA StringOfCode ==
  ASSUME NEW a \in DOMAIN Strings
  PROVE  MblError_to_str(Error[a]) = Strings[a]
<1> DEFINE c == CHOOSE label \in DOMAIN Strings : Error[label] = Error[a]
<1>1. c \in DOMAIN Strings /\ Error[c] = Error[a]
  OBVIOUS
<1>2. c = a
  BY <1>1, CodesDiffer, StringCases
<1>3. MblError_to_str(Error[a]) = Strings[c]
  BY DEF MblError_to_str
<1> QED BY <1>2, <1>3

\* The two switches together give back the name of the library's error.
LEMMA ErrorNamed ==
  ASSUME NEW e \in CloudClientErrors
  PROVE  MblError_to_str(CloudClientError_to_MblError(e)) =
           CASE e = "ConnectErrorNone" -> "None"
             [] e = "NoEnumerator"     -> "Unknown"
             [] OTHER                  -> e
<1>0. e = "NoEnumerator" \/ e \in DOMAIN Translations
  BY TranslationCases
<1>1. CASE e = "ConnectErrorNone"
  <2>1. CloudClientError_to_MblError(e) = Error["None"]
    BY <1>0, <1>1, TranslationCases DEF CloudClientError_to_MblError
  <2> QED BY <1>1, <2>1, StringOfCode, StringCases
<1>2. CASE e = "NoEnumerator"
  <2>1. CloudClientError_to_MblError(e) = Error["Unknown"]
    BY <1>2, TranslationCases DEF CloudClientError_to_MblError
  <2> QED BY <1>2, <2>1, StringOfCode, StringCases
<1>3. CASE e # "ConnectErrorNone" /\ e # "NoEnumerator"
  <2>1. CloudClientError_to_MblError(e) = Error[e] /\ e \in DOMAIN Translations
    BY <1>0, <1>3, TranslationCases DEF CloudClientError_to_MblError
  <2>2. e \in DOMAIN Strings /\ Strings[e] = e
    BY <1>3, <2>1, StringCases
  <2> QED BY <1>3, <2>1, <2>2, StringOfCode
<1> QED BY <1>1, <1>2, <1>3

----------------------------------------------------------------------------
(* Theorems.                                                               *)

\* Every variable of the daemon keeps its type, in both threads.
THEOREM TypeCorrect == Spec => []TypeOK
<1>1. IInv => TypeOK
  BY DEF IInv
<1> QED BY <1>1, Invariance, PTL

\* No handler uses the instance or the client once the destructor takes them
\* down: it clears s_instance under the mutex the handlers hold from their test.
THEOREM NoHandlerUsesDeleted == Spec => []NoUseAfterDelete
<1>1. IInv => NoUseAfterDelete
  BY DEF IInv
<1> QED BY <1>1, Invariance, PTL

\* state_ is what the last event of the registration asks for: cloud_client_setup
\* writes it before the library can call a handler.
THEOREM EventsNotOverwritten == Spec => []StateFollowsEvents
<1>1. IInv => StateFollowsEvents
  BY DEF IInv
<1> QED BY <1>1, Invariance, PTL

\* The loop of run() updates the registration before it runs out, for any lifetime
\* of two seconds or more of which an iteration with its delays takes at most half.
THEOREM RegistrationNotLost == Spec => []RegistrationKept
<1>1. IInv => RegistrationKept
  <2> SUFFICES ASSUME IInv, pc \in RunLoop PROVE age <= Lifetime
    BY DEF RegistrationKept
  <2>1. due \in Int /\ age \in Nat /\ delay \in 0..MaxDelay /\ MaxDelay \in Nat
    BY ClientAssumption DEF IInv, TypeOK
  <2>2. Lifetime \in Nat
    BY ClientAssumption
  <2> QED BY <2>1, <2>2, PeriodFits DEF IInv, TimeInv, RunLoop
<1> QED BY <1>1, Invariance, PTL

\* The percentage that handle_download_progress prints is right for every size
\* that fits in 32 bits.
THEOREM PercentCorrect == Spec => []PercentSound
<1>1. IInv => PercentSound
  <2> SUFFICES ASSUME IInv, event # None, event[1] = "progress"
               PROVE  /\ percent(event[2], event[3]) \in 0..100
                      /\ percent(event[2], event[3]) = 100 <=> event[2] = event[3]
    BY DEF PercentSound
  <2>1. event \in Events
    BY DEF IInv, TypeOK
  <2>2. event[2] \in Sizes /\ event[3] \in Sizes /\ event[2] <= event[3]
    BY <2>1 DEF Events
  <2> QED BY <2>2, PercentBounds
<1> QED BY <1>1, Invariance, PTL

\* A line begun after the SIGHUP of a rotation does not go to the rotated file,
\* however the threads and the signals interleave in mbl_trace_print_handler.
THEOREM LogFollowsRotation == Spec => []LinesReachNewFile
<1>1. IInv => LinesReachNewFile
  BY DEF IInv, LogInv, LinesReachNewFile
<1> QED BY <1>1, Invariance, PTL

\* The line that handle_error prints names the error that the library reports: no
\* two of the codes of MblError.h are equal, in any group, and no case of the two
\* switches of MblError.cpp is missing or crossed with another.
THEOREM ErrorsNamed == Spec => []ErrorsTold
<1>1. ErrorsTold
  BY ErrorNamed DEF ErrorsTold
<1> QED BY <1>1, PTL

=============================================================================
