------------------------- MODULE WatchdogInitProofs -------------------------
(***************************************************************************)
(* What mbl-watchdog-init does with its command line, for command lines of *)
(* any length, any numbers and any widths of int and long.                 *)
(***************************************************************************)
EXTENDS WatchdogInit, TLAPS

----------------------------------------------------------------------------
(* Numbers.                                                                *)

\* A number that an int can hold survives the conversion from long.
LEMMA ToIntExact ==
  ASSUME NEW v \in Nat, v <= IntMax
  PROVE  ToInt(v) = v
<1>1. IntMax \in Nat
  BY WatchdogAssumption
<1> DEFINE m == IntMax + 1
<1>2. m \in Nat /\ v + m \in 0..(2 * m - 1) /\ 2 * m \in Nat \ {0}
  BY <1>1
<1>3. (v + m) % (2 * m) = v + m
  BY <1>2
<1> QED BY <1>1, <1>3 DEF ToInt

\* numeric_string_to_positive_int fails or returns the number that the word says.
LEMMA NumberExact ==
  ASSUME NEW v \in Int \cup {Junk}, longMax \in LongMaxes,
         numeric_string_to_positive_int(v) # 0
  PROVE  v \in 1..IntMax /\ numeric_string_to_positive_int(v) = v
<1>1. v \in Int /\ longMax \in Nat /\ longMax >= IntMax /\ IntMax \in Nat
  BY WatchdogAssumption DEF numeric_string_to_positive_int
<1>2. ~strtol(v).err /\ strtol(v).res > 0 /\ strtol(v).res <= IntMax
  BY <1>1 DEF numeric_string_to_positive_int, strtol
<1>3. strtol(v).res = v
  BY <1>1, <1>2 DEF strtol
<1>4. v \in 1..IntMax /\ ToInt(v) = v
  BY <1>1, <1>2, <1>3, ToIntExact
<1> QED BY <1>1, <1>2, <1>3, <1>4, WatchdogAssumption DEF numeric_string_to_positive_int

----------------------------------------------------------------------------
(* The inductive invariant.                                                *)

\* The n-th option is the last --timeout among the first k.
LastTimeout(n, k) ==
  /\ n \in 1..k /\ args[n][1] = "--timeout"
  /\ \A m \in 1..k : args[m][1] = "--timeout" => m <= n

\* What the program has read so far, unless it has given up.
ParseInv ==
  /\ optind <= Len(args) + 1
  /\ timeout # 0 /\ pc \in {"start", "open", "status", "set"} =>
       \E n \in Nat : LastTimeout(n, optind - 1) /\ timeout = args[n][2]
  /\ pc \in {"open", "status", "set"} => optind = Len(args) + 1 /\ timeout # 0

\* A program that has come past an ioctl has the watchdog, and reports success
\* only when both ioctls have succeeded.
DeviceInv ==
  /\ pc \in {"set", "close"} /\ ret = 0 => device = "watchdog"
  /\ pc \in {"status", "set", "close"} /\ device = "watchdog" => armed
  /\ pc \in {"start", "open", "status", "set"} => ret = 0
  /\ code # None => pc = "exited"
  /\ pc # "exited" => code = None
  /\ code = 0 => armed

\* Once the timeout is set, the driver has been asked for the last one.
AskedInv ==
  (pc = "close" /\ ret = 0) \/ code = 0 =>
    \E n \in Nat : LastTimeout(n, Len(args)) /\ asked = args[n][2]

IInv == TypeOK /\ ParseInv /\ DeviceInv /\ AskedInv

LEMMA InitIInv == Init => IInv
<1> SUFFICES ASSUME Init PROVE IInv
  OBVIOUS
<1>1. args \in Seq(Options) /\ Len(args) \in Nat
  BY WatchdogAssumption DEF Init
<1>2. TypeOK
  <2>1. armed = FALSE /\ opened = FALSE
    BY DEF Init
  <2>2. {armed, opened} \subseteq BOOLEAN
    BY <2>1, Zenon
  <2> QED BY <2>2, WatchdogAssumption DEF Init, TypeOK
<1>3. ParseInv /\ DeviceInv /\ AskedInv
  BY <1>1, WatchdogAssumption DEF Init, ParseInv, DeviceInv, AskedInv
<1> QED BY <1>2, <1>3 DEF IInv

\* What the steps use of the command line.
LEMMA ArgsType ==
  ASSUME IInv
  PROVE  /\ args \in Seq(Options) /\ Len(args) \in Nat /\ IntMax \in Nat /\ DefaultTimeout \in Nat
         /\ \A n \in 1..Len(args) :
              /\ args[n][1] = "--timeout" => args[n][2] \in Int \cup {Junk}
              /\ args[n][1] = "--device" => args[n][2] \in {"watchdog", "other"}
<1>1. args \in Seq(Options)
  BY WatchdogAssumption DEF IInv, TypeOK
<1>2. \A n \in 1..Len(args) : args[n] \in Options
  BY <1>1
<1>3. ASSUME NEW o \in Options
      PROVE  /\ o[1] = "--timeout" => o[2] \in Int \cup {Junk}
             /\ o[1] = "--device" => o[2] \in {"watchdog", "other"}
  BY <1>3 DEF Options
<1> QED BY <1>1, <1>2, <1>3, WatchdogAssumption

\* One more option is read.  A --timeout that is accepted is now the last one.
LEMMA ParseOptionStep == IInv /\ ParseOption => IInv'
<1> SUFFICES ASSUME IInv, ParseOption PROVE IInv'
  OBVIOUS
<1> DEFINE opt == args[optind]  num == numeric_string_to_positive_int(opt[2])
<1>0. /\ pc = "start" /\ optind \in 1..Len(args) /\ optind' = optind + 1
      /\ Len(args) \in Nat /\ optind \in Nat /\ optind \in 1..optind
      /\ UNCHANGED <<args, longMax, armed, limit, left, asked, cause, rootfs, ret, reported, opened>>
      /\ TypeOK /\ code = None
  BY ArgsType DEF ParseOption, fixed, hardware, IInv, TypeOK, DeviceInv
<1>1. \/ /\ opt[1] = "--timeout" /\ num # 0 /\ timeout' = num /\ UNCHANGED <<pc, code, device>>
      \/ /\ opt[1] # "--timeout" /\ timeout' = timeout /\ device' \in {"watchdog", "other"}
         /\ UNCHANGED <<pc, code>>
      \/ pc' = "exited" /\ code' \in {1, 139} /\ UNCHANGED <<timeout, device>>
  BY <1>0, ArgsType DEF ParseOption, Exit, opt, num
<1>2. timeout' \in 0..IntMax /\ (opt[1] = "--timeout" /\ pc' = "start" => timeout' = opt[2] /\ timeout' # 0)
  <2>1. CASE opt[1] = "--timeout" /\ num # 0 /\ timeout' = num
    <3>1. opt[2] \in Int \cup {Junk} /\ longMax \in LongMaxes
      BY <1>0, <2>1, ArgsType DEF TypeOK
    <3>2. opt[2] \in 1..IntMax /\ num = opt[2]
      BY <2>1, <3>1, NumberExact
    <3> QED BY <2>1, <3>2, ArgsType
  <2>2. CASE timeout' = timeout /\ ~(opt[1] = "--timeout" /\ num # 0 /\ timeout' = num)
    BY <1>0, <1>1, <2>2 DEF TypeOK
  <2> QED BY <1>1, <2>1, <2>2
<1> HIDE DEF opt, num
<1>3. TypeOK'
  BY <1>0, <1>1, <1>2 DEF TypeOK
<1>4. ParseInv'
  <2>1. optind' <= Len(args') + 1
    BY <1>0
  <2>2. pc' \in {"start", "exited"}
    BY <1>0, <1>1
  <2>3. ASSUME timeout' # 0, pc' = "start"
        PROVE  \E n \in Nat : LastTimeout(n, optind - 1)' /\ timeout' = args'[n][2]
    <3>1. CASE opt[1] = "--timeout" /\ pc' = "start"
      <4>1. PICK n \in Nat : n = optind
        BY <1>0
      <4>2. LastTimeout(n, optind - 1)'
        BY <1>0, <3>1, <4>1 DEF LastTimeout, opt
      <4> QED BY <1>0, <1>2, <3>1, <4>1, <4>2 DEF opt
    <3>2. CASE opt[1] # "--timeout" /\ timeout' = timeout
      <4>1. PICK n \in Nat : LastTimeout(n, optind - 1) /\ timeout = args[n][2]
        BY <1>0, <2>3, <3>2 DEF IInv, ParseInv
      <4>2. LastTimeout(n, optind - 1)'
        BY <1>0, <3>2, <4>1 DEF LastTimeout, opt
      <4> QED BY <1>0, <3>2, <4>1, <4>2
    <3> QED BY <1>0, <1>1, <2>3, <3>1, <3>2
  <2> QED BY <2>1, <2>2, <2>3 DEF ParseInv
<1>5. DeviceInv' /\ AskedInv'
  BY <1>0, <1>1, WatchdogAssumption DEF IInv, DeviceInv, AskedInv
<1> QED BY <1>3, <1>4, <1>5 DEF IInv

\* The steps after the loop leave what it has read alone, until the driver writes
\* its own timeout back.
LEMMA ProgramStep ==
  ASSUME IInv,
         \/ RequireTimeout \/ OpenDevice \/ get_last_boot_status \/ SetTimeout
         \/ CloseDevice
  PROVE  IInv'
<1>0. /\ Len(args) \in Nat /\ TypeOK /\ IntMax \in Nat
      /\ UNCHANGED <<args, longMax, optind, device>>
      /\ pc # "set" => UNCHANGED <<timeout, asked>>
      /\ code = None /\ pc # "exited"
  BY ArgsType DEF IInv, TypeOK, DeviceInv, RequireTimeout, OpenDevice, get_last_boot_status,
                  SetTimeout, CloseDevice, fixed, hardware, parsed
<1>1. ParseInv' /\ AskedInv'
  <2>1. CASE pc # "set"
    <3>1. /\ pc \in {"start", "open", "status"} /\ timeout # 0 =>
               \E n \in Nat : LastTimeout(n, optind - 1) /\ timeout = args[n][2]
          /\ pc = "close" /\ ret = 0 =>
               \E n \in Nat : LastTimeout(n, Len(args)) /\ asked = args[n][2]
          /\ optind <= Len(args) + 1
      BY <1>0, <2>1 DEF IInv, ParseInv, AskedInv
    <3>2. /\ pc' \in {"open", "status", "set"} =>
               pc \in {"start", "open", "status"} /\ timeout # 0 /\ optind = Len(args) + 1
          /\ pc' \notin {"start"}
          /\ (pc' = "close" /\ ret' = 0) \/ code' = 0 => pc = "close" /\ ret = 0
      BY <1>0, <2>1, WatchdogAssumption
         DEF IInv, ParseInv, TypeOK, RequireTimeout, OpenDevice, get_last_boot_status,
             SetTimeout, CloseDevice, Exit
    <3> QED BY <1>0, <2>1, <3>1, <3>2 DEF ParseInv, AskedInv, LastTimeout
  <2>2. CASE pc = "set"
    <3>1. PICK n \in Nat : LastTimeout(n, Len(args)) /\ timeout = args[n][2]
      BY <1>0, <2>2 DEF IInv, ParseInv
    <3>2. /\ pc' = "close" /\ code' = None
          /\ ret' = 0 => asked' = timeout
      BY <1>0, <2>2 DEF RequireTimeout, OpenDevice, get_last_boot_status, SetTimeout,
                        set_watchdog_timeout, CloseDevice
    <3>3. LastTimeout(n, Len(args))'
      BY <1>0, <3>1 DEF LastTimeout
    <3> QED BY <1>0, <3>1, <3>2, <3>3, WatchdogAssumption DEF IInv, ParseInv, AskedInv
  <2> QED BY <2>1, <2>2
<1>2. CASE RequireTimeout
  <2>1. TypeOK'
    BY <1>0, <1>2 DEF TypeOK, RequireTimeout, Exit, hardware
  <2>2. DeviceInv'
    BY <1>0, <1>2, WatchdogAssumption DEF IInv, DeviceInv, RequireTimeout, Exit, hardware
  <2> QED BY <1>1, <2>1, <2>2 DEF IInv
<1>3. CASE OpenDevice
  <2>0. /\ armed' \in BOOLEAN /\ opened' \in BOOLEAN
        /\ pc' = "status" /\ device = "watchdog" => armed'
    <3>1. armed \in BOOLEAN /\ opened \in BOOLEAN
      BY <1>0, Zenon DEF TypeOK
    <3>2. CASE pc' = "status"
      <4>1. armed' = (armed \/ device = "watchdog") /\ opened' = (device = "watchdog")
        BY <1>3, <3>2 DEF OpenDevice, Exit
      <4> QED BY <4>1, Zenon
    <3>3. CASE pc' # "status"
      <4>1. UNCHANGED <<armed, opened>>
        BY <1>3, <3>3 DEF OpenDevice
      <4> QED BY <3>1, <3>3, <4>1
    <3> QED BY <3>2, <3>3
  <2>1. TypeOK'
    <3>1. {armed', opened'} \subseteq BOOLEAN
      BY <2>0
    <3>2. pc' \in {"status", "exited"} /\ code' \in {1, None} /\ left' \in 0..limit
      BY <1>0, <1>3 DEF TypeOK, OpenDevice, Exit
    <3> QED BY <1>0, <1>3, <3>1, <3>2 DEF TypeOK, OpenDevice
  <2>2. DeviceInv'
    BY <1>0, <1>3, <2>0, WatchdogAssumption DEF IInv, DeviceInv, OpenDevice, Exit
  <2> QED BY <1>1, <2>1, <2>2 DEF IInv
<1>4. CASE get_last_boot_status
  <2>1. TypeOK'
    BY <1>0, <1>4 DEF TypeOK, get_last_boot_status, print_last_boot_reason, hardware
  <2>2. DeviceInv'
    BY <1>0, <1>4 DEF IInv, DeviceInv, get_last_boot_status, hardware
  <2> QED BY <1>1, <2>1, <2>2 DEF IInv
<1>5. CASE SetTimeout
  <2>1. TypeOK'
    <3>1. Limits \subseteq 1..IntMax
      BY WatchdogAssumption
    <3>2. ret' \in {0, 1} /\ pc' = "close"
      BY <1>0, <1>5 DEF TypeOK, SetTimeout
    <3>4. limit' \in Nat /\ left' \in 0..limit' /\ timeout' \in 0..IntMax /\ asked' \in 0..IntMax
      <4>1. CASE set_watchdog_timeout(timeout)
        <5>1. limit' \in 1..IntMax /\ left' = limit' /\ timeout' = limit' /\ asked' = timeout
          BY <3>1, <4>1 DEF set_watchdog_timeout
        <5> QED BY <1>0, <5>1 DEF TypeOK
      <4>2. CASE UNCHANGED <<timeout, asked, limit, left>>
        BY <1>0, <4>2 DEF TypeOK
      <4> QED BY <1>5, <4>1, <4>2 DEF SetTimeout
    <3>3. UNCHANGED <<code, reported, armed, opened, cause, rootfs>>
      BY <1>5 DEF SetTimeout
    <3> QED BY <1>0, <3>2, <3>3, <3>4 DEF TypeOK
  <2>2. DeviceInv'
    BY <1>0, <1>5 DEF IInv, DeviceInv, SetTimeout
  <2> QED BY <1>1, <2>1, <2>2 DEF IInv
<1>6. CASE CloseDevice
  <2>1. TypeOK'
    BY <1>0, <1>6 DEF TypeOK, CloseDevice, Exit, hardware
  <2>2. DeviceInv'
    BY <1>0, <1>6 DEF IInv, DeviceInv, ParseInv, CloseDevice, Exit, hardware
  <2> QED BY <1>1, <2>1, <2>2 DEF IInv
<1> QED BY <1>2, <1>3, <1>4, <1>5, <1>6

\* The rest of the boot and the watchdog do not touch its timeout until a reset.
LEMMA DeviceStep ==
  ASSUME IInv, LoadRootfs \/ Pet \/ Tick \/ UNCHANGED vars
  PROVE  IInv'
<1>0. /\ TypeOK /\ UNCHANGED <<args, longMax, pc, optind, timeout, device, ret, code, reported, armed,
                               limit, asked, cause, opened>>
  BY DEF IInv, LoadRootfs, Pet, Tick, vars, fixed, parsed
<1>1. left' \in 0..limit /\ rootfs' \in {"none", "up", "hung"}
  BY <1>0 DEF TypeOK, LoadRootfs, Pet, Tick, vars
<1>2. TypeOK'
  BY <1>0, <1>1 DEF TypeOK
<1>3. ParseInv' /\ DeviceInv' /\ AskedInv'
  BY <1>0 DEF IInv, ParseInv, LastTimeout, DeviceInv, AskedInv
<1> QED BY <1>2, <1>3 DEF IInv

LEMMA RebootStep ==
  ASSUME IInv, NEW c \in SUBSET Flags, Reboot(c)
  PROVE  IInv'
<1>0. Len(args) \in Nat /\ TypeOK /\ UNCHANGED <<args, longMax>> /\ DefaultTimeout \in Nat /\ IntMax \in Nat
  BY ArgsType DEF IInv, Reboot, fixed
<1>1. TypeOK'
  <2>1. armed' = FALSE /\ opened' = FALSE
    BY DEF Reboot
  <2>2. {armed', opened'} \subseteq BOOLEAN
    BY <2>1, Zenon
  <2> QED BY <1>0, <2>2 DEF TypeOK, Reboot
<1>2. ParseInv' /\ DeviceInv' /\ AskedInv'
  BY <1>0, WatchdogAssumption DEF ParseInv, DeviceInv, AskedInv, Reboot
<1> QED BY <1>1, <1>2 DEF IInv

LEMMA StepIInv == IInv /\ [Next]_vars => IInv'
<1> SUFFICES ASSUME IInv, [Next]_vars PROVE IInv'
  OBVIOUS
<1>1. CASE Program
  BY <1>1, ParseOptionStep, ProgramStep DEF Program
<1>2. CASE LoadRootfs \/ Pet \/ Tick \/ UNCHANGED vars
  BY <1>2, DeviceStep
<1>3. CASE WatchdogReset
  <2>1. {"CARDRESET"} \in SUBSET Flags
    BY DEF Flags
  <2> QED BY <1>3, <2>1, RebootStep DEF WatchdogReset
<1>4. CASE OtherReboot
  <2>1. PICK c \in Causes : Reboot(c)
    BY <1>4 DEF OtherReboot
  <2>2. c \in SUBSET Flags
    BY WatchdogAssumption
  <2> QED BY <2>1, <2>2, RebootStep
<1> QED BY <1>1, <1>2, <1>3, <1>4 DEF Next

LEMMA Invariance == Spec => []IInv
<1> QED BY InitIInv, StepIInv, PTL DEF Spec

----------------------------------------------------------------------------
(* Theorems.                                                               *)

\* The program, the watchdog and the boot keep their types; in particular the
\* timeout always fits in an int.
THEOREM TypeCorrect == Spec => []TypeOK
<1>1. IInv => TypeOK
  BY DEF IInv
<1> QED BY <1>1, Invariance, PTL

\* Exit code 0 of mbl-watchdog-init means that the watchdog runs and that its driver
\* accepted a request for the number of the last --timeout, for command lines of any length, any numbers, and any
\* widths of int and long with long at least as wide.
THEOREM TimeoutExact == Spec => []TimeoutAsAsked
<1>1. IInv => TimeoutAsAsked
  <2> SUFFICES ASSUME IInv, code = 0 PROVE TimeoutAsAsked
    BY DEF TimeoutAsAsked
  <2> DEFINE IsLast(n) == /\ args[n][1] = "--timeout"
                          /\ \A m \in DOMAIN args : args[m][1] = "--timeout" => m <= n
             last == CHOOSE n \in DOMAIN args : IsLast(n)
  <2>1. /\ Len(args) \in Nat /\ DOMAIN args = 1..Len(args)
        /\ armed
    BY ArgsType DEF IInv, DeviceInv
  <2>2. PICK n \in Nat : LastTimeout(n, Len(args)) /\ asked = args[n][2]
    BY <2>1 DEF IInv, AskedInv
  <2>3. n \in DOMAIN args /\ IsLast(n)
    BY <2>1, <2>2 DEF LastTimeout
  <2>4. last \in DOMAIN args /\ IsLast(last)
    BY <2>3
  <2>5. last = n
    <3>1. last <= n /\ n <= last /\ last \in Nat
      BY <2>1, <2>3, <2>4
    <3> HIDE DEF last
    <3> QED BY <3>1
  <2> QED BY <2>1, <2>2, <2>5 DEF TimeoutAsAsked
<1> QED BY <1>1, Invariance, PTL
=============================================================================
