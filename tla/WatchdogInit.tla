---------------------------- MODULE WatchdogInit ----------------------------
(***************************************************************************)
(* mbl-watchdog-init, which the initial RAM disk runs before it mounts the *)
(* root file system: it starts the hardware watchdog, reports why the      *)
(* device last rebooted and sets the timeout.  If the root file system     *)
(* then fails to load, the watchdog is to reset the device.                *)
(*                                                                         *)
(* The watchdog and the rest of the boot are external.  The driver is      *)
(* built with nowayout (ci/lava/tests/test-systemd.py): closing the device *)
(* does not stop the watchdog.  systemd keeps it from firing once the root *)
(* file system is up.  The driver may round or clamp the timeout that it   *)
(* is asked for.  A number on the command line is modelled by its value,   *)
(* and the widths of int and long are scaled down.                         *)
(***************************************************************************)
EXTENDS Integers, Sequences, SequencesExt, FiniteSets

CONSTANTS CommandLines,    \* the argument lists the program may be called with
          IntMax,          \* INT_MAX
          LongMaxes,       \* LONG_MAX on the machines the program is built for
          DefaultTimeout,  \* the timeout of the watchdog after a reset
          Limits,          \* the timeouts that the watchdog can run with
          Causes,          \* boot statuses: sets of flags
          Junk,            \* a word that is not a number
          None             \* no exit code

\* What getopt_long finds: --timeout and --device with their arguments, the short
\* -t, an option that it does not know, and a long one that is not in the table.
Options == ({"--timeout"} \X (Int \cup {Junk})) \cup ({"--device"} \X {"watchdog", "other"})
             \cup {<<"-t">>, <<"-x">>, <<"--unknown">>}

Flags == {"OVERHEAT", "CARDRESET", "FANFAULT", "EXTERN1", "EXTERN2", "POWERUNDER", "POWEROVER"}

ASSUME WatchdogAssumption ==
  /\ CommandLines \subseteq Seq(Options) /\ Junk \notin Int
  /\ IntMax \in Nat \ {0} /\ DefaultTimeout \in Nat \ {0} /\ None \notin {0, 1, 139}
  /\ Limits \subseteq 1..IntMax
  /\ \A m \in LongMaxes : m \in Nat /\ m >= IntMax
  /\ \A c \in Causes : c \subseteq Flags

VARIABLES
  args, longMax,  \* the command line and LONG_MAX; they never change
  pc,             \* where the program is in this boot
  optind,         \* the option that getopt_long comes to next
  timeout,        \* the program's timeout
  device,         \* wdog_filename
  ret,            \* the program's return value so far
  code,           \* its exit code, or None
  reported,       \* the reasons of the last boot that it printed
  armed,          \* the watchdog runs
  limit, left,    \* its timeout, and the seconds left of it
  asked,          \* the timeout that the driver last accepted in this boot, or 0
  cause,          \* the flags of WDIOC_GETBOOTSTATUS
  opened,         \* the program opened the watchdog in this boot
  rootfs          \* "none" so far, "up" or "hung"

vars == <<args, longMax, pc, optind, timeout, device, ret, code, reported, armed, limit, left,
          asked, cause, opened, rootfs>>

TypeOK ==
  /\ args \in CommandLines /\ longMax \in LongMaxes
  /\ pc \in {"start", "open", "status", "set", "close", "exited"}
  /\ optind \in Nat \ {0} /\ timeout \in 0..IntMax
  /\ device \in {"watchdog", "other"}
  /\ ret \in {0, 1} /\ code \in {0, 1, 139, None}
  /\ reported \subseteq Flags
  /\ {armed, opened} \subseteq BOOLEAN
  /\ limit \in Nat /\ left \in 0..limit /\ asked \in 0..IntMax
  /\ cause \subseteq Flags
  /\ rootfs \in {"none", "up", "hung"}

Init ==
  /\ args \in CommandLines /\ longMax \in LongMaxes
  /\ pc = "start" /\ optind = 1 /\ timeout = 0 /\ device = "watchdog" /\ ret = 0 /\ code = None
  /\ reported = {}
  /\ armed = FALSE /\ limit = DefaultTimeout /\ left = DefaultTimeout
  /\ asked = 0 /\ cause = {} /\ opened = FALSE /\ rootfs = "none"

----------------------------------------------------------------------------
(* The command line                                                        *)

\* strtol: a number that a long cannot hold sets ERANGE and is clamped.
strtol(v) ==
  LET longMin == -(longMax + 1)
  IN  [err |-> v < longMin \/ v > longMax,
       res |-> IF v > longMax THEN longMax ELSE IF v < longMin THEN longMin ELSE v]

\* The conversion of a long to int.
ToInt(res) == ((res + IntMax + 1) % (2 * (IntMax + 1))) - (IntMax + 1)

\* The value of the word v, or 0 where the program exits with a failure.
numeric_string_to_positive_int(v) ==
  IF v = Junk THEN 0
  ELSE IF strtol(v).err \/ strtol(v).res <= 0 \/ strtol(v).res > IntMax THEN 0
       ELSE ToInt(strtol(v).res)

hardware == <<armed, limit, left, asked, cause, rootfs>>
fixed    == <<args, longMax>>
parsed   == <<optind, timeout, device>>

\* The program ends with code c.
Exit(c) == pc' = "exited" /\ code' = c

\* One pass of the loop over the options.  The short -t takes no argument, so that
\* the program converts a null pointer; the table of long options has no end, so
\* that a long option that is not in it may do anything.
ParseOption ==
  /\ pc = "start" /\ optind <= Len(args)
  /\ optind' = optind + 1
  /\ LET opt == args[optind] IN
     \/ /\ opt[1] = "--timeout" /\ numeric_string_to_positive_int(opt[2]) # 0
        /\ timeout' = numeric_string_to_positive_int(opt[2])
        /\ UNCHANGED <<pc, code, device>>
     \/ /\ opt[1] = "--timeout" /\ numeric_string_to_positive_int(opt[2]) = 0
        /\ Exit(1) /\ UNCHANGED <<timeout, device>>
     \/ opt[1] = "--device" /\ device' = opt[2] /\ UNCHANGED <<pc, code, timeout>>
     \/ opt[1] \in {"-x", "--unknown"} /\ Exit(1) /\ UNCHANGED <<timeout, device>>
     \/ opt[1] \in {"-t", "--unknown"} /\ Exit(139) /\ UNCHANGED <<timeout, device>>
  /\ UNCHANGED <<fixed, hardware, ret, reported, opened>>

\* After the loop main() insists on a timeout.
RequireTimeout ==
  /\ pc = "start" /\ optind > Len(args)
  /\ IF timeout <= 0 THEN Exit(1) ELSE pc' = "open" /\ UNCHANGED code
  /\ UNCHANGED <<fixed, hardware, parsed, ret, reported, opened>>

----------------------------------------------------------------------------
(* The watchdog                                                            *)

\* open starts the watchdog, or fails; another file may open as well.
OpenDevice ==
  /\ pc = "open"
  /\ \/ Exit(1) /\ UNCHANGED <<armed, left, opened>>
     \/ /\ pc' = "status" /\ UNCHANGED code
        /\ armed' = (armed \/ device = "watchdog") /\ opened' = (device = "watchdog")
        /\ left' = limit
  /\ UNCHANGED <<fixed, limit, asked, cause, rootfs, parsed, ret, reported>>

\* A line for every flag; a normal boot has none.
print_last_boot_reason(flags) == {f \in Flags : f \in flags}

\* WDIOC_GETBOOTSTATUS, which another file does not know.
get_last_boot_status ==
  /\ pc = "status"
  /\ \/ pc' = "close" /\ ret' = 1 /\ UNCHANGED reported
     \/ /\ device = "watchdog"
        /\ pc' = "set" /\ reported' = print_last_boot_reason(cause)
        /\ UNCHANGED ret
  /\ UNCHANGED <<fixed, hardware, parsed, code, opened>>

\* WDIOC_SETTIMEOUT for t seconds.  Its argument is in and out: the driver takes
\* the timeout that it can run with for t and writes it back over the program's.
set_watchdog_timeout(t) ==
  /\ asked' = t
  /\ limit' \in Limits /\ left' = limit' /\ timeout' = limit'

\* Fault: a failure to set the timeout is not noticed.
SetTimeout_Unchecked ==
  /\ pc = "set" /\ pc' = "close"
  /\ set_watchdog_timeout(timeout) \/ UNCHANGED <<timeout, asked, limit, left>>
  /\ UNCHANGED <<fixed, armed, cause, rootfs, optind, device, ret, code, reported, opened>>

\* The program looks at the result of the ioctl only, not at what was written back.
SetTimeout ==
  /\ pc = "set" /\ pc' = "close"
  /\ \/ set_watchdog_timeout(timeout) /\ UNCHANGED ret
     \/ ret' = 1 /\ UNCHANGED <<timeout, asked, limit, left>>
  /\ UNCHANGED <<fixed, armed, cause, rootfs, optind, device, code, reported, opened>>

\* Fault: after an error the watchdog is disarmed.
CloseDevice_Disarms ==
  /\ pc = "close"
  /\ Exit(ret) \/ Exit(1)
  /\ armed' = (armed /\ ret = 0)
  /\ UNCHANGED <<fixed, limit, left, asked, cause, rootfs, parsed, ret, reported, opened>>

\* Every path after open ends here; with nowayout the watchdog runs on.
CloseDevice ==
  /\ pc = "close"
  /\ Exit(ret) \/ Exit(1)
  /\ UNCHANGED <<fixed, hardware, parsed, ret, reported, opened>>

----------------------------------------------------------------------------
(* The rest of the boot, and the device                                    *)

\* The root file system is mounted and comes up, or does not.
LoadRootfs ==
  /\ pc = "exited" /\ rootfs = "none"
  /\ rootfs' \in {"up", "hung"}
  /\ UNCHANGED <<fixed, pc, parsed, ret, code, reported, armed, limit, left, asked,
                 cause, opened>>

\* systemd resets the watchdog's timer.
Pet ==
  /\ rootfs = "up" /\ armed /\ left > 0
  /\ left' = limit
  /\ UNCHANGED <<fixed, pc, parsed, ret, code, reported, armed, limit, asked, cause,
                 opened, rootfs>>

Tick ==
  /\ armed /\ left > 0
  /\ left' = left - 1
  /\ UNCHANGED <<fixed, pc, parsed, ret, code, reported, armed, limit, asked, cause,
                 opened, rootfs>>

\* The device boots with status c.
Reboot(c) ==
  /\ pc' = "start" /\ optind' = 1 /\ timeout' = 0 /\ device' = "watchdog"
  /\ ret' = 0 /\ code' = None
  /\ reported' = {}
  /\ armed' = FALSE /\ limit' = DefaultTimeout /\ left' = DefaultTimeout
  /\ asked' = 0 /\ cause' = c /\ opened' = FALSE /\ rootfs' = "none"
  /\ UNCHANGED fixed

WatchdogReset == armed /\ left = 0 /\ Reboot({"CARDRESET"})

\* The device reboots for another reason.
OtherReboot == \E c \in Causes : Reboot(c)

Program == \/ ParseOption \/ RequireTimeout \/ OpenDevice \/ get_last_boot_status
           \/ SetTimeout \/ CloseDevice

Next == Program \/ LoadRootfs \/ Pet \/ Tick \/ WatchdogReset \/ OtherReboot

\* The program and the hardware run.
Spec == Init /\ [][Next]_vars /\ WF_vars(Program) /\ WF_vars(Tick) /\ WF_vars(WatchdogReset)

----------------------------------------------------------------------------
(* Properties                                                              *)

\* When the program succeeds the watchdog runs, and its driver has accepted, in
\* this boot, a request for exactly the number of the last --timeout on the command
\* line: none is truncated on the way from the word over long to int, whatever
\* their widths, and no failure on the way is taken for a success.  What the driver
\* makes of the request (it may round or clamp it) the program does not compare.
TimeoutAsAsked ==
  code = 0 =>
    LET last == CHOOSE n \in DOMAIN args :
                  /\ args[n][1] = "--timeout"
                  /\ \A m \in DOMAIN args : args[m][1] = "--timeout" => m <= n
    IN  armed /\ asked = args[last][2]

\* "the device reboots if loading the rootfs fails": once the device file is open,
\* no error path of the program leaves a device whose root file system hangs for
\* good.
FailedRootfsReboots == (rootfs = "hung" /\ opened) ~> pc = "start"
=============================================================================
