-------------------------- MODULE FirmwareActivate --------------------------
(***************************************************************************)
(* The activation of a firmware update on the device.  The update client   *)
(* or mbl-firmware-update-manager runs arm_update_activate.sh, which has   *)
(* swupdate install the components of the package one after the other:     *)
(* the root file system by the C handler rootfsv4_handler, to the bank     *)
(* that is not mounted; the boot partitions and the bootloaders by shell   *)
(* scripts, in place; the applications by apps_installer.sh (see           *)
(* AppUpdateHandshake).  The script then saves the header of the update    *)
(* and either restarts the client or leaves the reboot to its caller.      *)
(*                                                                         *)
(* Every step may fail, and the power may be cut between any two steps.    *)
(***************************************************************************)
EXTENDS Naturals, Sequences, SequencesExt

CONSTANTS Updates,         \* update packages, with their headers
          Package,         \* the components of each, in the order of installation
          Disk,            \* the device file of the disk, as characters
          PartNum,         \* MBL_ROOT_FS_PART_NUMBER_BANK1 and _BANK2, as characters
          Skippable,       \* partitions that some devices do not have
          Factory,         \* the content the device was made with
          Corrupt,         \* a partly written image or header
          None,            \* no file, no partition, no exit code
          MaxActivations,  \* bound: calls of arm_update_activate.sh
          MaxCuts          \* bound: power cuts

Bootloaders == {"WKS_BOOTLOADER1", "WKS_BOOTLOADER2"}
BootParts   == {"BOOT", "WKS_BOOTLOADER_FS"}
Components  == {"ROOTFS", "BOOT", "APPS"} \cup Bootloaders
Banks       == {"bank1", "bank2"}

Codes       == {0, 1, 21, 22, 23, 24, 25}
Digits      == {"0", "1", "2", "3", "4", "5", "6", "7", "8", "9"}

\* The banks are two partitions, and the path of the disk has no p:
\* rootfsv4_handler takes what is before the first p for the disk.
ASSUME ActivateAssumption ==
  /\ Package \in [Updates -> Seq(Components)]
  /\ Skippable \subseteq BootParts \cup Bootloaders
  /\ Disk \in Seq(STRING \ {"p"}) /\ PartNum \in [Banks -> Seq(Digits)]
  /\ PartNum["bank1"] # PartNum["bank2"]
  /\ Factory # Corrupt /\ {Factory, Corrupt, None} \cap Updates = {} /\ None \notin Codes
  /\ MaxActivations \in Nat /\ MaxCuts \in Nat

\* rootfsv4_handler tells the banks apart by the end of the device path, which it
\* can unless the number of one ends with that of the other, as 13 does with 3.
\* Nothing in the code rules such numbers out.
BanksDistinguished == \A a, b \in Banks : a # b => ~IsSuffix(PartNum[a], PartNum[b])

VARIABLES
  skipped,        \* the partitions this device marks as _SKIP; never changes
  bank,           \* the content of each root file system bank
  part,           \* the content of the boot and bootloader partitions
  rootfs2,        \* the boot flag file exists
  mounted,        \* the bank mounted at /
  do_not_reboot,  \* the file exists, in /tmp
  header,         \* the saved header
  pc,             \* where the activation is
  update,         \* the update being activated
  todo,           \* its components that are still to be installed
  target,         \* the bank or partition the running handler writes
  code,           \* the exit code of the last activation that ended
  ioError,        \* an error of the storage has left an image incomplete
  rewrote,        \* a rootfs was written to a bank already chosen for the next boot
  activations, cuts

device  == <<skipped, part>>
storage == <<bank, part, skipped>>
script  == <<update, code>>
history == <<ioError, rewrote, activations, cuts>>
vars    == <<skipped, bank, part, rootfs2, mounted, do_not_reboot, header, pc, update, todo, target,
             code, ioError, rewrote, activations, cuts>>

Steps == {"idle", "setup", "touch", "swupdate", "copy", "flag", "unpack", "cp", "fs", "dd",
          "dnr", "header", "cpheader", "restart", "reboot"}

Content == Updates \cup {Factory, Corrupt}

TypeOK ==
  /\ skipped \subseteq Skippable
  /\ bank \in [Banks -> Content]
  /\ part \in [BootParts \cup Bootloaders -> Content]
  /\ rootfs2 \in BOOLEAN
  /\ mounted \in Banks
  /\ do_not_reboot \in BOOLEAN
  /\ header \in Updates \cup {Corrupt, None}
  /\ pc \in Steps
  /\ update \in Updates \cup {None}
  /\ todo \in Seq(Components)
  /\ target \in Banks \cup BootParts \cup Bootloaders \cup {None}
  /\ code \in Codes \cup {None}
  /\ ioError \in BOOLEAN /\ rewrote \in BOOLEAN
  /\ activations \in 0..MaxActivations /\ cuts \in 0..MaxCuts

Init ==
  /\ skipped \in SUBSET Skippable
  /\ bank = [b \in Banks |-> Factory]
  /\ part = [p \in BootParts \cup Bootloaders |-> Factory]
  /\ rootfs2 = FALSE /\ mounted = "bank1" /\ do_not_reboot = FALSE
  /\ header = None
  /\ pc = "idle" /\ update = None /\ todo = <<>> /\ target = None
  /\ code = None
  /\ ioError = FALSE /\ rewrote = FALSE
  /\ activations = 0 /\ cuts = 0

\* The bootloader picks the bank by the flag file.
NextBoot == IF rootfs2 THEN "bank2" ELSE "bank1"

----------------------------------------------------------------------------
(* arm_update_activate.sh                                                  *)

\* The caller starts the script with a package and its header.
Activate(u) ==
  /\ pc = "idle" /\ activations < MaxActivations
  /\ pc' = "setup"
  /\ update' = u /\ todo' = Package[u] /\ target' = None
  /\ code' = None
  /\ activations' = activations + 1
  /\ UNCHANGED <<storage, rootfs2, mounted, do_not_reboot, header, ioError, rewrote,
                 cuts>>

\* The script exits with c and leaves the rest as the step that calls it says.
Exit(c) == pc' = "idle" /\ code' = c

\* realpath, rm -rf and mkdir of the directory for the component payloads.
SetUpPayloadTmpDir ==
  /\ pc = "setup"
  /\ \/ pc' = "touch" /\ UNCHANGED code
     \/ \E c \in {22, 23, 24} : Exit(c)
  /\ UNCHANGED <<storage, rootfs2, mounted, do_not_reboot, header, update, todo,
                 target, history>>

\* The result of touch is not looked at.
TouchDoNotReboot ==
  /\ pc = "touch"
  /\ pc' = "swupdate"
  /\ do_not_reboot' \in {TRUE, do_not_reboot}
  /\ UNCHANGED <<storage, rootfs2, mounted, header, script, todo, target, history>>

\* Fault: the failed call of swupdate is not fatal.
HandlerFails_GoOn == pc' = "header" /\ UNCHANGED <<code, todo, target>>

\* A handler fails: swupdate installs nothing more, and the script exits with 25.
HandlerFails == Exit(25) /\ UNCHANGED <<todo, target>>

\* A handler succeeds: swupdate goes on with the next component.
HandlerDone == pc' = "swupdate" /\ todo' = Tail(todo) /\ target' = None /\ UNCHANGED code

Serving(components) == pc = "swupdate" /\ todo # <<>> /\ Head(todo) \in components

SwupdateEnds ==
  /\ pc = "swupdate" /\ todo = <<>>
  /\ pc' = "header"
  /\ UNCHANGED <<storage, rootfs2, mounted, do_not_reboot, header, script, todo, target,
                 history>>

----------------------------------------------------------------------------
(* rootfsv4_handler                                                        *)

device_filepath(b) == Disk \o <<"p">> \o PartNum[b]

\* get_mounted_device("/"): mtab may be unreadable or the path be too long.
get_mounted_device == {device_filepath(mounted), None}

\* A partition number may be unreadable, for want of the file or of memory.
read_file_to_new_str(b) == {PartNum[b], None}

\* ... or for want of room for its path.
read_part_info_file_to_new_str(b) == read_file_to_new_str(b) \cup {None}

str_endswith(substr, fullstr) == IsSuffix(substr, fullstr)

\* strtok(path, "p"): what comes before the first p.
DiskOf(path) == LET ps == {n \in DOMAIN path : path[n] = "p"}
                IN  IF ps = {} THEN path ELSE SubSeq(path, 1, Min(ps) - 1)

\* Fault: the bank that is mounted is taken for the target.
find_target_partition_Mounted(path, b1_pnum, b2_pnum) ==
  IF str_endswith(b1_pnum, path) THEN DiskOf(path) \o <<"p">> \o b1_pnum
  ELSE IF str_endswith(b2_pnum, path) THEN DiskOf(path) \o <<"p">> \o b2_pnum
  ELSE None

find_target_partition(path, b1_pnum, b2_pnum) ==
  IF str_endswith(b1_pnum, path) THEN DiskOf(path) \o <<"p">> \o b2_pnum
  ELSE IF str_endswith(b2_pnum, path) THEN DiskOf(path) \o <<"p">> \o b1_pnum
  ELSE None

\* Fault: the boot flag is set before the image is there.
OpenTarget_FlagFirst ==
  /\ Serving({"ROOTFS"})
  /\ \E b \in Banks \ {mounted} :
       /\ pc' = "copy" /\ target' = b
       /\ bank' = [bank EXCEPT ![b] = Corrupt]
       /\ rootfs2' = (b = "bank2")
       /\ rewrote' = (rewrote \/ b = NextBoot)
  /\ UNCHANGED <<device, mounted, do_not_reboot, header, script, todo, ioError,
                 activations, cuts>>

\* The handler finds the mounted device, the partition numbers and the target,
\* and opens it; each of these may fail.  Then copyimage starts to write.
OpenTarget ==
  /\ Serving({"ROOTFS"})
  /\ \E path \in get_mounted_device, b1_pnum \in read_part_info_file_to_new_str("bank1"),
        b2_pnum \in read_part_info_file_to_new_str("bank2") :
       \/ HandlerFails /\ UNCHANGED <<bank, rewrote>>
       \/ /\ path # None /\ b1_pnum # None /\ b2_pnum # None
          /\ \E b \in Banks :
               /\ device_filepath(b) = find_target_partition(path, b1_pnum, b2_pnum)
               /\ pc' = "copy" /\ target' = b
               /\ bank' = [bank EXCEPT ![b] = Corrupt]
               /\ rewrote' = (rewrote \/ b = NextBoot)
          /\ UNCHANGED <<code, todo>>
  /\ UNCHANGED <<device, rootfs2, mounted, do_not_reboot, header, update, ioError,
                 activations, cuts>>

\* copy_image_and_sync.  When copyimage fails the jump to close skips the
\* assignment of -1, and a failed fsync is a warning: the result is -1 only when
\* close fails.
copy_image_and_sync ==
  /\ pc = "copy"
  /\ \/ bank' = [bank EXCEPT ![target] = update] /\ UNCHANGED ioError
     \/ ioError' = TRUE /\ UNCHANGED bank
  /\ \/ pc' = "flag" /\ UNCHANGED <<code, todo, target>>
     \/ HandlerFails
  /\ UNCHANGED <<device, rootfs2, mounted, do_not_reboot, header, update, rewrote,
                 activations, cuts>>

\* The outcomes of the two operations on the flag file rootfs2.
get_bootflag_file_path == {"ok", "error"}
write_bootflag_file    == {[res |-> r, flag |-> r = "ok" \/ rootfs2] : r \in get_bootflag_file_path}
remove_bootflag_file   == {[res |-> r, flag |-> r # "ok" /\ rootfs2] : r \in get_bootflag_file_path}

\* The flag goes with the bank that was written.
SetBootFlag ==
  /\ pc = "flag"
  /\ \E o \in IF str_endswith(PartNum["bank2"], device_filepath(target))
               THEN write_bootflag_file ELSE remove_bootflag_file :
       /\ rootfs2' = o.flag
       /\ \/ o.res = "ok" /\ pc' = "dnr" /\ UNCHANGED <<todo, target, code>>
          \/ o.res = "error" /\ HandlerFails
  /\ UNCHANGED <<storage, mounted, do_not_reboot, header, update, history>>

\* Fault: the handlers leave the file in place.
RemoveDoNotReboot_Keep ==
  /\ pc = "dnr"
  /\ HandlerDone
  /\ UNCHANGED <<storage, rootfs2, mounted, do_not_reboot, header, update, history>>

\* The last step of the handlers whose component takes a reboot.
RemoveDoNotReboot ==
  /\ pc = "dnr"
  /\ \/ HandlerDone /\ do_not_reboot' = FALSE
     \/ HandlerFails /\ UNCHANGED do_not_reboot
  /\ UNCHANGED <<storage, rootfs2, mounted, header, update, history>>

----------------------------------------------------------------------------
(* boot_partition_installer.sh                                             *)

\* The archive is unpacked and its size taken; any of it may fail.
UnpackBoot ==
  /\ Serving({"BOOT"})
  /\ \/ pc' = "unpack" /\ target' = "BOOT" /\ UNCHANGED <<code, todo>>
     \/ HandlerFails
  /\ UNCHANGED <<storage, rootfs2, mounted, do_not_reboot, header, update, history>>

\* update_boot_part_from_dir_or_die up to rm -f in copy_dir_or_die.  BOOT must
\* exist; the installer passes over WKS_BOOTLOADER_FS when the device has none.
\* The content may be too large, the partition not be made writable or rm fail.
EraseBootPart ==
  /\ pc = "unpack"
  /\ \/ /\ target \notin skipped
        /\ pc' = "cp" /\ part' = [part EXCEPT ![target] = Corrupt]
        /\ UNCHANGED <<code, todo, target>>
     \/ /\ target \in skipped /\ target = "WKS_BOOTLOADER_FS"
        /\ pc' = "dnr"
        /\ UNCHANGED <<device, code, todo, target>>
     \/ /\ part' \in {part, [part EXCEPT ![target] = Corrupt]}
        /\ HandlerFails
  /\ UNCHANGED <<bank, skipped, rootfs2, mounted, do_not_reboot, header, update, history>>

\* cp -f, and the remount as read-only, after which the installer goes from
\* BOOT to WKS_BOOTLOADER_FS.  A failure of either ends the installer; the
\* remount fails when the files are already there.
CopyBootPart ==
  /\ pc = "cp"
  /\ \/ /\ part' = [part EXCEPT ![target] = update]
        /\ pc' = "fs" /\ UNCHANGED <<code, todo, target>>
     \/ /\ part' \in {part, [part EXCEPT ![target] = update]}
        /\ HandlerFails
  /\ UNCHANGED <<bank, skipped, rootfs2, mounted, do_not_reboot, header, update, history>>

\* remove_do_not_reboot_flag_or_die, once per partition.
BootPartDone ==
  /\ pc = "fs"
  /\ \/ /\ do_not_reboot' = FALSE
        /\ IF target = "BOOT" THEN pc' = "unpack" /\ target' = "WKS_BOOTLOADER_FS"
                              ELSE pc' = "dnr" /\ UNCHANGED target
        /\ UNCHANGED <<code, todo>>
     \/ HandlerFails /\ UNCHANGED do_not_reboot
  /\ UNCHANGED <<storage, rootfs2, mounted, header, update, history>>

----------------------------------------------------------------------------
(* bootloader_installer.sh and apps_installer.sh                           *)

\* The checks and the decompression; then dd starts to write.
StartBootloader ==
  /\ Serving(Bootloaders)
  /\ \/ /\ Head(todo) \notin skipped
        /\ pc' = "dd" /\ target' = Head(todo)
        /\ part' = [part EXCEPT ![Head(todo)] = Corrupt]
        /\ UNCHANGED <<code, todo>>
     \/ HandlerFails /\ UNCHANGED part
  /\ UNCHANGED <<bank, skipped, rootfs2, mounted, do_not_reboot, header, update, history>>

WriteBootloader ==
  /\ pc = "dd"
  /\ \/ /\ part' = [part EXCEPT ![target] = update]
        /\ pc' = "dnr" /\ UNCHANGED <<code, todo, target>>
     \/ HandlerFails /\ UNCHANGED part
  /\ UNCHANGED <<bank, skipped, rootfs2, mounted, do_not_reboot, header, update, history>>

\* The applications need no reboot.
InstallApps ==
  /\ Serving({"APPS"})
  /\ HandlerDone \/ HandlerFails
  /\ UNCHANGED <<storage, rootfs2, mounted, do_not_reboot, header, update, history>>

----------------------------------------------------------------------------
(* The end of arm_update_activate.sh, and its caller                       *)

\* cp of the header truncates the saved one before it writes.
OpenSavedHeader ==
  /\ pc = "header"
  /\ \/ pc' = "cpheader" /\ header' = Corrupt /\ UNCHANGED code
     \/ Exit(21) /\ UNCHANGED header
  /\ UNCHANGED <<storage, rootfs2, mounted, do_not_reboot, update, todo, target,
                 history>>

save_header_or_die ==
  /\ pc = "cpheader"
  /\ \/ /\ pc' = "restart" /\ UNCHANGED code
        /\ header' = update
     \/ Exit(21) /\ UNCHANGED header
  /\ UNCHANGED <<storage, rootfs2, mounted, do_not_reboot, update, todo, target,
                 ioError, rewrote, activations, cuts>>

\* With the file in place the client is restarted, or the exit code is that of
\* systemctl.  Without it the caller has to reboot.
RestartClient ==
  /\ pc = "restart"
  /\ \/ do_not_reboot /\ Exit(0)
     \/ do_not_reboot /\ Exit(1)
     \/ ~do_not_reboot /\ pc' = "reboot" /\ code' = 0
  /\ UNCHANGED <<storage, rootfs2, mounted, do_not_reboot, header, update, todo,
                 target, history>>

Boot ==
  /\ mounted' = NextBoot
  /\ do_not_reboot' = FALSE
  /\ pc' = "idle" /\ update' = None /\ todo' = <<>> /\ target' = None
  /\ code' = None
  /\ UNCHANGED <<storage, rootfs2, header, ioError, rewrote, activations>>

\* pal_plat_osApplicationReboot or the end of install_firmware, when the
\* answer to the prompt is yes.
CallerReboots == pc = "reboot" /\ Boot /\ UNCHANGED cuts

\* --assume-no, or the answer no.
CallerDeclines ==
  /\ pc = "reboot"
  /\ pc' = "idle"
  /\ UNCHANGED <<storage, rootfs2, mounted, do_not_reboot, header, script, todo, target,
                 history>>

\* The power is cut, or somebody reboots the device, at any step.
PowerCut == cuts < MaxCuts /\ cuts' = cuts + 1 /\ Boot

Next ==
  \/ \E u \in Updates : Activate(u)
  \/ SetUpPayloadTmpDir \/ TouchDoNotReboot \/ SwupdateEnds
  \/ OpenTarget \/ copy_image_and_sync \/ SetBootFlag \/ RemoveDoNotReboot
  \/ UnpackBoot \/ EraseBootPart \/ CopyBootPart \/ BootPartDone
  \/ StartBootloader \/ WriteBootloader \/ InstallApps
  \/ OpenSavedHeader \/ save_header_or_die \/ RestartClient
  \/ CallerReboots \/ CallerDeclines \/ PowerCut

Spec == Init /\ [][Next]_vars

----------------------------------------------------------------------------
(* Properties.                                                             *)

InPackage(u, c) == \E i \in DOMAIN Package[u] : Package[u][i] = c

\* find_target_partition asks for bank 1 first, so bank 2 passes for bank 1 when its
\* number ends with that of bank 1.
MountedMistaken == mounted = "bank2" /\ IsSuffix(PartNum["bank1"], PartNum["bank2"])

\* No step writes to the root file system the device is running from, except where
\* find_target_partition mistakes the mounted bank for the other.
MountedBankKept == [][MountedMistaken \/ bank'[mounted] = bank[mounted]]_vars

\* The power can be cut at any moment and the device comes up from a complete
\* root file system, as long as no write has failed and no rootfs update was
\* started while an earlier one still waited for its reboot (the order of
\* copy_image_and_sync and the boot flag in rootfsv4_handler).
NextBootBankSound == bank[NextBoot] = Corrupt => ioError \/ rewrote

\* An activation that succeeds and brings a component that takes a reboot
\* leaves no do_not_reboot file: the caller does not stop at a restart of the
\* client (remove_do_not_reboot_flag in each installer).
RebootWhenNeeded ==
  code = 0 /\ update # None
    /\ (\E c \in {"ROOTFS", "BOOT"} \cup Bootloaders : InPackage(update, c))
  => ~do_not_reboot

\* What the header names is installed: the boot partitions and the bootloaders
\* of the update, and the root file system in the bank of the next boot, unless
\* the storage failed.
SuccessInstalls ==
  code = 0 /\ update # None /\ ~ioError =>
    /\ header = update
    /\ InPackage(update, "ROOTFS") => bank[NextBoot] = update /\ NextBoot # mounted
    /\ InPackage(update, "BOOT") => \A p \in BootParts \ skipped : part[p] = update
    /\ \A b \in Bootloaders : InPackage(update, b) => part[b] = update

\* "Success - firmware correctly installed"
\* (mbl-firmware-update-manager/README.md), said of exit code 0.
SuccessMeansInstalled ==
  code = 0 /\ update # None /\ InPackage(update, "ROOTFS") => bank[NextBoot] = update

\* Whatever fails and wherever the power is cut, the device runs one complete
\* system until it boots into the next, and that is the one it ran or, as a whole,
\* the one that was asked for: rootfsv4_handler and the boot flag implement the
\* abstract specification, unless the storage fails or an update that waits for
\* its reboot is written over.
Staging == INSTANCE TwoBanks WITH
             running <- bank[mounted], next <- bank[NextBoot], waiting <- (NextBoot # mounted),
             asked <- update, failed <- ioError

StagesWhole == Staging!Spec

=============================================================================
