------------------------------ MODULE Installer ------------------------------
(***************************************************************************)
(* The installer: syn-config.zsh checks the answers of synos.conf,          *)
(* syn-stage0.zsh prepares the disk (syn-disk.zsh) and puts the system on it *)
(* (syn-pacstrap.zsh, or the runit edition's own), and syn-stage1.zsh, in    *)
(* the new system, checks the answers again, makes the user, the initramfs  *)
(* and the boot loader.  What boots in the end depends on tables in all of   *)
(* these files, each keyed by PartitionStrat.  Any call may fail, and some   *)
(* do so without a word, `|| true`; the user runs the installer again, in    *)
(* the same live system or in a fresh one.                                 *)
(***************************************************************************)
EXTENDS Naturals

CONSTANTS
  Answers,  \* the settings an install may begin with, see Answer
  MaxRuns   \* bound: runs of the installer

Uefi == {"uefi-bootctl", "uefi-stub", "uefi-refind", "uefi-clover"}
Grub == {"mbr-grub", "mbr-grub-btrfs", "mbr-grub-xfs"}
Strategies == Uefi \cup Grub \cup {"mbr-syslinux"}
Filesystems == {"ext4", "f2fs", "btrfs", "xfs"}
(* The machine and the edition are part of it: UEFI firmware, or BIOS; the  *)
(* edition on runit, or on Arch.                                           *)
Answer == [uefi : BOOLEAN, runit : BOOLEAN, PartitionStrat : Strategies \cup {"auto"}, Encryption : BOOLEAN,
           UseLvm : BOOLEAN, FilesystemStrat : Filesystems, Swap : BOOLEAN]
ASSUME AnswersAssumption == Answers \subseteq Answer /\ MaxRuns \in Nat

NULL == "none"

VARIABLES
  conf,       \* the answers
  passphrase, \* LuksPassphrase is in the live system's synos.conf
  exported,   \* and in the environment of the installer
  at,         \* where the installer is
  runs,
  stage1failed, \* Stage 1 has failed since the live system came up
  disk,       \* what is on the disk
  open,       \* the devices on top of the root partition that are up
  mounted,    \* what of the disk is mounted, or swapped to
  target,     \* what is on the new system
  silent      \* the calls of this run that failed without a word, and the last
              \* umount since the live system came up

vars == <<conf, passphrase, exported, at, runs, stage1failed, disk, open, mounted, target, silent>>

Blank == [table |-> NULL, boot |-> NULL, luks |-> FALSE, lvm |-> FALSE, root |-> NULL, named |-> FALSE]
Empty == [packages |-> {}, fstab |-> NULL, password |-> FALSE, passphrase |-> FALSE, state |-> FALSE,
          hooks |-> {}, loader |-> NULL, reads |-> {}, crypt |-> FALSE, names |-> FALSE]
Init == /\ conf \in Answers
        /\ passphrase = conf.Encryption /\ exported = FALSE
        /\ at = "config" /\ runs = 1 /\ stage1failed = FALSE
        /\ disk = Blank /\ open = {} /\ mounted = {} /\ target = Empty /\ silent = {}

-------------------------------------------------------------------------------
(* syn-config.zsh *)

PartitionStrat == IF conf.PartitionStrat # "auto" THEN conf.PartitionStrat
                  ELSE IF conf.uefi THEN "uefi-bootctl"
                  ELSE IF conf.Encryption THEN "mbr-grub" ELSE "mbr-syslinux"
Plain == ~conf.Encryption /\ ~conf.UseLvm
FirmwareFits == conf.uefi <=> PartitionStrat \in Uefi
(* A machine in BIOS mode refuses uefi-*, and one in UEFI mode mbr-*.       *)
Accepts(secret) == /\ FirmwareFits
                   /\ ~(PartitionStrat = "mbr-syslinux" /\ conf.Encryption)
                   /\ PartitionStrat = "uefi-stub" => conf.runit /\ Plain
                   /\ conf.Encryption => secret
BootPart == PartitionStrat # "mbr-syslinux"

-------------------------------------------------------------------------------
Goes(a, b) == at = a /\ at' = b
Same == UNCHANGED <<conf, runs, stage1failed>>
Secrets == <<passphrase, exported>>
Silently(call) == silent' = silent \cup {call}
Loudly == UNCHANGED silent

(* Mutated form of Config: the passphrase is not exported. *)
ConfigKeeps == /\ at = "config"
               /\ at' = IF Accepts(passphrase) THEN "confirm" ELSE "refused"
               /\ Loudly /\ Same /\ UNCHANGED <<Secrets, disk, open, mounted, target>>
Config == /\ at = "config"
          /\ at' = IF Accepts(passphrase) THEN "confirm" ELSE "refused"
          /\ exported' = passphrase
          /\ Loudly /\ Same /\ UNCHANGED <<passphrase, disk, open, mounted, target>>
Confirmed == /\ Goes("confirm", "holders")
             /\ Loudly /\ Same /\ UNCHANGED <<Secrets, disk, open, mounted, target>>

(* clearDiskHolders: swap off, and every device above a partition that is   *)
(* not in use is taken down, from the top.  Any of these calls may fail, and *)
(* where lvs names a volume group the LUKS mapping it is in is passed over:  *)
(* what is beneath stays up too, and nobody asks.                           *)
(* Mutated form of Clear: what an interrupted install left is not closed. *)
ClearNot == /\ Goes("holders", "parted")
            /\ mounted' = mounted \ {"swap"} /\ UNCHANGED open
            /\ Loudly /\ Same /\ UNCHANGED <<Secrets, disk, target>>
Clear == /\ Goes("holders", "parted")
         /\ \/ /\ mounted' = mounted \ {"swap"}
               /\ open' = IF mounted' = {} THEN {} ELSE open
               /\ Loudly
            \/ /\ mounted' \in {mounted, mounted \ {"swap"}}
               /\ open' \in (IF mounted' = {} THEN {open, open \ {"vg"}} ELSE {open})
               /\ Silently("close")
         /\ Same /\ UNCHANGED <<Secrets, disk, target>>

(* parted refuses a disk with anything of it in use. *)
InUse == open # {} \/ mounted # {}
Partition == /\ ~InUse /\ Goes("parted", "boot")
             /\ disk' = [Blank EXCEPT !.table = IF PartitionStrat \in Uefi THEN "gpt" ELSE "msdos",
                                      !.named = PartitionStrat = "uefi-stub"]
             /\ target' = Empty
             /\ Loudly /\ Same /\ UNCHANGED <<Secrets, open, mounted>>

(* volumeMain *)
BootFs == IF PartitionStrat \in Uefi THEN "vfat"
          ELSE IF PartitionStrat = "mbr-grub" THEN "ext4"
          ELSE IF PartitionStrat = "mbr-grub-btrfs" THEN "btrfs"
          ELSE IF PartitionStrat = "mbr-grub-xfs" THEN "xfs"
          ELSE NULL
FormatBoot == /\ Goes("boot", "luks")
              /\ disk' = [disk EXCEPT !.boot = BootFs]
              /\ Loudly /\ Same /\ UNCHANGED <<Secrets, open, mounted, target>>
Luks == /\ Goes("luks", "lvm")
        /\ disk' = [disk EXCEPT !.luks = conf.Encryption]
        /\ open' = IF conf.Encryption THEN {"crypt"} ELSE {}
        /\ Loudly /\ Same /\ UNCHANGED <<Secrets, mounted, target>>
Lvm == /\ Goes("lvm", "mkfs")
       /\ disk' = [disk EXCEPT !.lvm = conf.UseLvm]
       /\ open' = IF conf.UseLvm THEN open \cup {"vg"} ELSE open
       /\ Loudly /\ Same /\ UNCHANGED <<Secrets, mounted, target>>
(* filesystemMain, mountMain *)
SwapDev == conf.UseLvm /\ conf.Swap
FormatRoot == /\ Goes("mkfs", "mount")
              /\ disk' = [disk EXCEPT !.root = conf.FilesystemStrat]
              /\ Loudly /\ Same /\ UNCHANGED <<Secrets, open, mounted, target>>
(* The new system does without the swap that would not start. *)
MountAll == /\ Goes("mount", "pacstrap")
            /\ \E swap \in SUBSET (IF SwapDev THEN {"swap"} ELSE {}) :
                 mounted' = {"root"} \cup (IF BootPart THEN {"boot"} ELSE {}) \cup swap
            /\ Loudly /\ Same /\ UNCHANGED <<Secrets, disk, open, target>>

-------------------------------------------------------------------------------
(* pacstrapMain: Arch's takes the boot loader's packages by PartitionStrat, *)
(* the runit edition's image holds every one.                              *)
bootPkgs == IF PartitionStrat \in {"uefi-bootctl", "uefi-clover"} THEN {"efibootmgr"}
            ELSE IF PartitionStrat = "uefi-refind" THEN {"efibootmgr", "refind"}
            ELSE IF PartitionStrat \in Grub THEN {"grub"}
            ELSE {"syslinux"}
(* genfstab writes what is mounted; the runit edition has a table, and the  *)
(* line names nothing when blkid does not.                                 *)
fstabBoot == IF ~conf.runit THEN disk.boot
             ELSE IF PartitionStrat \in Uefi THEN "vfat"
             ELSE IF PartitionStrat = "mbr-grub" THEN "ext4"
             ELSE IF PartitionStrat = "mbr-grub-btrfs" THEN "btrfs"
             ELSE IF PartitionStrat = "mbr-grub-xfs" THEN "xfs"
             ELSE NULL
Packages == /\ Goes("pacstrap", "conf")
            /\ target' = [target EXCEPT !.packages = IF conf.runit THEN {"efibootmgr", "refind", "grub", "syslinux"} ELSE bootPkgs,
                                        !.fstab = fstabBoot]
            /\ Loudly /\ Same /\ UNCHANGED <<Secrets, disk, open, mounted>>
PackagesNoUuid == /\ Goes("pacstrap", "conf") /\ conf.runit
                  /\ target' = [target EXCEPT !.packages = {"efibootmgr", "refind", "grub", "syslinux"}]
                  /\ Silently("fstab") /\ Same /\ UNCHANGED <<Secrets, disk, open, mounted>>
(* Mutated form of CopyConf: the answers are copied as they are. *)
CopyConfWhole == /\ Goes("conf", "state")
                 /\ target' = [target EXCEPT !.password = TRUE, !.passphrase = passphrase]
                 /\ UNCHANGED passphrase
                 /\ Loudly /\ Same /\ UNCHANGED <<exported, disk, open, mounted>>
(* Arch's file takes the passphrase out of the live system's answers and    *)
(* copies them; the runit edition's only out of the copy.                  *)
CopyConf == /\ Goes("conf", "state")
            /\ target' = [target EXCEPT !.password = TRUE]
            /\ passphrase' = (passphrase /\ conf.runit)
            /\ Loudly /\ Same /\ UNCHANGED <<exported, disk, open, mounted>>
SaveState == /\ Goes("state", "config1")
             /\ target' = [target EXCEPT !.state = TRUE]
             /\ Loudly /\ Same /\ UNCHANGED <<Secrets, disk, open, mounted>>

-------------------------------------------------------------------------------
(* syn-stage1.zsh, in the environment of Stage 0 *)

InStage1 == {"config1", "user", "strip", "initramfs", "loader"}
Stage1Config == /\ at = "config1"
                /\ at' = IF Accepts(exported) /\ target.state THEN "user" ELSE "late"
                /\ stage1failed' = (at' = "late")
                /\ Loudly /\ UNCHANGED <<conf, runs, Secrets, disk, open, mounted, target>>
User == /\ Goes("user", "strip") /\ target.password
        /\ Loudly /\ Same /\ UNCHANGED <<Secrets, disk, open, mounted, target>>
Strip == /\ Goes("strip", "initramfs")
         /\ target' = [target EXCEPT !.password = FALSE]
         /\ Loudly /\ Same /\ UNCHANGED <<Secrets, disk, open, mounted>>
(* Mutated form of Hooks: LVM is only there on an encrypted root. *)
HooksOfLuks == IF conf.Encryption THEN {"encrypt"} \cup (IF conf.UseLvm THEN {"lvm2"} ELSE {}) ELSE {}
Hooks == (IF conf.Encryption THEN {"encrypt"} ELSE {}) \cup (IF conf.UseLvm THEN {"lvm2"} ELSE {})
(* configure_mkinitcpio, and the command line of the kernel, which names a  *)
(* root that is not encrypted by what blkid says, be it nothing.           *)
Initramfs == /\ Goes("initramfs", "loader")
             /\ \E named \in {TRUE, conf.Encryption} :
                  /\ target' = [target EXCEPT !.hooks = IF PartitionStrat = "uefi-stub" THEN {} ELSE Hooks,
                                              !.crypt = conf.Encryption, !.names = named]
                  /\ IF named THEN Loudly ELSE Silently("cmdline")
             /\ Same /\ UNCHANGED <<Secrets, disk, open, mounted>>
grubFsModule == IF PartitionStrat = "mbr-grub" THEN "ext4"
                ELSE IF PartitionStrat = "mbr-grub-btrfs" THEN "btrfs" ELSE "xfs"
(* The firmware reads the ESP.  Syslinux reads the root itself, unless it   *)
(* is f2fs.                                                                *)
Reads == IF PartitionStrat \in Uefi THEN {"vfat"}
         ELSE IF PartitionStrat \in Grub THEN {grubFsModule}
         ELSE Filesystems \ {"f2fs"}
(* Stage 1 goes on when Arch's script for syslinux fails.                  *)
Loader == /\ at = "loader"
          /\ \/ /\ PartitionStrat = "uefi-clover"
                /\ at' = "late" /\ stage1failed' = TRUE /\ UNCHANGED target /\ Loudly
             \/ /\ PartitionStrat # "uefi-clover"
                /\ at' = "done" /\ UNCHANGED stage1failed
                /\ target' = [target EXCEPT !.loader = PartitionStrat, !.reads = Reads]
                /\ Loudly
             \/ /\ PartitionStrat = "mbr-syslinux" /\ ~conf.runit
                /\ at' = "done" /\ UNCHANGED <<stage1failed, target>>
                /\ Silently("loader")
          /\ UNCHANGED <<conf, runs, Secrets, disk, open, mounted>>

-------------------------------------------------------------------------------
Stage0 == Config \/ Confirmed \/ Clear \/ Partition \/ FormatBoot \/ Luks \/ Lvm \/ FormatRoot \/ MountAll
          \/ Packages \/ PackagesNoUuid \/ CopyConf \/ SaveState
Stage1 == Stage1Config \/ User \/ Strip \/ Initramfs \/ Loader

(* A call fails, or the user interrupts.  Until Stage 0 is complete the     *)
(* trap unmounts what is mounted, if that succeeds; devices and swap stay up. *)
Cleanup == \/ at \in InStage1 /\ UNCHANGED mounted /\ Loudly
           \/ at \notin InStage1 /\ mounted' = mounted \cap {"swap"} /\ Loudly
           \/ /\ at = "mount" \/ ("root" \in mounted /\ at \notin InStage1)
              /\ mounted' \in {mounted \cup {"root"}, (mounted \cup {"root"}) \ {"boot"}}
              /\ Silently("umount")
Fails == /\ at \notin {"config", "failed", "refused", "late", "done"}
         /\ at' = "failed"
         /\ stage1failed' = (stage1failed \/ at \in InStage1)
         /\ Cleanup
         (* parts of a step may have been done *)
         /\ open' \in {open} \cup (IF at = "luks" /\ conf.Encryption THEN {{"crypt"}} ELSE {})
                             \cup (IF at = "lvm" /\ conf.UseLvm THEN {open \cup {"vg"}} ELSE {})
         /\ UNCHANGED <<conf, runs, Secrets, disk, target>>
Again == /\ at \in {"failed", "refused", "late"} /\ runs < MaxRuns
         /\ at' = "config" /\ runs' = runs + 1 /\ exported' = FALSE
         /\ silent' = silent \cap {"umount"}
         /\ UNCHANGED <<conf, stage1failed, passphrase, disk, open, mounted, target>>
(* The live system is started afresh, its answers settled as at first. *)
Reboot == /\ at \in {"failed", "refused", "late"} /\ runs < MaxRuns
          /\ at' = "config" /\ runs' = runs + 1 /\ exported' = FALSE
          /\ passphrase' = conf.Encryption /\ stage1failed' = FALSE /\ open' = {} /\ mounted' = {} /\ silent' = {}
          /\ UNCHANGED <<conf, disk, target>>

Next == Stage0 \/ Stage1 \/ Fails \/ Again \/ Reboot
Spec == Init /\ [][Next]_vars

-------------------------------------------------------------------------------
(* PROPERTIES                                                              *)

Stages == {"config", "confirm", "holders", "parted", "boot", "luks", "lvm", "mkfs", "mount", "pacstrap", "conf", "state",
           "config1", "user", "strip", "initramfs", "loader", "done", "failed", "refused", "late"}
Loaders == {"efibootmgr", "refind", "grub", "syslinux"}
Formats == Filesystems \cup {"vfat", NULL}
Disk == [table : {NULL, "gpt", "msdos"}, boot : Formats, luks : BOOLEAN, lvm : BOOLEAN, root : Formats, named : BOOLEAN]
Target == [packages : SUBSET Loaders, fstab : Formats, password : BOOLEAN, passphrase : BOOLEAN, state : BOOLEAN,
           hooks : SUBSET {"encrypt", "lvm2"}, loader : Strategies \cup {NULL}, reads : SUBSET Formats, crypt : BOOLEAN, names : BOOLEAN]
TypeOK == /\ conf \in Answers /\ passphrase \in BOOLEAN /\ exported \in BOOLEAN /\ stage1failed \in BOOLEAN
          /\ at \in Stages /\ runs \in Nat
          /\ open \subseteq {"crypt", "vg"} /\ mounted \subseteq {"root", "boot", "swap"}
          /\ disk \in Disk /\ target \in Target
          /\ silent \subseteq {"close", "umount", "fstab", "cmdline", "loader"}

(* What the firmware starts reads its files from where they were put, the   *)
(* command line and the initramfs open the root, and the new system mounts  *)
(* its /boot as what it is: the tables of syn-disk, syn-pacstrap and        *)
(* syn-stage1 agree.                                                       *)
ReadsBoot == /\ IF disk.boot = NULL THEN disk.root \in target.reads /\ ~disk.luks /\ ~disk.lvm
                                    ELSE disk.boot \in target.reads
             /\ disk.table = "gpt" <=> conf.uefi
             /\ target.loader \in Grub => "grub" \in target.packages
             /\ target.loader = "uefi-refind" => "refind" \in target.packages
             /\ target.loader = "mbr-syslinux" => "syslinux" \in target.packages
OpensRoot == /\ disk.luks => "encrypt" \in target.hooks /\ target.crypt
             /\ disk.lvm => "lvm2" \in target.hooks
             /\ IF PartitionStrat = "uefi-stub" THEN disk.named ELSE target.names
MountsBoot == target.fstab = disk.boot

(* syslinux and a root it cannot read are not refused; and three calls may  *)
(* fail without a word, each costing the one thing it was for: syslinux's    *)
(* script the loader, blkid the root on the command line, and blkid the      *)
(* line of the runit edition's fstab.                                      *)
SyslinuxBlind == PartitionStrat = "mbr-syslinux" /\ (conf.FilesystemStrat = "f2fs" \/ conf.UseLvm)
Boots == at = "done" => /\ ReadsBoot \/ SyslinuxBlind \/ "loader" \in silent
                        /\ OpensRoot \/ "cmdline" \in silent
                        /\ MountsBoot \/ "fstab" \in silent

(* Once the disk has been wiped nothing refuses the answers any more: what *)
(* a later file would not take, and what Stage 1 asks for again, is found   *)
(* by the first check.  uefi-clover alone is documented to fail late.       *)
RefusedBeforeWipe == at = "late" => PartitionStrat = "uefi-clover"

(* The passphrase never reaches the new disk, whichever run stops wherever.  *)
(* The password is gone from it when the install is finished; that of one    *)
(* that is not finished stays until the disk is partitioned again.          *)
SecretsStayBehind == ~target.passphrase /\ (at = "done" => ~target.password)

(* An install that failed or was interrupted in Stage 0 leaves nothing up   *)
(* that keeps the next one from partitioning the disk, if the trap could     *)
(* unmount it and the next one's closings, all `|| true`, succeed.           *)
RunsAgain == at = "parted" /\ ~stage1failed /\ silent \cap {"umount", "close"} = {} => ~InUse
==============================================================================
