---------------------------- MODULE Systems_proofs ----------------------------
(***************************************************************************)
(* Proofs about the two ways a SYN-OS gets onto a disk: Installer, for any   *)
(* set of answers and any number of runs, and LfsBuild, for any number of   *)
(* terminals and of failures.                                              *)
(***************************************************************************)
EXTENDS Installer, LfsBuild, FiniteSetTheorems, SequenceTheorems, TLAPS

(***************************************************************************)
(* The installer.  None of its properties is inductive.  They rest on what  *)
(* an install has settled by the stage it is in: that its answers were      *)
(* accepted, with the passphrase Stage 1 is going to be given; what each    *)
(* earlier stage has put on the disk and on the new system, in terms of the *)
(* answers and of the calls that failed without a word; and, while no Stage *)
(* 1 and no umount of the trap has failed, that what is mounted at most is  *)
(* swap.                                                                   *)
(***************************************************************************)
FromLoader == {"loader", "done"}
FromInitramfs == {"initramfs"} \cup FromLoader
FromUser == {"user", "strip"} \cup FromInitramfs
FromConf == {"conf", "state", "config1"} \cup FromUser
FromMount == {"mount", "pacstrap"} \cup FromConf
FromMkfs == {"mkfs"} \cup FromMount
FromLvm == {"lvm"} \cup FromMkfs
FromLuks == {"luks"} \cup FromLvm
FromBoot == {"boot"} \cup FromLuks
FromConfirm == {"confirm", "holders", "parted"} \cup FromBoot

Accepted == at \in FromConfirm => Accepts(exported)

DiskAsAsked ==
  /\ at \in FromBoot => /\ disk.table = (IF PartitionStrat \in Uefi THEN "gpt" ELSE "msdos")
                        /\ disk.named = (PartitionStrat = "uefi-stub")
  /\ at \in FromLuks => disk.boot = BootFs
  /\ at \in FromLvm => disk.luks = conf.Encryption
  /\ at \in FromMkfs => disk.lvm = conf.UseLvm
  /\ at \in FromMount => disk.root = conf.FilesystemStrat

TargetAsAsked ==
  /\ at \in FromConf => /\ target.packages = (IF conf.runit THEN Loaders ELSE bootPkgs)
                        /\ target.fstab = BootFs \/ "fstab" \in silent
  /\ at = "config1" => target.state
  /\ at \in FromLoader => /\ target.hooks = (IF PartitionStrat = "uefi-stub" THEN {} ELSE Hooks)
                          /\ target.crypt = conf.Encryption
                          /\ target.names \/ "cmdline" \in silent
  /\ at = "done" => \/ target.loader = PartitionStrat /\ target.reads = Reads
                    \/ "loader" \in silent

NoSecret == ~target.passphrase /\ (at \in FromInitramfs => ~target.password)

LeavesSwap == /\ ~stage1failed /\ "umount" \notin silent
              /\ at \in {"config", "confirm", "holders", "failed", "refused", "late"}
              => mounted \subseteq {"swap"}

IInv == /\ TypeOK /\ Accepted /\ DiskAsAsked /\ TargetAsAsked /\ NoSecret /\ LeavesSwap
        /\ RunsAgain /\ RefusedBeforeWipe

(* The stages in which an install has come far enough, by name. *)
USE DEF FromLoader, FromInitramfs, FromUser, FromConf, FromMount, FromMkfs, FromLvm, FromLuks, FromBoot, FromConfirm

(* What is derived from the answers does not change with the stage. *)
LEMMA AnswersStay ==
  ASSUME conf' = conf
  PROVE  /\ PartitionStrat' = PartitionStrat /\ BootFs' = BootFs /\ bootPkgs' = bootPkgs
         /\ Hooks' = Hooks /\ Reads' = Reads
  BY DEF PartitionStrat, BootFs, bootPkgs, Hooks, Reads, grubFsModule

(* "auto" is settled as one of the strategies, and the tables keyed by them *)
(* give packages, formats and hooks.                                       *)
LEMMA Tables ==
  ASSUME TypeOK
  PROVE  /\ conf \in Answer /\ PartitionStrat \in Strategies
         /\ BootFs \in Formats /\ bootPkgs \subseteq Loaders
         /\ Hooks \subseteq {"encrypt", "lvm2"} /\ Reads \subseteq Formats
<1>1. conf \in Answer
  BY AnswersAssumption DEF TypeOK
<1>2. PartitionStrat \in Strategies
  BY <1>1 DEF PartitionStrat, Answer, Strategies, Uefi, Grub
<1>3. BootFs \in Formats /\ bootPkgs \subseteq Loaders
  BY DEF BootFs, bootPkgs, Formats, Loaders, Filesystems
<1>4. Hooks \subseteq {"encrypt", "lvm2"} /\ Reads \subseteq Formats
  BY DEF Hooks, Reads, grubFsModule, Formats, Filesystems
<1> QED  BY <1>1, <1>2, <1>3, <1>4

(* The runit edition's table of fstab lines gives what genfstab would find. *)
LEMMA FstabIsBootFs == ASSUME disk.boot = BootFs PROVE fstabBoot = BootFs
  BY DEF fstabBoot, BootFs

LEMMA InitIInv == Init => IInv
<1> SUFFICES ASSUME Init PROVE IInv
  OBVIOUS
<1> USE DEF Init
<1>1. TypeOK
  <2>1. conf \in Answer
    BY AnswersAssumption
  <2>2. passphrase \in BOOLEAN /\ exported \in BOOLEAN /\ stage1failed \in BOOLEAN
    BY <2>1 DEF Answer
  <2>3. disk \in Disk
    BY DEF Disk, Blank, Formats
  <2>4. target \in Target
    BY DEF Target, Empty, Formats, Loaders
  <2> QED  BY <2>2, <2>3, <2>4 DEF TypeOK, Stages
<1>2. Accepted /\ DiskAsAsked /\ TargetAsAsked
  BY DEF Accepted, DiskAsAsked, TargetAsAsked
<1>3. NoSecret /\ LeavesSwap /\ RunsAgain /\ RefusedBeforeWipe
  BY DEF NoSecret, LeavesSwap, RunsAgain, RefusedBeforeWipe, Empty
<1> QED  BY <1>1, <1>2, <1>3 DEF IInv

(* The records of the disk and of the target, one field changed. *)
LEMMA DiskFields ==
  ASSUME NEW d \in Disk
  PROVE  /\ \A b \in Formats : [d EXCEPT !.boot = b] \in Disk /\ [d EXCEPT !.root = b] \in Disk
         /\ \A b \in BOOLEAN : [d EXCEPT !.luks = b] \in Disk /\ [d EXCEPT !.lvm = b] \in Disk
         /\ d = [table |-> d.table, boot |-> d.boot, luks |-> d.luks, lvm |-> d.lvm, root |-> d.root, named |-> d.named]
  BY DEF Disk
LEMMA TargetFields ==
  ASSUME NEW t \in Target
  PROVE  /\ \A b \in BOOLEAN : [t EXCEPT !.password = b] \in Target /\ [t EXCEPT !.state = b] \in Target
         /\ \A p \in SUBSET Loaders, b \in Formats : [t EXCEPT !.packages = p, !.fstab = b] \in Target
         /\ \A h \in SUBSET {"encrypt", "lvm2"}, b \in BOOLEAN, n \in BOOLEAN :
              [t EXCEPT !.hooks = h, !.crypt = b, !.names = n] \in Target
         /\ \A p \in SUBSET Loaders : [t EXCEPT !.packages = p] \in Target
         /\ \A l \in Strategies, r \in SUBSET Formats : [t EXCEPT !.loader = l, !.reads = r] \in Target
         /\ t = [packages |-> t.packages, fstab |-> t.fstab, password |-> t.password, passphrase |-> t.passphrase,
                 state |-> t.state, hooks |-> t.hooks, loader |-> t.loader, reads |-> t.reads, crypt |-> t.crypt,
                 names |-> t.names]
  BY DEF Target

(* The types of the variables but for the two records, field by field. *)
LEMMA AnswerFields ==
  ASSUME TypeOK
  PROVE  /\ conf.Encryption \in BOOLEAN /\ conf.UseLvm \in BOOLEAN /\ conf.Swap \in BOOLEAN
         /\ conf.uefi \in BOOLEAN /\ conf.runit \in BOOLEAN
         /\ conf.FilesystemStrat \in Filesystems /\ Filesystems \subseteq Formats
         /\ fstabBoot \in Formats
<1>1. conf \in Answer /\ disk.boot \in Formats
  BY Tables DEF TypeOK, Disk
<1>2. fstabBoot \in Formats
  BY <1>1 DEF fstabBoot, Formats, Filesystems
<1> QED  BY <1>1, <1>2 DEF Answer, Formats

(* Type correctness: every step leaves every variable in its set. *)
LEMMA NextTypeOK == TypeOK /\ [Next]_vars => TypeOK'
<1> SUFFICES ASSUME TypeOK, [Next]_vars PROVE TypeOK'
  OBVIOUS
<1>t. /\ PartitionStrat \in Strategies
      /\ BootFs \in Formats /\ bootPkgs \subseteq Loaders
      /\ Hooks \subseteq {"encrypt", "lvm2"} /\ Reads \subseteq Formats
  BY Tables
<1>a. /\ conf.Encryption \in BOOLEAN /\ conf.UseLvm \in BOOLEAN
      /\ conf.FilesystemStrat \in Formats /\ fstabBoot \in Formats
  BY AnswerFields
<1> USE DEF TypeOK, Goes, Same, Secrets, Stages, Silently, Loudly
<1>1. CASE Config
  BY <1>1 DEF Config
<1>2. CASE Confirmed
  BY <1>2 DEF Confirmed
<1>3. CASE Clear
  BY <1>3 DEF Clear
<1>4. CASE Partition
  <2>1. disk' \in Disk
    BY <1>4 DEF Partition, Blank, Disk, Formats
  <2>2. target' \in Target
    BY <1>4 DEF Partition, Empty, Target, Formats
  <2> QED  BY <1>4, <2>1, <2>2 DEF Partition
<1>5. CASE FormatBoot
  BY <1>5, <1>t, DiskFields DEF FormatBoot
<1>6. CASE Luks
  BY <1>6, <1>t, <1>a, DiskFields DEF Luks
<1>7. CASE Lvm
  BY <1>7, <1>t, <1>a, DiskFields DEF Lvm
<1>8. CASE FormatRoot
  BY <1>8, <1>a, DiskFields DEF FormatRoot
<1>9. CASE MountAll
  BY <1>9 DEF MountAll, SwapDev, BootPart
<1>10. CASE Packages
  BY <1>10, <1>t, <1>a, TargetFields DEF Packages, Loaders
<1>22. CASE PackagesNoUuid
  BY <1>22, TargetFields DEF PackagesNoUuid, Loaders
<1>11. CASE CopyConf
  BY <1>11, TargetFields DEF CopyConf
<1>12. CASE SaveState
  BY <1>12, TargetFields DEF SaveState
<1>13. CASE Stage1Config
  BY <1>13 DEF Stage1Config
<1>14. CASE User
  BY <1>14 DEF User
<1>15. CASE Strip
  BY <1>15, TargetFields DEF Strip
<1>16. CASE Initramfs
  <2>1. PICK named \in {TRUE, conf.Encryption} :
          target' = [target EXCEPT !.hooks = IF PartitionStrat = "uefi-stub" THEN {} ELSE Hooks,
                                   !.crypt = conf.Encryption, !.names = named]
    BY <1>16 DEF Initramfs
  <2>2. target' \in Target
    BY <2>1, <1>t, <1>a, TargetFields
  <2> QED  BY <1>16, <2>2 DEF Initramfs
<1>17. CASE Loader
  <2>1. target' \in Target
    <3>1. [target EXCEPT !.loader = PartitionStrat, !.reads = Reads] \in Target
      BY <1>t, TargetFields
    <3> QED  BY <1>17, <3>1 DEF Loader
  <2>2. stage1failed' \in BOOLEAN
    BY <1>17 DEF Loader
  <2> QED  BY <1>17, <2>1, <2>2 DEF Loader
<1>18. CASE Fails
  <2>1. stage1failed' \in BOOLEAN
    BY <1>18 DEF Fails
  <2>2. open' \subseteq {"crypt", "vg"}
    BY <1>18 DEF Fails
  <2>3. mounted' \subseteq {"root", "boot", "swap"}
    BY <1>18 DEF Fails, Cleanup
  <2>4. silent' \subseteq {"close", "umount", "fstab", "cmdline", "loader"}
    BY <1>18 DEF Fails, Cleanup
  <2> QED  BY <1>18, <2>1, <2>2, <2>3, <2>4 DEF Fails
<1>19. CASE Again
  <2>1. runs' \in Nat
    BY <1>19 DEF Again
  <2> QED  BY <1>19, <2>1 DEF Again
<1>20. CASE Reboot
  <2>1. runs' \in Nat
    BY <1>20 DEF Reboot
  <2>2. passphrase' \in BOOLEAN
    BY <1>20, <1>a DEF Reboot
  <2> QED  BY <1>20, <2>1, <2>2 DEF Reboot
<1>21. CASE UNCHANGED vars
  BY <1>21 DEF vars
<1> QED
  BY <1>1, <1>2, <1>3, <1>4, <1>5, <1>6, <1>7, <1>8, <1>9, <1>10, <1>11,
     <1>12, <1>13, <1>14, <1>15, <1>16, <1>17, <1>18, <1>19, <1>20, <1>21, <1>22
  DEF Next, Stage0, Stage1

(* Every step of Stage 0 and Stage 1, every failure and every new run keeps *)
(* the inductive invariant.                                                *)
LEMMA NextIInv == IInv /\ [Next]_vars => IInv'
<1> SUFFICES ASSUME IInv, [Next]_vars PROVE IInv'
  OBVIOUS
<1>o. TypeOK /\ TypeOK'
  BY NextTypeOK DEF IInv
<1>b. conf.Encryption \in BOOLEAN /\ conf.UseLvm \in BOOLEAN /\ exported \in BOOLEAN /\ passphrase \in BOOLEAN
  BY <1>o, AnswerFields DEF TypeOK
<1>d. disk = [table |-> disk.table, boot |-> disk.boot, luks |-> disk.luks, lvm |-> disk.lvm, root |-> disk.root,
              named |-> disk.named]
  BY <1>o, DiskFields DEF TypeOK
<1>e. target = [packages |-> target.packages, fstab |-> target.fstab, password |-> target.password,
                passphrase |-> target.passphrase, state |-> target.state, hooks |-> target.hooks,
                loader |-> target.loader, reads |-> target.reads, crypt |-> target.crypt, names |-> target.names]
  BY <1>o, TargetFields DEF TypeOK
<1>c. conf' = conf
  BY DEF Next, Stage0, Stage1, Config, Confirmed, Clear, Partition, FormatBoot, Luks, Lvm, FormatRoot, MountAll,
         Packages, PackagesNoUuid, CopyConf, SaveState, Stage1Config, User, Strip, Initramfs, Loader, Fails, Again, Reboot, Same, vars
<1>s. /\ PartitionStrat' = PartitionStrat /\ BootFs' = BootFs /\ bootPkgs' = bootPkgs
      /\ Hooks' = Hooks /\ Reads' = Reads
  BY <1>c, AnswersStay
<1> USE <1>o, <1>c, <1>s DEF IInv, Accepted, DiskAsAsked, TargetAsAsked, NoSecret, LeavesSwap, RunsAgain, RefusedBeforeWipe,
            Accepts, FirmwareFits, Plain, Goes, Same, Secrets, InUse, Silently, Loudly
<1>1. CASE Config
  BY <1>1, <1>b DEF Config
<1>2. CASE Confirmed
  BY <1>2 DEF Confirmed
<1>3. CASE Clear
  BY <1>3 DEF Clear
<1>4. CASE Partition
  BY <1>4 DEF Partition, Blank, Empty
<1>5. CASE FormatBoot
  BY <1>5, <1>d DEF FormatBoot
<1>6. CASE Luks
  BY <1>6, <1>d DEF Luks
<1>7. CASE Lvm
  BY <1>7, <1>d DEF Lvm
<1>8. CASE FormatRoot
  BY <1>8, <1>d DEF FormatRoot
<1>9. CASE MountAll
  BY <1>9 DEF MountAll
<1>10. CASE Packages
  BY <1>10, <1>e, FstabIsBootFs DEF Packages, Loaders
<1>22. CASE PackagesNoUuid
  BY <1>22, <1>e DEF PackagesNoUuid, Loaders
<1>11. CASE CopyConf
  BY <1>11, <1>e DEF CopyConf
<1>12. CASE SaveState
  BY <1>12, <1>e DEF SaveState
<1>13. CASE Stage1Config
  BY <1>13, <1>b DEF Stage1Config
<1>14. CASE User
  BY <1>14 DEF User
<1>15. CASE Strip
  BY <1>15, <1>e DEF Strip
<1>16. CASE Initramfs
  BY <1>16, <1>e DEF Initramfs
<1>17. CASE Loader
  BY <1>17, <1>e DEF Loader
<1>18. CASE Fails
  BY <1>18 DEF Fails, Cleanup, InStage1
<1>19. CASE Again
  BY <1>19 DEF Again
<1>20. CASE Reboot
  BY <1>20 DEF Reboot
<1>21. CASE UNCHANGED vars
  BY <1>21 DEF vars
<1> QED
  BY <1>1, <1>2, <1>3, <1>4, <1>5, <1>6, <1>7, <1>8, <1>9, <1>10, <1>11,
     <1>12, <1>13, <1>14, <1>15, <1>16, <1>17, <1>18, <1>19, <1>20, <1>21, <1>22
  DEF Next, Stage0, Stage1

(* Every reachable state satisfies the inductive invariant. *)
THEOREM Invariant == Spec => []IInv
  BY InitIInv, NextIInv, PTL DEF Spec

(* No run, finished or failed, leaves the passphrase on the new disk; a     *)
(* finished one leaves no password there.                                  *)
THEOREM NoSecretOnTheDisk == Spec => []SecretsStayBehind
<1>1. IInv => SecretsStayBehind
  BY DEF IInv, NoSecret, SecretsStayBehind
<1> QED  BY <1>1, Invariant, PTL

(* What the first check accepted is accepted by Stage 1 too, with the       *)
(* passphrase it was exported: only uefi-clover fails with the disk wiped.  *)
THEOREM NothingRefusedLate == Spec => []RefusedBeforeWipe
<1>1. IInv => RefusedBeforeWipe
  BY DEF IInv
<1> QED  BY <1>1, Invariant, PTL

(* However often Stage 0 fails or is interrupted, and wherever, the next    *)
(* run finds the disk free when it comes to partition it, if the umount of  *)
(* the trap succeeded each time and the closings of this run do: nothing    *)
(* else an unfinished Stage 0 can leave up keeps it busy.                   *)
THEOREM DiskIsFree == Spec => []RunsAgain
<1>1. IInv => RunsAgain
  BY DEF IInv
<1> QED  BY <1>1, Invariant, PTL

(* A finished install boots, for every answer the checks let through: the   *)
(* tables of the three files agree strategy by strategy.  A call that fails *)
(* without a word costs what it was for and nothing else: of a run in which *)
(* none did everything holds, syslinux on a root it cannot read excepted.   *)
THEOREM InstalledBoots == Spec => []Boots
<1>1. ASSUME IInv, at = "done" PROVE Boots
  <2> USE <1>1 DEF IInv, DiskAsAsked, TargetAsAsked
  <2>1. TypeOK
    OBVIOUS
  <2>2. /\ conf \in Answer /\ PartitionStrat \in Strategies
        /\ conf.FilesystemStrat \in Filesystems
    BY <2>1, Tables, AnswerFields
  <2>3. /\ conf.uefi <=> PartitionStrat \in Uefi
        /\ ~(PartitionStrat = "mbr-syslinux" /\ conf.Encryption)
        /\ PartitionStrat = "uefi-stub" => ~conf.Encryption /\ ~conf.UseLvm
    BY DEF Accepted, Accepts, FirmwareFits, Plain
  <2>4. MountsBoot \/ "fstab" \in silent
    BY DEF MountsBoot
  <2>5. OpensRoot \/ "cmdline" \in silent
    BY <2>2, <2>3 DEF OpensRoot, Hooks
  <2>6. ASSUME ~SyslinuxBlind, "loader" \notin silent PROVE ReadsBoot
    <3>0. target.loader = PartitionStrat /\ target.reads = Reads
      BY <2>6
    <3>1. CASE PartitionStrat = "mbr-syslinux"
      <4>1. disk.boot = NULL /\ target.reads = Filesystems \ {"f2fs"}
        BY <3>0, <3>1 DEF BootFs, Reads, Uefi, Grub
      <4>2. conf.FilesystemStrat # "f2fs" /\ ~conf.UseLvm
        BY <2>6, <3>1 DEF SyslinuxBlind
      <4>3. disk.root \in target.reads /\ ~disk.luks /\ ~disk.lvm
        BY <2>2, <2>3, <3>1, <4>1, <4>2
      <4>4. disk.table = "gpt" <=> conf.uefi
        BY <2>2, <2>3, <3>1 DEF Uefi
      <4>5. "syslinux" \in target.packages
        BY <3>1 DEF bootPkgs, Loaders, Grub
      <4> QED  BY <3>0, <3>1, <4>1, <4>3, <4>4, <4>5 DEF ReadsBoot, Grub
    <3>2. CASE PartitionStrat # "mbr-syslinux"
      <4>1. disk.boot # NULL /\ disk.boot \in target.reads
        BY <2>2, <3>0, <3>2 DEF BootFs, Reads, grubFsModule, Strategies, Uefi, Grub, NULL
      <4>2. disk.table = "gpt" <=> conf.uefi
        BY <2>3
      <4>3. /\ PartitionStrat \in Grub => "grub" \in target.packages
            /\ PartitionStrat = "uefi-refind" => "refind" \in target.packages
        BY DEF bootPkgs, Loaders, Grub
      <4> QED  BY <3>0, <3>2, <4>1, <4>2, <4>3 DEF ReadsBoot
    <3> QED  BY <3>1, <3>2
  <2> QED  BY <2>4, <2>5, <2>6 DEF Boots
<1>2. IInv => Boots
  BY <1>1 DEF Boots
<1> QED  BY <1>2, Invariant, PTL

-------------------------------------------------------------------------------
(***************************************************************************)
(* The SYN-LFS build.  A terminal's record has its fields.                  *)
(***************************************************************************)
Fields == {"at", "work", "way", "cmd", "step", "all", "ok", "todo", "on", "dead"}
Terminals == DOMAIN sh = Shells /\ \A p \in Shells : DOMAIN sh[p] = Fields

(* What an assignment to a terminal's record changes and what not.         *)
LEMMA AtIs ==
  ASSUME Terminals, NEW p \in Shells, NEW x, To(p, x)
  PROVE  /\ Terminals'
         /\ \A q \in Shells : /\ sh'[q].at = (IF q = p THEN x ELSE sh[q].at)
                              /\ sh'[q].work = sh[q].work /\ sh'[q].cmd = sh[q].cmd /\ sh'[q].step = sh[q].step
                              /\ sh'[q].all = sh[q].all /\ sh'[q].ok = sh[q].ok /\ sh'[q].on = sh[q].on
                              /\ sh'[q].todo = sh[q].todo
                              /\ q # p => sh'[q] = sh[q]
  BY DEF Terminals, To, Fields
LEMMA ExitIs ==
  ASSUME Terminals, NEW p \in Shells, Exit(p)
  PROVE  Terminals' /\ \A q \in Shells : IF q = p THEN sh'[q] = Idle ELSE sh'[q] = sh[q]
  BY DEF Terminals, Exit, Idle, Fields
(* A step ends with its status.                                           *)
Ends(p, x, y) == sh' = [sh EXCEPT ![p].at = x, ![p].ok = y]
LEMMA EndsIs ==
  ASSUME Terminals, NEW p \in Shells, NEW x, NEW y, Ends(p, x, y)
  PROVE  /\ Terminals'
         /\ \A q \in Shells : q # p => sh'[q] = sh[q]
         /\ sh'[p].at = x /\ sh'[p].ok = y /\ sh'[p].work = sh[p].work /\ sh'[p].cmd = sh[p].cmd
         /\ sh'[p].step = sh[p].step /\ sh'[p].all = sh[p].all /\ sh'[p].on = sh[p].on /\ sh'[p].todo = sh[p].todo
  BY DEF Terminals, Ends, Fields

-------------------------------------------------------------------------------
(***************************************************************************)
(* What is mounted.  In each image the layers are counted by the commands   *)
(* in its chroot and by what was left there.  Who is in a chroot whose      *)
(* image is not mounted any more may be counted twice, which never makes    *)
(* the count too small.                                                    *)
(***************************************************************************)
Entries == [work : Works, layers : Nat, left : Nat]
InIt == {"chroot", "down"}
In(i) == {p \in Shells : sh[p].at \in InIt /\ sh[p].on = i}
Bounded(i) == mnt[i].layers <= mnt[i].left + Cardinality(In(i))
WorksOn == \A p \in Shells : sh[p].at # "idle" => sh[p].work \in Works
MInv == Terminals /\ WorksOn /\ mnt \in Seq(Entries) /\ \A i \in DOMAIN mnt : Bounded(i)

LEMMA Finite == ASSUME Terminals, NEW i PROVE IsFiniteSet(In(i)) /\ Cardinality(In(i)) \in Nat
  BY BoundsAssumption, FS_Subset, FS_CardinalityType DEF In
(* One more in the chroot, and one less.                                   *)
LEMMA Entered ==
  ASSUME Terminals, NEW p \in Shells, sh[p].at \notin InIt, sh'[p].at \in InIt,
         \A q \in Shells : q # p => sh'[q] = sh[q]
  PROVE  \A i : Cardinality(In(i)') = Cardinality(In(i)) + (IF i = sh'[p].on THEN 1 ELSE 0)
<1> SUFFICES ASSUME NEW i PROVE Cardinality(In(i)') = Cardinality(In(i)) + (IF i = sh'[p].on THEN 1 ELSE 0)
  OBVIOUS
<1>0. IsFiniteSet(In(i)) /\ Cardinality(In(i)) \in Nat
  BY Finite
<1>1. CASE i = sh'[p].on
  <2>1. In(i)' = In(i) \cup {p} /\ p \notin In(i)
    BY <1>1 DEF In
  <2> QED  BY <1>0, <1>1, <2>1, FS_AddElement
<1>2. CASE i # sh'[p].on
  <2>1. In(i)' = In(i)
    BY <1>2 DEF In
  <2> QED  BY <1>0, <1>2, <2>1
<1> QED  BY <1>1, <1>2
LEMMA Gone ==
  ASSUME Terminals, NEW p \in Shells, sh[p].at \in InIt, sh'[p].at \notin InIt,
         \A q \in Shells : q # p => sh'[q] = sh[q]
  PROVE  \A i : Cardinality(In(i)') = Cardinality(In(i)) - (IF i = sh[p].on THEN 1 ELSE 0)
<1> SUFFICES ASSUME NEW i PROVE Cardinality(In(i)') = Cardinality(In(i)) - (IF i = sh[p].on THEN 1 ELSE 0)
  OBVIOUS
<1>0. IsFiniteSet(In(i)) /\ Cardinality(In(i)) \in Nat
  BY Finite
<1>1. CASE i = sh[p].on
  <2>1. In(i)' = In(i) \ {p} /\ p \in In(i)
    BY <1>1 DEF In
  <2> QED  BY <1>0, <1>1, <2>1, FS_RemoveElement
<1>2. CASE i # sh[p].on
  <2>1. In(i)' = In(i)
    BY <1>2 DEF In
  <2> QED  BY <1>0, <1>2, <2>1
<1> QED  BY <1>1, <1>2

(* What counting does to each image.                                       *)
LEMMA Layers ==
  ASSUME mnt \in Seq(Entries), NEW up \in {-1, 0, 1}, NEW lf \in {0, 1}, NEW k,
         up = -1 => HasLayer, mnt' = Counted(up, k, lf)
  PROVE  /\ mnt' \in Seq(Entries) /\ DOMAIN mnt' = DOMAIN mnt
         /\ \A i \in DOMAIN mnt : /\ mnt'[i].work = mnt[i].work
                                  /\ mnt'[i].layers = mnt[i].layers + (IF i = Len(mnt) THEN up ELSE 0)
                                  /\ mnt'[i].left = mnt[i].left + (IF i = k THEN lf ELSE 0)
<1>1. DOMAIN mnt' = DOMAIN mnt
  BY DEF Counted
<1>2. ASSUME NEW i \in DOMAIN mnt
      PROVE  /\ mnt'[i] \in Entries
             /\ mnt'[i].work = mnt[i].work
             /\ mnt'[i].layers = mnt[i].layers + (IF i = Len(mnt) THEN up ELSE 0)
             /\ mnt'[i].left = mnt[i].left + (IF i = k THEN lf ELSE 0)
  <2> DEFINE m == mnt[i]
  <2>1. m \in Entries /\ m.work \in Works /\ m.layers \in Nat /\ m.left \in Nat
    <3>1. m \in Entries
      OBVIOUS
    <3> QED  BY <3>1 DEF Entries
  <2>2. i = Len(mnt) /\ up = -1 => m.layers > 0
    BY DEF HasLayer
  <2> DEFINE x == IF i = Len(mnt) THEN m.layers + up ELSE m.layers
             y == IF i = k THEN m.left + lf ELSE m.left
  <2>3. mnt'[i] = [m EXCEPT !.layers = x, !.left = y]
    BY DEF Counted
  <2>5. x \in Nat /\ y \in Nat /\ x = m.layers + (IF i = Len(mnt) THEN up ELSE 0) /\ y = m.left + (IF i = k THEN lf ELSE 0)
    <3> HIDE DEF m
    <3> QED  BY <2>1, <2>2
  <2> HIDE DEF m, x, y
  <2>4. mnt'[i] \in Entries /\ mnt'[i].work = m.work
        /\ mnt'[i].layers = m.layers + (IF i = Len(mnt) THEN up ELSE 0)
        /\ mnt'[i].left = m.left + (IF i = k THEN lf ELSE 0)
    <3>1. mnt'[i].work = m.work /\ mnt'[i].layers = x /\ mnt'[i].left = y /\ mnt'[i] \in Entries
      BY <2>1, <2>3, <2>5 DEF Entries
    <3> QED  BY <2>5, <3>1
  <2> QED  BY <2>4 DEF m
<1>3. DOMAIN mnt' = 1 .. Len(mnt) /\ Len(mnt) \in Nat
  BY <1>1
<1>4. mnt' \in Seq(Entries)
  <2>1. mnt' = [i \in DOMAIN mnt |-> mnt'[i]]
    BY <1>1 DEF Counted
  <2>2. mnt' \in [1 .. Len(mnt) -> Entries]
    BY <1>2, <1>3, <2>1
  <2> QED  BY <1>3, <2>2, SeqDef
<1> QED  BY <1>1, <1>2, <1>4

LEMMA InitMInv == LfsInit => MInv
<1> SUFFICES ASSUME LfsInit PROVE MInv
  OBVIOUS
<1>1. Terminals /\ \A p \in Shells : sh[p].at = "idle"
  BY DEF LfsInit, Terminals, Idle, Fields
<1>2. mnt = <<>> /\ mnt \in Seq(Entries) /\ DOMAIN mnt = {}
  <2>1. mnt = <<>>
    BY DEF LfsInit
  <2> QED  BY <2>1
<1> QED  BY <1>1, <1>2 DEF MInv, WorksOn

(* Every step of every command, and every kill, keeps it.                  *)
LEMMA NextMInv == MInv /\ [LfsNext]_lfsVars => MInv'
<1> SUFFICES ASSUME MInv, [LfsNext]_lfsVars PROVE MInv'
  OBVIOUS
<1>0. CASE UNCHANGED lfsVars
  BY <1>0 DEF MInv, lfsVars, Terminals, WorksOn, Bounded, In
<1> SUFFICES ASSUME NEW p \in Shells, Call(p) \/ Step(p) \/ Kill(p) \/ KillShell(p) PROVE MInv'
  BY <1>0 DEF LfsNext
<1>t. Terminals /\ WorksOn /\ mnt \in Seq(Entries) /\ \A i \in DOMAIN mnt : Bounded(i)
  BY DEF MInv
<1> DEFINE At(x) == /\ Terminals' /\ sh'[p].at = x /\ (x # "idle" => sh'[p].work \in Works)
                    /\ \A q \in Shells : q # p => sh'[q] = sh[q]
<1>w. sh[p].at # "idle" => sh[p].work \in Works
  BY <1>t DEF WorksOn
<1>e. \A i \in DOMAIN mnt : mnt[i].layers \in Nat /\ mnt[i].left \in Nat
  <2> SUFFICES ASSUME NEW i \in DOMAIN mnt PROVE mnt[i].layers \in Nat /\ mnt[i].left \in Nat
    OBVIOUS
  <2>1. mnt[i] \in Entries
    BY <1>t
  <2> QED  BY <2>1 DEF Entries
<1>n. ASSUME NEW x, At(x), NEW i
      PROVE  /\ IsFiniteSet(In(i)) /\ Cardinality(In(i)) \in Nat
             /\ IsFiniteSet(In(i)') /\ Cardinality(In(i)') \in Nat
  <2>1. IsFiniteSet(In(i)) /\ Cardinality(In(i)) \in Nat
    BY <1>t, Finite
  <2>2. IsFiniteSet(In(i)')
    BY <1>n, BoundsAssumption, FS_Subset DEF In
  <2> QED  BY <2>1, <2>2, FS_CardinalityType
<1>m. ASSUME NEW x, At(x), mnt' \in Seq(Entries), \A i \in DOMAIN mnt' : Bounded(i)' PROVE MInv'
  <2>1. WorksOn'
    BY <1>t, <1>m DEF WorksOn
  <2> QED  BY <1>m, <2>1 DEF MInv
(* Whoever is not in a chroot before makes the number in it no smaller.    *)
<1>a. ASSUME NEW x, At(x), sh[p].at \notin InIt, mnt' \in Seq(Entries),
             \A i \in DOMAIN mnt' :
               \/ mnt'[i].layers = 0 /\ mnt'[i].left \in Nat
               \/ i \in DOMAIN mnt /\ \E d \in {0, 1} : /\ mnt'[i].layers = mnt[i].layers + d
                                                        /\ mnt'[i].left = mnt[i].left + d
      PROVE  MInv'
  <2> SUFFICES ASSUME NEW i \in DOMAIN mnt' PROVE Bounded(i)'
    BY <1>a, <1>m
  <2>1. IsFiniteSet(In(i)') /\ Cardinality(In(i)) \in Nat /\ Cardinality(In(i)') \in Nat
    BY <1>a, <1>n
  <2>2. In(i) \subseteq In(i)'
    BY <1>a DEF In
  <2>3. Cardinality(In(i)) <= Cardinality(In(i)')
    BY <2>1, <2>2, FS_Subset
  <2>4. i \in DOMAIN mnt => mnt[i].layers <= mnt[i].left + Cardinality(In(i))
    BY <1>t DEF Bounded
  <2>5. mnt'[i].layers <= mnt'[i].left + Cardinality(In(i)')
    <3> DEFINE c == Cardinality(In(i))
               c2 == Cardinality(In(i)')
    <3>1. c \in Nat /\ c2 \in Nat /\ c <= c2 /\ (i \in DOMAIN mnt => mnt[i].layers <= mnt[i].left + c)
      BY <2>1, <2>3, <2>4
    <3> HIDE DEF c, c2
    <3>2. mnt'[i].layers <= mnt'[i].left + c2
      BY <1>a, <1>e, <3>1
    <3> QED  BY <3>2 DEF c2
  <2> QED  BY <2>5 DEF Bounded
<1>u. ASSUME NEW x, At(x), sh[p].at \notin InIt, mnt' = mnt PROVE MInv'
  <2>1. \A i \in DOMAIN mnt' : i \in DOMAIN mnt /\ mnt'[i].layers = mnt[i].layers + 0 /\ mnt'[i].left = mnt[i].left + 0
    BY <1>e, <1>u
  <2> QED  BY <1>a, <1>t, <1>u, <2>1
(* Whoever is in one and stays.                                            *)
<1>b. ASSUME NEW x, At(x), x \in InIt, sh[p].at \in InIt, sh'[p].on = sh[p].on, mnt' = mnt PROVE MInv'
  <2>1. \A i : In(i)' = In(i)
    BY <1>b DEF In
  <2>2. \A i \in DOMAIN mnt' : Bounded(i)'
    BY <1>b, <1>t, <2>1 DEF Bounded
  <2> QED  BY <1>b, <1>m, <1>t, <2>2
(* Whoever leaves one takes a layer or leaves it there.                    *)
<1>d. ASSUME NEW x, At(x), x \notin InIt, sh[p].at \in InIt,
             \/ HasLayer /\ mnt' = Counted(-1, IF sh[p].on = Len(mnt) THEN 0 ELSE sh[p].on, 1)
             \/ mnt' = Counted(0, sh[p].on, 1)
      PROVE  MInv'
  <2>1. \A i : Cardinality(In(i)') = Cardinality(In(i)) - (IF i = sh[p].on THEN 1 ELSE 0)
    BY <1>d, <1>t, Gone
  <2>2. PICK up \in {-1, 0}, k \in {0, sh[p].on} : /\ mnt' = Counted(up, k, 1) /\ (up = -1 => HasLayer)
                                 /\ (up = 0 => k = sh[p].on)
                                 /\ (up = -1 => k = IF sh[p].on = Len(mnt) THEN 0 ELSE sh[p].on)
    BY <1>d
  <2>3. /\ mnt' \in Seq(Entries) /\ DOMAIN mnt' = DOMAIN mnt
        /\ \A i \in DOMAIN mnt : /\ mnt'[i].layers = mnt[i].layers + (IF i = Len(mnt) THEN up ELSE 0)
                                 /\ mnt'[i].left = mnt[i].left + (IF i = k THEN 1 ELSE 0)
    BY <1>t, <2>2, Layers
  <2>4. ASSUME NEW i \in DOMAIN mnt PROVE Bounded(i)'
    <3> DEFINE c == Cardinality(In(i))
               c2 == Cardinality(In(i)')
               o == sh[p].on
               n == Len(mnt)
    <3>1. c \in Nat /\ c2 \in Nat /\ c2 = c - (IF i = o THEN 1 ELSE 0)
      BY <1>d, <1>n, <2>1
    <3>2. mnt[i].layers <= mnt[i].left + c /\ mnt[i].layers \in Nat /\ mnt[i].left \in Nat
      BY <1>e, <1>t DEF Bounded
    <3>3. /\ mnt'[i].layers = mnt[i].layers + (IF i = n THEN up ELSE 0)
          /\ mnt'[i].left = mnt[i].left + (IF i = k THEN 1 ELSE 0)
          /\ (up = 0 => k = o)
          /\ (up = -1 => k = IF o = n THEN 0 ELSE o)
          /\ up \in {-1, 0}
      BY <2>2, <2>3
    <3> HIDE DEF c, c2, o, n
    <3>4. mnt'[i].layers <= mnt'[i].left + c2
      BY <3>1, <3>2, <3>3
    <3> QED  BY <3>4 DEF Bounded, c2
  <2> QED  BY <1>d, <1>m, <2>3, <2>4
<1>1. CASE Call(p)
  <2>1. PICK w \in Works, z \in Ways, c \in Commands :
          sh' = [sh EXCEPT ![p] = [Idle EXCEPT !.work = w, !.way = IF c \in Asks THEN z ELSE Nothing, !.cmd = c,
                                               !.step = c, !.all = c = "all", !.at = IF c = "all" THEN "lock" ELSE "step"]]
    BY <1>1 DEF Call
  <2>2. sh[p].at \notin InIt /\ mnt' = mnt
    BY <1>1 DEF Call, Is, InIt
  <2>3. PICK x : x = (IF c = "all" THEN "lock" ELSE "step")
    OBVIOUS
  <2>4. At(x)
    BY <1>t, <2>1, <2>3 DEF Terminals, Fields, Idle
  <2> QED  BY <1>u, <2>2, <2>4
<1>2. CASE Lock(p)
  <2>1. At("idle") \/ At("was")
    BY <1>2, <1>t, <1>w, AtIs, ExitIs DEF Lock, Is, Idle
  <2>2. sh[p].at \notin InIt /\ mnt' = mnt
    BY <1>2 DEF Lock, Is, InIt
  <2> QED  BY <1>u, <2>1, <2>2
<1>3. CASE Refuse(p)
  <2>1. At("idle")
    BY <1>3, <1>t, ExitIs DEF Refuse, Idle
  <2>2. sh[p].at \notin InIt /\ mnt' = mnt
    BY <1>3 DEF Refuse, Is, InIt
  <2> QED  BY <1>u, <2>1, <2>2
<1>4. CASE Truncate(p)
  <2>1. To(p, "write") /\ sh[p].at = "was" /\ mnt' = mnt
    BY <1>4 DEF Truncate, Is
  <2>2. At("write")
    BY <1>t, <1>w, <2>1, AtIs
  <2> QED  BY <1>u, <2>1, <2>2 DEF InIt
<1>5. CASE Write(p)
  <2>0. PICK y : sh' = [sh EXCEPT ![p].at = "next", ![p].todo = y]
    BY <1>5 DEF Write
  <2>1. At("next")
    <3>1. sh[p].at # "idle"
      BY <1>5 DEF Write, Is
    <3> QED  BY <1>t, <1>w, <2>0, <3>1 DEF Terminals, Fields
  <2>2. sh[p].at \notin InIt /\ mnt' = mnt
    BY <1>5 DEF Write, Is, InIt
  <2> QED  BY <1>u, <2>1, <2>2
<1>6. CASE NextStep(p)
  <2>0. PICK s \in sh[p].todo :
          sh' = [sh EXCEPT ![p].step = s, ![p].cmd = Name(p, s), ![p].ok = TRUE,
                   ![p].at = IF Name(p, s) \notin {"image", "fetch"} /\ img[W(p)] # "none" THEN "remount" ELSE "step"]
    BY <1>6 DEF NextStep
  <2>1. PICK x : x = IF Name(p, s) \notin {"image", "fetch"} /\ img[W(p)] # "none" THEN "remount" ELSE "step"
    OBVIOUS
  <2>2. sh[p].at \notin InIt /\ sh[p].at # "idle" /\ mnt' = mnt
    BY <1>6 DEF NextStep, Is, InIt
  <2>3. At(x)
    BY <1>t, <1>w, <2>0, <2>1, <2>2 DEF Terminals, Fields
  <2> QED  BY <1>u, <2>2, <2>3
<1>7. CASE Finish(p)
  <2>1. At("idle")
    BY <1>7, <1>t, ExitIs DEF Finish, Idle
  <2>2. sh[p].at \notin InIt /\ mnt' = mnt
    BY <1>7 DEF Finish, Is, InIt
  <2> QED  BY <1>u, <2>1, <2>2
<1>8. CASE Record(p)
  <2>0. PICK y : sh' = [sh EXCEPT ![p].at = "next", ![p].todo = y]
    BY <1>8 DEF Record
  <2>1. At("next")
    <3>1. sh[p].at # "idle"
      BY <1>8 DEF Record, Is
    <3> QED  BY <1>t, <1>w, <2>0, <3>1 DEF Terminals, Fields
  <2>2. sh[p].at \notin InIt /\ mnt' = mnt
    BY <1>8 DEF Record, Is, InIt
  <2> QED  BY <1>u, <2>1, <2>2
<1>9. CASE Failed(p)
  <2>1. At("idle")
    BY <1>9, <1>t, ExitIs DEF Failed, Idle
  <2>2. sh[p].at \notin InIt /\ mnt' = mnt
    BY <1>9 DEF Failed, Is, InIt
  <2> QED  BY <1>u, <2>1, <2>2
<1>10. CASE Mount(p)
  <2>1. At("step") \/ At("end")
    BY <1>10, <1>t, <1>w, AtIs DEF Mount, Mounting, Is
  <2>2. sh[p].at \notin InIt /\ sh[p].work \in Works /\ mnt' = IF mnt = <<>> THEN <<Fresh(sh[p].work)>> ELSE mnt
    BY <1>10, <1>w DEF Mount, Mounting, Is, InIt, W
  <2>3. CASE mnt = <<>>
    <3>1. mnt' = <<Fresh(sh[p].work)>>
      BY <2>2, <2>3
    <3>2. Fresh(sh[p].work) \in Entries
      BY <2>2 DEF Entries, Fresh
    <3>3. mnt' \in Seq(Entries) /\ DOMAIN mnt' = {1} /\ mnt'[1] = Fresh(sh[p].work)
      BY <3>1, <3>2
    <3>4. mnt'[1].layers = 0 /\ mnt'[1].left = 0
      BY <3>3 DEF Fresh
    <3> QED  BY <1>a, <2>1, <2>2, <3>3, <3>4
  <2> QED  BY <1>u, <2>1, <2>2, <2>3
<1>11. CASE MountFails(p)
  <2>1. At("idle")
    BY <1>11, <1>t, ExitIs DEF MountFails, Idle
  <2>2. sh[p].at \notin InIt /\ mnt' = mnt
    BY <1>11 DEF MountFails, Is, InIt, Mounting
  <2> QED  BY <1>u, <2>1, <2>2
<1>12. CASE NotReady(p)
  <2>1. Ends(p, "end", FALSE) /\ sh[p].at = "step" /\ mnt' = mnt
    BY <1>12 DEF NotReady, Ends, Is
  <2>2. At("end")
    BY <1>t, <1>w, <2>1, EndsIs
  <2> QED  BY <1>u, <2>1, <2>2 DEF InIt
<1>13. CASE Create(p)
  <2>1. (Ends(p, "end", FALSE) \/ To(p, "format")) /\ sh[p].at = "step" /\ mnt' = mnt
    BY <1>13 DEF Create, Ends, Is
  <2>2. At("end") \/ At("format")
    <3>1. CASE Ends(p, "end", FALSE)
      BY <1>t, <1>w, <2>1, <3>1, EndsIs
    <3>2. CASE To(p, "format")
      BY <1>t, <1>w, <2>1, <3>2, AtIs
    <3> QED  BY <2>1, <3>1, <3>2
  <2>3. sh[p].at \notin InIt
    BY <2>1 DEF InIt
  <2> QED  BY <1>u, <2>1, <2>2, <2>3
<1>14. CASE Format(p)
  <2>1. At("end")
    BY <1>14, <1>t, <1>w, AtIs DEF Format, Is
  <2>2. sh[p].at \notin InIt /\ sh[p].work \in Works /\ mnt' = Append(mnt, Fresh(sh[p].work))
    BY <1>14, <1>w DEF Format, Is, InIt, W
  <2>3. Fresh(sh[p].work) \in Entries
    BY <2>2 DEF Entries, Fresh
  <2>4. /\ mnt' \in Seq(Entries) /\ Len(mnt') = Len(mnt) + 1 /\ mnt'[Len(mnt) + 1] = Fresh(sh[p].work)
        /\ \A i \in 1 .. Len(mnt) : mnt'[i] = mnt[i]
    BY <1>t, <2>2, <2>3, AppendProperties
  <2>5. ASSUME NEW i \in DOMAIN mnt'
        PROVE  \/ mnt'[i].layers = 0 /\ mnt'[i].left \in Nat
               \/ i \in DOMAIN mnt /\ \E d \in {0, 1} : /\ mnt'[i].layers = mnt[i].layers + d
                                                        /\ mnt'[i].left = mnt[i].left + d
    <3>1. CASE i = Len(mnt) + 1
      BY <2>4, <3>1 DEF Fresh
    <3>2. CASE i # Len(mnt) + 1
      <4>1. i \in DOMAIN mnt /\ mnt'[i] = mnt[i]
        BY <1>t, <2>4, <3>2
      <4>2. mnt'[i].layers = mnt[i].layers + 0 /\ mnt'[i].left = mnt[i].left + 0
        BY <1>e, <4>1
      <4> QED  BY <4>1, <4>2
    <3> QED  BY <3>1, <3>2
  <2> QED  BY <1>a, <2>1, <2>2, <2>4, <2>5
<1>15. CASE PlainStep(p)
  <2>1. At("end")
    BY <1>15, <1>t, <1>w, AtIs DEF PlainStep, Is
  <2>2. sh[p].at \notin InIt /\ mnt' = mnt
    BY <1>15 DEF PlainStep, Is, InIt
  <2> QED  BY <1>u, <2>1, <2>2
<1>16. CASE StepFails(p)
  <2>0. mnt' = mnt /\ sh[p].at \in {"step", "chroot", "squash"}
        /\ Ends(p, IF sh[p].at = "chroot" THEN "down" ELSE "end", FALSE)
    BY <1>16 DEF StepFails, Is, Ends
  <2>1. PICK x : x = IF sh[p].at = "chroot" THEN "down" ELSE "end"
    OBVIOUS
  <2>2. At(x) /\ sh'[p].on = sh[p].on
    BY <1>t, <1>w, <2>0, <2>1, EndsIs
  <2>3. CASE sh[p].at = "chroot"
    BY <1>b, <2>0, <2>1, <2>2, <2>3 DEF InIt
  <2>4. CASE sh[p].at # "chroot"
    <3>1. sh[p].at \notin InIt
      BY <2>0, <2>4 DEF InIt
    <3> QED  BY <1>u, <2>0, <2>2, <3>1
  <2> QED  BY <2>3, <2>4
<1>17. CASE FailsQuietly(p)
  <2>0. mnt' = mnt /\ sh[p].at \in {"step", "format", "chroot", "squash"}
        /\ To(p, IF sh[p].at = "chroot" THEN "down" ELSE "end")
    BY <1>17 DEF FailsQuietly, Unasked, Is
  <2>1. PICK x : x = IF sh[p].at = "chroot" THEN "down" ELSE "end"
    OBVIOUS
  <2>2. At(x) /\ sh'[p].on = sh[p].on
    BY <1>t, <1>w, <2>0, <2>1, AtIs
  <2>3. CASE sh[p].at = "chroot"
    BY <1>b, <2>0, <2>1, <2>2, <2>3 DEF InIt
  <2>4. CASE sh[p].at # "chroot"
    <3>1. sh[p].at \notin InIt
      BY <2>0, <2>4 DEF InIt
    <3> QED  BY <1>u, <2>0, <2>2, <3>1
  <2> QED  BY <2>3, <2>4
<1>18. CASE StopsThere(p)
  <2>1. At("idle")
    BY <1>18, <1>t, ExitIs DEF StopsThere, Idle
  <2>2. CASE sh[p].at = "chroot"
    <3>1. mnt' = Counted(0, sh[p].on, 1)
      BY <1>18, <2>2 DEF StopsThere, Is
    <3> QED  BY <1>d, <2>1, <2>2, <3>1 DEF InIt
  <2>3. CASE sh[p].at = "squash" /\ mnt' # mnt
    <3>1. mnt' = Counted(1, Len(mnt), 1)
      BY <1>18, <2>3 DEF StopsThere, Is
    <3>2. /\ mnt' \in Seq(Entries) /\ DOMAIN mnt' = DOMAIN mnt
          /\ \A i \in DOMAIN mnt : /\ mnt'[i].layers = mnt[i].layers + (IF i = Len(mnt) THEN 1 ELSE 0)
                                   /\ mnt'[i].left = mnt[i].left + (IF i = Len(mnt) THEN 1 ELSE 0)
      BY <1>t, <3>1, Layers
    <3>3. \A i \in DOMAIN mnt' : i \in DOMAIN mnt /\ \E d \in {0, 1} : /\ mnt'[i].layers = mnt[i].layers + d
                                                                        /\ mnt'[i].left = mnt[i].left + d
      BY <3>2
    <3>4. sh[p].at \notin InIt
      BY <2>3 DEF InIt
    <3> QED  BY <1>a, <2>1, <3>2, <3>3, <3>4
  <2>4. CASE sh[p].at # "chroot" /\ mnt' = mnt
    <3>1. sh[p].at \notin InIt
      BY <1>18, <2>4 DEF StopsThere, Unasked, Is, InIt
    <3> QED  BY <1>u, <2>1, <2>4, <3>1
  <2>5. sh[p].at \notin {"chroot", "squash"} => mnt' = mnt
    BY <1>18 DEF StopsThere, Is
  <2> QED  BY <2>2, <2>3, <2>4, <2>5
<1>19. CASE ChrootUp(p)
  <2>0. /\ sh' = [sh EXCEPT ![p].at = "chroot", ![p].on = Len(mnt)] /\ sh[p].at = "step"
        /\ mnt' = Counted(1, 0, 0)
    BY <1>19 DEF ChrootUp, Is
  <2>1. At("chroot") /\ sh'[p].on = Len(mnt)
    BY <1>t, <1>w, <2>0 DEF Terminals, Fields
  <2>2. \A i : Cardinality(In(i)') = Cardinality(In(i)) + (IF i = Len(mnt) THEN 1 ELSE 0)
    BY <1>t, <2>0, <2>1, Entered DEF InIt
  <2>3. /\ mnt' \in Seq(Entries) /\ DOMAIN mnt' = DOMAIN mnt
        /\ \A i \in DOMAIN mnt : /\ mnt'[i].layers = mnt[i].layers + (IF i = Len(mnt) THEN 1 ELSE 0)
                                 /\ mnt'[i].left = mnt[i].left + (IF i = 0 THEN 0 ELSE 0)
    BY <1>t, <2>0, Layers
  <2>4. ASSUME NEW i \in DOMAIN mnt PROVE Bounded(i)'
    <3> DEFINE c == Cardinality(In(i))
               c2 == Cardinality(In(i)')
               n == Len(mnt)
    <3>1. c \in Nat /\ c2 = c + (IF i = n THEN 1 ELSE 0)
      BY <1>n, <2>1, <2>2
    <3>2. mnt[i].layers <= mnt[i].left + c /\ mnt[i].layers \in Nat /\ mnt[i].left \in Nat
      BY <1>e, <1>t DEF Bounded
    <3>3. mnt'[i].layers = mnt[i].layers + (IF i = n THEN 1 ELSE 0) /\ mnt'[i].left = mnt[i].left
      BY <1>e, <2>3
    <3> HIDE DEF c, c2, n
    <3>4. mnt'[i].layers <= mnt'[i].left + c2
      BY <3>1, <3>2, <3>3
    <3> QED  BY <3>4 DEF Bounded, c2
  <2> QED  BY <1>m, <2>1, <2>3, <2>4
<1>20. CASE InChroot(p)
  <2>1. At("down") /\ sh[p].at = "chroot" /\ mnt' = mnt /\ sh'[p].on = sh[p].on
    BY <1>20, <1>t, <1>w, AtIs DEF InChroot, Is
  <2> QED  BY <1>b, <2>1 DEF InIt
<1>21. CASE ChrootDown(p)
  <2>1. PICK x \in {"squash", "end"} : x = AfterDown(p)
    BY DEF AfterDown
  <2>2. At(x) /\ sh[p].at = "down"
    BY <1>21, <1>t, <1>w, <2>1, AtIs DEF ChrootDown, Is
  <2>3. HasLayer /\ mnt' = Counted(-1, IF sh[p].on = Len(mnt) THEN 0 ELSE sh[p].on, 1)
    BY <1>21 DEF ChrootDown, TakesLayer
  <2>4. x \notin InIt /\ sh[p].at \in InIt
    BY <2>1, <2>2 DEF InIt
  <2> QED  BY <1>d, <2>2, <2>3, <2>4
<1>22. CASE DownFails(p)
  <2>1. PICK x \in {"squash", "end"} : x = AfterDown(p)
    BY DEF AfterDown
  <2>2. (At(x) \/ At("idle")) /\ sh[p].at = "down"
    BY <1>22, <1>t, <1>w, <2>1, AtIs, ExitIs DEF DownFails, Is, Idle
  <2>3. mnt' = Counted(0, sh[p].on, 1)
    BY <1>22 DEF DownFails
  <2>4. x \notin InIt /\ "idle" \notin InIt /\ sh[p].at \in InIt
    BY <2>1, <2>2 DEF InIt
  <2> QED  BY <1>d, <2>2, <2>3, <2>4
<1>23. CASE Squash(p)
  <2>1. At("end")
    BY <1>23, <1>t, <1>w, AtIs DEF Squash, Is
  <2>2. sh[p].at \notin InIt /\ mnt' = mnt
    BY <1>23 DEF Squash, Is, InIt
  <2> QED  BY <1>u, <2>1, <2>2
<1>24. CASE Umount(p)
  <2>1. At("end") /\ sh[p].at \notin InIt
    BY <1>24, <1>t, <1>w, AtIs DEF Umount, Is, InIt
  <2>2. CASE mnt' = mnt
    BY <1>u, <2>1, <2>2
  <2>3. CASE mnt' # mnt
    <3>1. mnt # <<>> /\ mnt' = Front(mnt)
      BY <1>24, <2>3 DEF Umount
    <3>2. /\ Len(mnt) \in Nat \ {0} /\ 1 \in Int /\ Len(mnt) - 1 \in Int /\ mnt' = SubSeq(mnt, 1, Len(mnt) - 1)
          /\ \A i \in 1 .. Len(mnt) - 1 : mnt[i] \in Entries
      BY <1>t, <3>1 DEF Front
    <3>3. mnt' \in Seq(Entries) /\ Len(mnt') = Len(mnt) - 1 /\ \A i \in 1 .. Len(mnt) - 1 : mnt'[i] = mnt[i]
      <4> DEFINE n == Len(mnt) - 1
      <4>1. n \in Int /\ 1 <= n + 1 /\ \A i \in 1 .. n : mnt[i] \in Entries
        BY <3>2
      <4>2. /\ SubSeq(mnt, 1, n) \in Seq(Entries) /\ Len(SubSeq(mnt, 1, n)) = IF 1 <= n THEN n - 1 + 1 ELSE 0
            /\ \A i \in 1 .. n - 1 + 1 : SubSeq(mnt, 1, n)[i] = mnt[1 + i - 1]
        BY <4>1, SubSeqProperties
      <4>3. Len(SubSeq(mnt, 1, n)) = n /\ \A i \in 1 .. n : SubSeq(mnt, 1, n)[i] = mnt[i]
        <5> HIDE DEF n
        <5> QED  BY <4>1, <4>2
      <4> QED  BY <3>2, <4>2, <4>3
    <3>4. \A i \in DOMAIN mnt' : i \in DOMAIN mnt /\ mnt'[i].layers = mnt[i].layers + 0 /\ mnt'[i].left = mnt[i].left + 0
      BY <1>e, <1>t, <3>1, <3>3
    <3> QED  BY <1>a, <2>1, <3>3, <3>4
  <2> QED  BY <2>2, <2>3
<1>25. CASE BootLooks(p)
  <2>1. At("end") \/ At("qemu")
    BY <1>25, <1>t, <1>w, AtIs DEF BootLooks, Is
  <2>2. sh[p].at \notin InIt /\ mnt' = mnt
    BY <1>25 DEF BootLooks, Is, InIt
  <2> QED  BY <1>u, <2>1, <2>2
<1>26. CASE Opens(p)
  <2>1. At("running")
    BY <1>26, <1>t, <1>w, AtIs DEF Opens, Is
  <2>2. sh[p].at \notin InIt /\ mnt' = mnt
    BY <1>26 DEF Opens, Is, InIt
  <2> QED  BY <1>u, <2>1, <2>2
<1>27. CASE ShutDown(p)
  <2>1. At("end")
    BY <1>27, <1>t, <1>w, AtIs DEF ShutDown, Is
  <2>2. sh[p].at \notin InIt /\ mnt' = mnt
    BY <1>27 DEF ShutDown, Is, InIt
  <2> QED  BY <1>u, <2>1, <2>2
<1>28. CASE Kill(p)
  <2>1. At("idle")
    BY <1>28, <1>t, ExitIs DEF Kill, Idle
  <2>2. CASE sh[p].at \in InIt
    <3>1. mnt' = Counted(0, sh[p].on, 1)
      BY <1>28, <2>2 DEF Kill, Is, InIt
    <3> QED  BY <1>d, <2>1, <2>2, <3>1 DEF InIt
  <2>3. CASE sh[p].at = "squash"
    <3>1. mnt' = Counted(1, Len(mnt), 1)
      BY <1>28, <2>3 DEF Kill, Is
    <3>2. /\ mnt' \in Seq(Entries) /\ DOMAIN mnt' = DOMAIN mnt
          /\ \A i \in DOMAIN mnt : /\ mnt'[i].layers = mnt[i].layers + (IF i = Len(mnt) THEN 1 ELSE 0)
                                   /\ mnt'[i].left = mnt[i].left + (IF i = Len(mnt) THEN 1 ELSE 0)
      BY <1>t, <3>1, Layers
    <3>3. \A i \in DOMAIN mnt' : i \in DOMAIN mnt /\ \E d \in {0, 1} : /\ mnt'[i].layers = mnt[i].layers + d
                                                                        /\ mnt'[i].left = mnt[i].left + d
      BY <3>2
    <3>4. sh[p].at \notin InIt
      BY <2>3 DEF InIt
    <3> QED  BY <1>a, <2>1, <3>2, <3>3, <3>4
  <2>4. CASE sh[p].at \notin InIt \cup {"squash"}
    <3>1. mnt' = mnt
      BY <1>28, <2>4 DEF Kill, Is, InIt
    <3> QED  BY <1>u, <2>1, <2>4, <3>1
  <2> QED  BY <2>2, <2>3, <2>4
<1>29. CASE KillShell(p)
  <2>0. sh' = [sh EXCEPT ![p].dead = TRUE] /\ mnt' = mnt /\ sh[p].at # "idle"
    BY <1>29 DEF KillShell
  <2>1. At(sh[p].at) /\ sh'[p].on = sh[p].on
    BY <1>t, <1>w, <2>0 DEF Terminals, Fields
  <2> QED  BY <1>b, <1>u, <2>0, <2>1
<1> QED
  BY <1>1, <1>2, <1>3, <1>4, <1>5, <1>6, <1>7, <1>8, <1>9, <1>10, <1>11, <1>12, <1>13, <1>14, <1>15, <1>16, <1>17, <1>18, <1>19, <1>20, <1>21, <1>22, <1>23, <1>24, <1>25, <1>26, <1>27, <1>28, <1>29
  DEF Step

(* What is mounted in an image is what somebody in its chroot has mounted,  *)
(* or what was left there.                                                *)
THEOREM MountsAccounted == LfsSpec => []NothingLeftMounted
<1>1. MInv => NothingLeftMounted
  BY DEF MInv, NothingLeftMounted, Bounded, In, InIt
<1> QED  BY <1>1, InitMInv, NextMInv, PTL DEF LfsSpec

-------------------------------------------------------------------------------
(***************************************************************************)
(* What is recorded.  The work of a step is done where it is recorded, as   *)
(* long as the only image that is mounted is that work directory's.         *)
(***************************************************************************)
Mounted(w) == \A i \in DOMAIN mnt : mnt[i].work = w
RecordedIn(w) == state[w] \subseteq did[w] \cup missed[w]
Between == {"idle", "lock", "was", "write", "next"}
(* The command `all` runs for a step.                                      *)
Fits(p) == /\ sh[p].step \in AllSteps
           /\ \/ sh[p].cmd = sh[p].step /\ sh[p].step # "kernel2"
              \/ sh[p].cmd = "kernel" /\ sh[p].step = "kernel2"
              \/ sh[p].cmd = "mount" /\ sh[p].step = "image"
Told(p) == sh[p].at = "end" \/ (sh[p].at = "down" /\ sh[p].cmd # "iso")
DoneSoFar(w, p) ==
  sh[p].all /\ sh[p].at \notin Between =>
     /\ Fits(p)
     /\ sh[p].at \notin {"qemu", "running"}
     /\ sh[p].at = "format" => sh[p].cmd = "image"
     /\ sh[p].at \in {"chroot", "down", "squash"} => sh[p].cmd # "mount"
     /\ sh[p].work = w /\ sh[p].ok /\ Told(p) => sh[p].step \in did[w] \cup missed[w]
RInv(w) == /\ DOMAIN did = Works /\ DOMAIN missed = Works /\ DOMAIN state = Works
           /\ \A p \in Shells : sh[p].todo \subseteq AllSteps /\ DoneSoFar(w, p)
           /\ RecordedIn(w)

LEMMA InitRInv == ASSUME NEW w \in Works PROVE LfsInit => RInv(w)
<1> SUFFICES ASSUME LfsInit PROVE RInv(w)
  OBVIOUS
<1>1. \A p \in Shells : ~sh[p].all /\ sh[p].todo \subseteq AllSteps
  BY DEF LfsInit, Idle
<1>2. \A p \in Shells : DoneSoFar(w, p)
  BY <1>1 DEF DoneSoFar
<1>3. DOMAIN did = Works /\ DOMAIN missed = Works /\ DOMAIN state = Works /\ state[w] = {}
  BY DEF LfsInit
<1> QED  BY <1>1, <1>2, <1>3 DEF RInv, RecordedIn

(* A step does its work where it is recorded, if that is what is mounted.  *)
LEMMA DoesAny ==
  ASSUME NEW w \in Works, NEW p \in Shells, DOMAIN did = Works, DOMAIN missed = Works, Does(p)
  PROVE  /\ DOMAIN did' = Works /\ did[w] \subseteq did'[w]
         /\ DOMAIN missed' = Works /\ missed[w] \subseteq missed'[w]
<1>1. PICK x, R, y, S : did' = [did EXCEPT ![x] = @ \cup R] /\ missed' = [missed EXCEPT ![y] = @ \cup S]
  BY DEF Does
<1> QED  BY <1>1
LEMMA DoesIt ==
  ASSUME NEW w \in Works, NEW p \in Shells, Mounted(w), mnt \in Seq(Entries), mnt # <<>> \/ Cmd(p) \notin InImage,
         DOMAIN did = Works, DOMAIN missed = Works, Does(p), sh[p].work = w, Fits(p), Cmd(p) # "mount"
  PROVE  sh[p].step \in did'[w] \cup missed'[w]
<1>1. Place(p) = w
  <2>1. mnt # <<>> => Top = w
    <3>1. mnt # <<>> => Len(mnt) \in DOMAIN mnt
      OBVIOUS
    <3> QED  BY <3>1 DEF Mounted, Top
  <2> QED  BY <2>1 DEF Place, W
<1>2. did' = [did EXCEPT ![w] = @ \cup Result(p)] /\ missed' = [missed EXCEPT ![w] = @ \cup Passed(p)]
  BY <1>1 DEF Does, W
<1>3. sh[p].step \in Result(p) \cup Passed(p)
  BY DEF Fits, Cmd, Result, Passed
<1> QED  BY <1>2, <1>3
LEMMA MissesIt ==
  ASSUME NEW w \in Works, NEW p \in Shells, DOMAIN missed = Works, DOMAIN did = Works, Misses(p)
  PROVE  /\ DOMAIN did' = Works /\ did[w] \subseteq did'[w]
         /\ DOMAIN missed' = Works /\ missed[w] \subseteq missed'[w]
         /\ sh[p].work = w => sh[p].step \in missed'[w]
<1>1. PICK R : missed' = [missed EXCEPT ![sh[p].work] = @ \cup R \cup {sh[p].step}] /\ did' = did
  BY DEF Misses, W
<1> QED  BY <1>1

LEMMA NextRInv ==
  ASSUME NEW w \in Works
  PROVE  MInv /\ RInv(w) /\ Mounted(w) /\ [LfsNext]_lfsVars => RInv(w)'
<1> SUFFICES ASSUME MInv, RInv(w), Mounted(w), [LfsNext]_lfsVars PROVE RInv(w)'
  OBVIOUS
<1>0. CASE UNCHANGED lfsVars
  BY <1>0 DEF RInv, DoneSoFar, Fits, Told, RecordedIn, lfsVars, image, records
<1> SUFFICES ASSUME NEW p \in Shells, Call(p) \/ Step(p) \/ Kill(p) \/ KillShell(p) PROVE RInv(w)'
  BY <1>0 DEF LfsNext
<1>t. /\ Terminals /\ mnt \in Seq(Entries) /\ DOMAIN did = Works /\ DOMAIN missed = Works /\ DOMAIN state = Works
      /\ sh[p].todo \subseteq AllSteps /\ DoneSoFar(w, p) /\ RecordedIn(w)
  BY DEF MInv, RInv
<1> DEFINE Rest == \A q \in Shells : q # p => sh'[q] = sh[q]
           Grown == /\ DOMAIN did' = Works /\ did[w] \subseteq did'[w]
                    /\ DOMAIN missed' = Works /\ missed[w] \subseteq missed'[w]
           Moved(x, y) == /\ Rest /\ sh'[p].at = x /\ sh'[p].ok = y /\ sh'[p].work = sh[p].work /\ sh'[p].cmd = sh[p].cmd
                          /\ sh'[p].step = sh[p].step /\ sh'[p].all = sh[p].all /\ sh'[p].todo = sh[p].todo
(* The others are where they were, and what is done stays done.            *)
<1>o. ASSUME Rest, Grown PROVE \A q \in Shells : q # p => sh'[q].todo \subseteq AllSteps /\ DoneSoFar(w, q)'
  <2> SUFFICES ASSUME NEW q \in Shells, q # p PROVE sh'[q].todo \subseteq AllSteps /\ DoneSoFar(w, q)'
    OBVIOUS
  <2>1. DoneSoFar(w, q) /\ sh[q].todo \subseteq AllSteps /\ sh'[q] = sh[q]
    BY <1>o DEF RInv
  <2>2. did[w] \cup missed[w] \subseteq did'[w] \cup missed'[w]
    BY <1>o
  <2> QED  BY <2>1, <2>2 DEF DoneSoFar, Fits, Told
<1>r. ASSUME Rest, Grown, state' = state, sh'[p].todo \subseteq AllSteps, DoneSoFar(w, p)' PROVE RInv(w)'
  <2>1. RecordedIn(w)'
    BY <1>r, <1>t DEF RecordedIn
  <2> QED  BY <1>o, <1>r, <1>t, <2>1 DEF RInv
(* Between steps nothing is claimed.                                       *)
<1>b. ASSUME Rest, Grown, state' = state, sh'[p].at \in Between, sh'[p].todo \subseteq AllSteps PROVE RInv(w)'
  <2>1. DoneSoFar(w, p)'
    BY <1>b DEF DoneSoFar
  <2> QED  BY <1>b, <1>r, <2>1
<1>i. ASSUME Rest, Grown, state' = state, sh'[p] = Idle PROVE RInv(w)'
  <2>1. sh'[p].at \in Between /\ sh'[p].todo \subseteq AllSteps
    BY <1>i DEF Idle, Between
  <2> QED  BY <1>b, <1>i, <2>1
(* A step goes on, and says it has succeeded once its work is done.         *)
<1>c. ASSUME NEW x, NEW y, Moved(x, y), Grown, state' = state, sh[p].at \notin Between,
             sh[p].all => /\ x \notin {"qemu", "running"}
                          /\ x = "format" => sh[p].cmd = "image"
                          /\ x \in {"chroot", "down", "squash"} => sh[p].cmd # "mount"
                          /\ sh[p].work = w /\ y /\ (x = "end" \/ (x = "down" /\ sh[p].cmd # "iso"))
                                => sh[p].step \in did'[w] \cup missed'[w]
      PROVE  RInv(w)'
  <2>1. sh[p].all => Fits(p)
    BY <1>c, <1>t DEF DoneSoFar
  <2>2. DoneSoFar(w, p)'
    BY <1>c, <2>1 DEF DoneSoFar, Fits, Told
  <2> QED  BY <1>c, <1>r, <1>t, <2>2
<1>k. ASSUME NEW x, To(p, x) PROVE Moved(x, sh[p].ok)
  BY <1>k, <1>t, AtIs
<1>f. ASSUME NEW x, Ends(p, x, FALSE) PROVE Moved(x, FALSE)
  BY <1>f, <1>t DEF Ends, Terminals, Fields
<1>g. did' = did /\ missed' = missed => Grown
  BY <1>t
<1>d. Does(p) => Grown
  BY <1>t, DoesAny
<1>s. ASSUME sh[p].all, sh[p].at \notin Between
      PROVE  /\ Fits(p) /\ sh[p].at \notin {"qemu", "running"}
             /\ sh[p].at = "format" => sh[p].cmd = "image"
             /\ sh[p].at \in {"chroot", "down", "squash"} => sh[p].cmd # "mount"
             /\ sh[p].work = w /\ sh[p].ok /\ Told(p) => sh[p].step \in did[w] \cup missed[w]
  BY <1>s, <1>t DEF DoneSoFar
<1>h. ASSUME sh[p].all, sh[p].at \notin Between PROVE sh[p].cmd \in AllSteps \cup {"mount"} /\ sh[p].cmd # "kernel2"
  BY <1>h, <1>s DEF Fits, AllSteps
<1> HIDE DEF Grown, Moved
<1>1. CASE Call(p)
  <2>1. PICK v \in Works, z \in Ways, c \in Commands :
          sh' = [sh EXCEPT ![p] = [Idle EXCEPT !.work = v, !.way = IF c \in Asks THEN z ELSE Nothing, !.cmd = c,
                                               !.step = c, !.all = c = "all", !.at = IF c = "all" THEN "lock" ELSE "step"]]
    BY <1>1 DEF Call
  <2>2. Rest /\ sh'[p].all = (c = "all") /\ (c = "all" => sh'[p].at = "lock") /\ sh'[p].todo = {}
    BY <1>t, <2>1 DEF Terminals, Fields, Idle
  <2>3. did' = did /\ missed' = missed /\ state' = state
    BY <1>1 DEF Call, image, records
  <2>4. DoneSoFar(w, p)'
    BY <2>2 DEF DoneSoFar, Between
  <2> QED  BY <1>g, <1>r, <2>2, <2>3, <2>4
<1>2. CASE Lock(p)
  <2>1. (Exit(p) \/ To(p, "was")) /\ did' = did /\ missed' = missed /\ state' = state
    BY <1>2 DEF Lock, image, records
  <2>2. CASE Exit(p)
    BY <1>g, <1>i, <1>t, <2>1, <2>2, ExitIs
  <2>3. CASE To(p, "was")
    <3>1. Rest /\ sh'[p].at = "was" /\ sh'[p].todo = sh[p].todo
      BY <1>t, <2>3, AtIs
    <3> QED  BY <1>b, <1>g, <1>t, <2>1, <3>1 DEF Between
  <2> QED  BY <2>1, <2>2, <2>3
<1>3. CASE Refuse(p)
  <2>1. Exit(p) /\ did' = did /\ missed' = missed /\ state' = state
    BY <1>3 DEF Refuse, image, records
  <2> QED  BY <1>g, <1>i, <1>t, <2>1, ExitIs
<1>4. CASE Truncate(p)
  <2>1. To(p, "write") /\ did' = did /\ missed' = missed /\ state' = state
    BY <1>4 DEF Truncate, image, records
  <2>2. Rest /\ sh'[p].at = "write" /\ sh'[p].todo = sh[p].todo
    BY <1>t, <2>1, AtIs
  <2> QED  BY <1>b, <1>g, <1>t, <2>1, <2>2 DEF Between
<1>5. CASE Write(p)
  <2>1. sh' = [sh EXCEPT ![p].at = "next", ![p].todo = AllSteps \ state[W(p)]] /\ did' = did /\ missed' = missed /\ state' = state
    BY <1>5 DEF Write, image, records
  <2>2. Rest /\ sh'[p].at = "next" /\ sh'[p].todo = AllSteps \ state[W(p)]
    BY <1>t, <2>1 DEF Terminals, Fields
  <2> QED  BY <1>b, <1>g, <2>1, <2>2 DEF Between
<1>6. CASE NextStep(p)
  <2>1. PICK s \in sh[p].todo :
          sh' = [sh EXCEPT ![p].step = s, ![p].cmd = Name(p, s), ![p].ok = TRUE,
                   ![p].at = IF Name(p, s) \notin {"image", "fetch"} /\ img[W(p)] # "none" THEN "remount" ELSE "step"]
    BY <1>6 DEF NextStep
  <2>2. PICK c, x : /\ c = Name(p, s) /\ x \in {"remount", "step"}
                    /\ x = IF Name(p, s) \notin {"image", "fetch"} /\ img[W(p)] # "none" THEN "remount" ELSE "step"
    OBVIOUS
  <2>3. Rest /\ sh'[p].at = x /\ sh'[p].cmd = c /\ sh'[p].step = s /\ sh'[p].todo = sh[p].todo
    BY <1>t, <2>1, <2>2 DEF Terminals, Fields
  <2>4. /\ s \in AllSteps
        /\ \/ c = s /\ s # "kernel2"
           \/ c = "kernel" /\ s = "kernel2"
           \/ c = "mount" /\ s = "image"
    BY <1>t, <2>2 DEF Name
  <2>5. DoneSoFar(w, p)'
    BY <2>2, <2>3, <2>4 DEF DoneSoFar, Fits, Told
  <2>6. did' = did /\ missed' = missed /\ state' = state
    BY <1>6 DEF NextStep, image, records
  <2> QED  BY <1>g, <1>r, <1>t, <2>3, <2>5, <2>6
<1>7. CASE Finish(p)
  <2>1. Exit(p) /\ did' = did /\ missed' = missed /\ state' = state
    BY <1>7 DEF Finish, image, records
  <2> QED  BY <1>g, <1>i, <1>t, <2>1, ExitIs
<1>8. CASE Record(p)
  <2>1. sh' = [sh EXCEPT ![p].at = "next", ![p].todo = @ \ {sh[p].step}]
    BY <1>8 DEF Record
  <2>2. Rest /\ sh'[p].at = "next" /\ sh'[p].todo = sh[p].todo \ {sh[p].step}
    BY <1>t, <2>1 DEF Terminals, Fields
  <2>3. did' = did /\ missed' = missed /\ sh[p].at = "end" /\ sh[p].all /\ sh[p].ok
    BY <1>8 DEF Record, image, Is
  <2>4. DOMAIN state' = Works /\ state'[w] = IF sh[p].work = w THEN state[w] \cup {sh[p].step} ELSE state[w]
    BY <1>8, <1>t DEF Record, W
  <2>5. sh[p].work = w => sh[p].step \in did[w] \cup missed[w]
    BY <1>s, <2>3 DEF Told, Between
  <2>6. RecordedIn(w)'
    BY <1>t, <2>3, <2>4, <2>5 DEF RecordedIn
  <2>7. DoneSoFar(w, p)'
    BY <2>2 DEF DoneSoFar, Between
  <2>8. sh'[p].todo \subseteq AllSteps
    BY <1>t, <2>2
  <2> QED  BY <1>g, <1>o, <1>t, <2>2, <2>3, <2>4, <2>6, <2>7, <2>8 DEF RInv
<1>9. CASE Failed(p)
  <2>1. Exit(p) /\ did' = did /\ missed' = missed /\ state' = state
    BY <1>9 DEF Failed, image, records
  <2> QED  BY <1>g, <1>i, <1>t, <2>1, ExitIs
<1>10. CASE Mount(p)
  <2>0. state' = state /\ missed' = missed /\ sh[p].at \notin Between
    BY <1>10 DEF Mount, Mounting, records, Is, Between
  <2>1. CASE Is(p, "remount")
    <3>1. To(p, "step") /\ did' = did
      BY <1>10, <2>1 DEF Mount
    <3> QED  BY <1>c, <1>g, <1>k, <2>0, <3>1
  <2>2. CASE ~Is(p, "remount")
    <3>1. To(p, "end") /\ sh[p].cmd = "mount" /\ did' = [did EXCEPT ![sh[p].work] = @ \cup {"image"}]
      BY <1>10, <2>2 DEF Mount, Mounting, Cmd, W
    <3>2. Grown
      BY <1>t, <2>0, <3>1 DEF Grown
    <3>3. sh[p].all /\ sh[p].work = w => sh[p].step \in did'[w]
      BY <1>s, <1>t, <2>0, <3>1 DEF Fits, AllSteps
    <3> QED  BY <1>c, <1>k, <2>0, <3>1, <3>2, <3>3
  <2> QED  BY <2>1, <2>2
<1>11. CASE MountFails(p)
  <2>1. Exit(p) /\ did' = did /\ missed' = missed /\ state' = state
    BY <1>11 DEF MountFails, image, records
  <2> QED  BY <1>g, <1>i, <1>t, <2>1, ExitIs
<1>12. CASE NotReady(p)
  <2>1. Ends(p, "end", FALSE) /\ did' = did /\ missed' = missed /\ state' = state /\ sh[p].at \notin Between
    BY <1>12 DEF NotReady, Ends, image, records, Is, Between
  <2> QED  BY <1>c, <1>f, <1>g, <2>1
<1>13. CASE Create(p)
  <2>1. did' = did /\ missed' = missed /\ state' = state /\ sh[p].at \notin Between /\ sh[p].cmd = "image"
    BY <1>13 DEF Create, records, Is, Between, Cmd
  <2>2. Ends(p, "end", FALSE) \/ To(p, "format")
    BY <1>13 DEF Create, Ends
  <2>3. CASE Ends(p, "end", FALSE)
    BY <1>c, <1>f, <1>g, <2>1, <2>3
  <2>4. CASE To(p, "format")
    BY <1>c, <1>g, <1>k, <2>1, <2>4
  <2> QED  BY <2>2, <2>3, <2>4
<1>14. CASE Format(p)
  <2>1. To(p, "end") /\ Does(p) /\ state' = state /\ sh[p].at \notin Between /\ sh[p].at = "format"
    BY <1>14 DEF Format, records, Is, Between
  <2>2. sh[p].all /\ sh[p].work = w => sh[p].step \in did'[w] \cup missed'[w]
    BY <1>s, <1>t, <2>1, DoesIt DEF Cmd, InImage
  <2> QED  BY <1>c, <1>d, <1>k, <2>1, <2>2
<1>15. CASE PlainStep(p)
  <2>1. To(p, "end") /\ Does(p) /\ state' = state /\ sh[p].at \notin Between
    BY <1>15 DEF PlainStep, records, Is, Between
  <2>2. (mnt # <<>> \/ Cmd(p) \notin InImage) /\ Cmd(p) # "mount"
    BY <1>15 DEF PlainStep, Ready, NoWork, Outside, InImage
  <2>3. sh[p].all /\ sh[p].work = w => sh[p].step \in did'[w] \cup missed'[w]
    BY <1>s, <1>t, <2>1, <2>2, DoesIt
  <2> QED  BY <1>c, <1>d, <1>k, <2>1, <2>3
<1>16. CASE StepFails(p)
  <2>1. did' = did /\ missed' = missed /\ state' = state /\ sh[p].at \in {"step", "chroot", "squash"}
        /\ Ends(p, IF sh[p].at = "chroot" THEN "down" ELSE "end", FALSE)
    BY <1>16 DEF StepFails, Is, Ends, image, records
  <2>2. PICK x : x = IF sh[p].at = "chroot" THEN "down" ELSE "end"
    OBVIOUS
  <2>3. sh[p].at \notin Between /\ Moved(x, FALSE)
    BY <1>f, <2>1, <2>2 DEF Between
  <2>4. sh[p].all /\ sh[p].at = "chroot" => sh[p].cmd # "mount"
    BY <1>s, <2>3
  <2> QED  BY <1>c, <1>g, <2>1, <2>2, <2>3, <2>4
<1>17. CASE FailsQuietly(p)
  <2>1. /\ Misses(p) /\ state' = state /\ sh[p].at \in {"step", "format", "chroot", "squash"}
        /\ To(p, IF sh[p].at = "chroot" THEN "down" ELSE "end")
    BY <1>17 DEF FailsQuietly, Unasked, Is, records
  <2>2. PICK x : x = IF sh[p].at = "chroot" THEN "down" ELSE "end"
    OBVIOUS
  <2>3. sh[p].at \notin Between /\ Moved(x, sh[p].ok)
    BY <1>k, <2>1, <2>2 DEF Between
  <2>4. sh[p].all /\ sh[p].at = "chroot" => sh[p].cmd # "mount"
    BY <1>s, <2>3
  <2>5. Grown /\ (sh[p].work = w => sh[p].step \in missed'[w])
    BY <1>t, <2>1, MissesIt DEF Grown
  <2> QED  BY <1>c, <2>1, <2>2, <2>3, <2>4, <2>5
<1>18. CASE StopsThere(p)
  <2>1. Exit(p) /\ did' = did /\ missed' = missed /\ state' = state
    BY <1>18 DEF StopsThere, image, records
  <2> QED  BY <1>g, <1>i, <1>t, <2>1, ExitIs
<1>19. CASE ChrootUp(p)
  <2>1. sh' = [sh EXCEPT ![p].at = "chroot", ![p].on = Len(mnt)] /\ did' = did /\ missed' = missed /\ state' = state
    BY <1>19 DEF ChrootUp, image, records
  <2>2. Moved("chroot", sh[p].ok)
    BY <1>t, <2>1 DEF Moved, Terminals, Fields
  <2>3. sh[p].at \notin Between /\ sh[p].cmd # "mount"
    BY <1>19 DEF ChrootUp, Is, Between, Chrooted, Cmd
  <2> QED  BY <1>c, <1>g, <2>1, <2>2, <2>3
<1>20. CASE InChroot(p)
  <2>1. To(p, "down") /\ state' = state /\ sh[p].at = "chroot" /\ mnt # <<>>
    BY <1>20 DEF InChroot, records, Is
  <2>2. sh[p].at \notin Between /\ Moved("down", sh[p].ok)
    BY <1>k, <2>1 DEF Between
  <2>3. sh[p].all => Fits(p) /\ sh[p].cmd # "mount"
    BY <1>s, <2>1, <2>2
  <2>4. CASE Cmd(p) = "iso"
    <3>1. did' = did /\ missed' = missed
      BY <1>20, <2>4 DEF InChroot
    <3> QED  BY <1>c, <1>g, <2>1, <2>2, <2>3, <2>4, <3>1 DEF Cmd
  <2>5. CASE Cmd(p) # "iso"
    <3>1. Does(p)
      BY <1>20, <2>5 DEF InChroot
    <3>2. sh[p].all /\ sh[p].work = w => sh[p].step \in did'[w] \cup missed'[w]
      BY <1>t, <2>1, <2>3, <3>1, DoesIt DEF Cmd
    <3> QED  BY <1>c, <1>d, <2>1, <2>2, <2>3, <3>1, <3>2
  <2> QED  BY <2>4, <2>5
<1>21. CASE ChrootDown(p)
  <2>1. To(p, AfterDown(p)) /\ did' = did /\ missed' = missed /\ state' = state /\ sh[p].at = "down"
    BY <1>21 DEF ChrootDown, image, records, Is
  <2>2. PICK x : x = AfterDown(p)
    OBVIOUS
  <2>3. sh[p].at \notin Between /\ x \in {"squash", "end"} /\ (x = "end" /\ sh[p].ok => sh[p].cmd # "iso")
    BY <2>1, <2>2 DEF AfterDown, Between, Cmd
  <2>4. sh[p].all => /\ sh[p].cmd # "mount"
                     /\ x = "end" /\ sh[p].work = w /\ sh[p].ok => sh[p].step \in did[w] \cup missed[w]
    BY <1>s, <2>1, <2>3 DEF Told
  <2>5. Moved(x, sh[p].ok)
    BY <1>k, <2>1, <2>2
  <2> QED  BY <1>c, <1>g, <2>1, <2>3, <2>4, <2>5
<1>22. CASE DownFails(p)
  <2>1. (To(p, AfterDown(p)) \/ Exit(p)) /\ did' = did /\ missed' = missed /\ state' = state /\ sh[p].at = "down"
    BY <1>22 DEF DownFails, image, records, Is
  <2>2. PICK x : x = AfterDown(p)
    OBVIOUS
  <2>3. sh[p].at \notin Between /\ x \in {"squash", "end"} /\ (x = "end" /\ sh[p].ok => sh[p].cmd # "iso")
    BY <2>1, <2>2 DEF AfterDown, Between, Cmd
  <2>4. sh[p].all => /\ sh[p].cmd # "mount"
                     /\ x = "end" /\ sh[p].work = w /\ sh[p].ok => sh[p].step \in did[w] \cup missed[w]
    BY <1>s, <2>1, <2>3 DEF Told
  <2>5. CASE To(p, AfterDown(p))
    <3>1. Moved(x, sh[p].ok)
      BY <1>k, <2>2, <2>5
    <3> QED  BY <1>c, <1>g, <2>1, <2>3, <2>4, <3>1
  <2>6. CASE Exit(p)
    BY <1>g, <1>i, <1>t, <2>1, <2>6, ExitIs
  <2> QED  BY <2>1, <2>5, <2>6
<1>23. CASE Squash(p)
  <2>1. To(p, "end") /\ Does(p) /\ state' = state /\ sh[p].at = "squash" /\ mnt # <<>>
    BY <1>23 DEF Squash, records, Is
  <2>2. sh[p].at \notin Between
    BY <2>1 DEF Between
  <2>3. sh[p].all => Fits(p) /\ sh[p].cmd # "mount"
    BY <1>s, <2>1, <2>2
  <2>4. sh[p].all /\ sh[p].work = w => sh[p].step \in did'[w] \cup missed'[w]
    BY <1>t, <2>1, <2>3, DoesIt DEF Cmd
  <2> QED  BY <1>c, <1>d, <1>k, <2>1, <2>2, <2>4
<1>24. CASE Umount(p)
  <2>1. To(p, "end") /\ did' = did /\ missed' = missed /\ state' = state /\ sh[p].at \notin Between
    BY <1>24 DEF Umount, image, records, Is, Between
  <2>2. ~sh[p].all
    <3>1. sh[p].cmd = "umount"
      BY <1>24 DEF Umount, Cmd
    <3> QED  BY <1>h, <2>1, <3>1 DEF AllSteps
  <2> QED  BY <1>c, <1>g, <1>k, <2>1, <2>2
<1>25. CASE BootLooks(p)
  <2>1. To(p, IF attached[W(p)] \/ img[W(p)] = "none" THEN "end" ELSE "qemu") /\ did' = did /\ missed' = missed /\ state' = state /\ sh[p].at \notin Between
    BY <1>25 DEF BootLooks, image, records, Is, Between
  <2>2. ~sh[p].all
    <3>1. sh[p].cmd = "boot"
      BY <1>25 DEF BootLooks, Cmd
    <3> QED  BY <1>h, <2>1, <3>1 DEF AllSteps
  <2> QED  BY <1>c, <1>g, <1>k, <2>1, <2>2
<1>26. CASE Opens(p)
  <2>1. To(p, "running") /\ did' = did /\ missed' = missed /\ state' = state /\ sh[p].at \notin Between /\ sh[p].at \in {"qemu", "running"}
    BY <1>26 DEF Opens, records, Is, Between
  <2>2. ~sh[p].all
    BY <1>s, <2>1
  <2> QED  BY <1>c, <1>g, <1>k, <2>1, <2>2
<1>27. CASE ShutDown(p)
  <2>1. To(p, "end") /\ did' = did /\ missed' = missed /\ state' = state /\ sh[p].at \notin Between /\ sh[p].at \in {"qemu", "running"}
    BY <1>27 DEF ShutDown, records, Is, Between
  <2>2. ~sh[p].all
    BY <1>s, <2>1
  <2> QED  BY <1>c, <1>g, <1>k, <2>1, <2>2
<1>28. CASE Kill(p)
  <2>1. Exit(p) /\ did' = did /\ missed' = missed /\ state' = state
    BY <1>28 DEF Kill, image, records
  <2> QED  BY <1>g, <1>i, <1>t, <2>1, ExitIs
<1>29. CASE KillShell(p)
  <2>1. sh' = [sh EXCEPT ![p].dead = TRUE] /\ did' = did /\ missed' = missed /\ state' = state
        /\ sh[p].at \in {"step", "format", "chroot", "down", "squash"}
    BY <1>29 DEF KillShell, image, records
  <2>2. Moved(sh[p].at, sh[p].ok)
    BY <1>t, <2>1 DEF Moved, Terminals, Fields
  <2>3. sh[p].at \notin Between
    BY <2>1 DEF Between
  <2> QED  BY <1>c, <1>g, <1>s, <2>1, <2>2, <2>3 DEF Told
<1> QED
  BY <1>1, <1>2, <1>3, <1>4, <1>5, <1>6, <1>7, <1>8, <1>9, <1>10, <1>11, <1>12, <1>13, <1>14, <1>15, <1>16, <1>17, <1>18, <1>19, <1>20, <1>21, <1>22, <1>23, <1>24, <1>25, <1>26, <1>27, <1>28, <1>29
  DEF Step

(* In a work directory whose image is the only one that is ever mounted     *)
(* meanwhile, a step is recorded only when its result is there or one of    *)
(* its calls failed that it does not ask about, whatever is killed, fails   *)
(* or is unmounted on the way.                                             *)
THEOREM RecordedHere ==
  ASSUME NEW w \in Works
  PROVE  LfsSpec /\ []Mounted(w) => []RecordedIn(w)
<1>1. MInv /\ RInv(w) /\ Mounted(w) /\ [LfsNext]_lfsVars => RInv(w)'
  BY NextRInv
<1>2. LfsInit => RInv(w)
  BY InitRInv
<1>3. RInv(w) => RecordedIn(w)
  BY DEF RInv
<1> QED  BY <1>1, <1>2, <1>3, InitMInv, NextMInv, PTL DEF LfsSpec

(* So in one work directory build.state lists no step of which a failure    *)
(* was returned or asked about.                                           *)
THEOREM RecordsAreTrue ==
  ASSUME NEW w, Works = {w}
  PROVE  LfsSpec => []RecordedIsDone
<1>1. MInv => Mounted(w)
  <2> SUFFICES ASSUME MInv, NEW i \in DOMAIN mnt PROVE mnt[i].work = w
    BY DEF Mounted
  <2>1. mnt[i] \in Entries
    BY DEF MInv
  <2> QED  BY <2>1 DEF Entries
<1>2. RecordedIn(w) => RecordedIsDone
  BY DEF RecordedIn, RecordedIsDone
<1>3. LfsSpec /\ []Mounted(w) => []RecordedIn(w)
  BY RecordedHere
<1> QED  BY <1>1, <1>2, <1>3, InitMInv, NextMInv, PTL DEF LfsSpec
==============================================================================
