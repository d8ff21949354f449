------------------------------ MODULE IsoBuild ------------------------------
(***************************************************************************)
(* syn-iso-builder: the lock on its directory, and the pipeline that makes  *)
(* an ISO (syn_build_paths.c, syn_build_runner.c, syn_mount_cleanup.c,      *)
(* syn_software_build.c).  Every long command is a child of the builder     *)
(* that goes on when the builder is killed, with what it has open; what it  *)
(* does to the disk is done when it ends.                                  *)
(*                                                                         *)
(* All builds here have one profile, one name for the archived ISO and one  *)
(* scratch directory.  The name mkarchiso gives an ISO has the day in it.   *)
(***************************************************************************)
EXTENDS Naturals, FiniteSets

CONSTANTS
  Instances, \* the builders that may be started
  Tools,     \* the directories of SYN-SOFTWARE
  MaxBuilds, MaxKills, MaxFaults, \* bounds
  FaultAt    \* the calls that may fail

ASSUME BoundsAssumption == MaxBuilds \in Nat /\ MaxKills \in Nat /\ MaxFaults \in Nat
ASSUME ToolsAssumption == Tools \cap {"none", "rm", "rm output", "mkarchiso", "chroot", "image", "cp"} = {}

Nobody == "nobody"
ASSUME InstancesAssumption == Nobody \notin Instances
NoIso == [no |-> 0, whole |-> FALSE, old |-> {}]
(* What mkarchiso mounts in its work directory: the second is in the first. *)
MountPoints == {"dev", "pts"}
Below(m) == IF m = "dev" THEN {"pts"} ELSE {}

VARIABLES
  at, child,     \* where each builder is, and the command it waits for
  holder,        \* whose open file has the lock
  builds, no,    \* the builds begun, and each builder's latest
  points, left,  \* what it has still to unmount, and to compile
  failed, ok,    \* the tools it told did not compile, and how its child ended
  untold, stale, \* the tools it passed over, and the ISOs rm left in output
  said,          \* how its build ended
  faulted,       \* a call of its build failed that may, and it asked
  tree,          \* the builds whose files are in scratch
  mounts,        \* what is mounted there
  harmed,        \* what was removed through a mount
  staged,        \* [Tools -> the build whose program is in airootfs, or 0]
  conf,          \* the profile's pacman.conf: "community", "cut" or "clean"
  grub,          \* grub-install is there if the profile asks for it
  output, dest,  \* the ISOs in output, and the one under its final name
  crossing,      \* the two are on different file systems
  kills, faults

builders == <<at, child, no, points, left, failed, untold, stale, ok, said, faulted>>
disk == <<tree, mounts, harmed, staged, conf, grub, output, dest, crossing>>
vars == <<builders, holder, builds, disk, kills, faults>>

Init == /\ at = [p \in Instances |-> "off"] /\ child = [p \in Instances |-> "none"]
        /\ holder = Nobody /\ builds = 0 /\ no = [p \in Instances |-> 0]
        /\ points = [p \in Instances |-> {}] /\ left = [p \in Instances |-> {}]
        /\ failed = [p \in Instances |-> {}] /\ ok = [p \in Instances |-> FALSE]
        /\ untold = [p \in Instances |-> {}] /\ stale = [p \in Instances |-> {}]
        /\ said = [p \in Instances |-> "nothing"] /\ faulted = [p \in Instances |-> FALSE]
        /\ tree = {} /\ mounts = {} /\ harmed = {} /\ staged = [t \in Tools |-> 0]
        /\ conf \in {"community", "clean"} /\ grub \in BOOLEAN
        /\ output = {} /\ dest = NoIso /\ crossing \in BOOLEAN
        /\ kills = 0 /\ faults = 0

-------------------------------------------------------------------------------
Goes(p, a, b) == at[p] = a /\ at' = [at EXCEPT ![p] = b]
Runs(p, c) == child' = [child EXCEPT ![p] = c]
Says(p, w) == said' = [said EXCEPT ![p] = w]

(* The lock is that of the open file, which every child has too: it is free *)
(* when the last of them has ended.                                        *)
Ends(p) == /\ Runs(p, "none")
           /\ IF at[p] = "dead" THEN holder' = Nobody /\ at' = [at EXCEPT ![p] = "off"]
                                ELSE UNCHANGED <<holder, at>>
NoFault == UNCHANGED <<faults, faulted>>
Fault(p, call) == /\ call \in FaultAt /\ faults < MaxFaults
                  /\ faults' = faults + 1 /\ faulted' = [faulted EXCEPT ![p] = TRUE]
(* One whose result nobody asks for. *)
Silent(call) == /\ call \in FaultAt /\ faults < MaxFaults
                /\ faults' = faults + 1 /\ UNCHANGED faulted

(* The latest of the build, and its lists. *)
Lists == <<no, points, left, failed, untold, stale>>
Result(p, r) == ok' = [ok EXCEPT ![p] = r]
(* A step of the builder itself, and one of its child. *)
Step == UNCHANGED <<holder, builds, kills>>
ChildStep == UNCHANGED <<Lists, said, builds, kills>>

-------------------------------------------------------------------------------
(* main, syn_tui_dashboard_run                                             *)

Start(p) == /\ Goes(p, "off", "lock")
            /\ Says(p, "nothing")
            /\ Step /\ UNCHANGED <<child, Lists, ok, disk>> /\ NoFault
(* Mutated form of Lock: only a builder that is running counts. *)
LockRunning(p) == /\ at[p] = "lock"
                  /\ IF holder = Nobody \/ at[holder] = "dead" THEN holder' = p /\ at' = [at EXCEPT ![p] = "home"]
                                                               ELSE UNCHANGED holder /\ at' = [at EXCEPT ![p] = "off"]
                  /\ UNCHANGED <<child, Lists, ok, said, builds, kills, disk>> /\ NoFault
Lock(p) == /\ at[p] = "lock"
           /\ IF holder = Nobody THEN holder' = p /\ at' = [at EXCEPT ![p] = "home"]
                                 ELSE UNCHANGED holder /\ at' = [at EXCEPT ![p] = "off"]
           /\ UNCHANGED <<child, Lists, ok, said, builds, kills, disk>> /\ NoFault
Quit(p) == /\ Goes(p, "home", "off")
           /\ holder' = Nobody
           /\ UNCHANGED <<child, Lists, ok, said, builds, kills, disk>> /\ NoFault

(* Mutated form of Launch: what is mounted is not looked for. *)
LaunchAsIs(p) == /\ Goes(p, "home", "umount") /\ builds < MaxBuilds
                 /\ builds' = builds + 1 /\ no' = [no EXCEPT ![p] = builds + 1]
                 /\ points' = [points EXCEPT ![p] = {}] /\ left' = [left EXCEPT ![p] = Tools]
                 /\ failed' = [failed EXCEPT ![p] = {}]
                 /\ untold' = [untold EXCEPT ![p] = {}] /\ stale' = [stale EXCEPT ![p] = {}]
                 /\ Says(p, "nothing") /\ faulted' = [faulted EXCEPT ![p] = FALSE]
                 /\ UNCHANGED <<child, holder, ok, kills, disk, faults>>
(* syn_build_run begins, with the list of syn_mount_cleanup *)
Launch(p) == /\ Goes(p, "home", "umount") /\ builds < MaxBuilds
             /\ builds' = builds + 1 /\ no' = [no EXCEPT ![p] = builds + 1]
             /\ points' = [points EXCEPT ![p] = mounts] /\ left' = [left EXCEPT ![p] = Tools]
             /\ failed' = [failed EXCEPT ![p] = {}]
             /\ untold' = [untold EXCEPT ![p] = {}] /\ stale' = [stale EXCEPT ![p] = {}]
             /\ Says(p, "nothing") /\ faulted' = [faulted EXCEPT ![p] = FALSE]
             /\ UNCHANGED <<child, holder, ok, kills, disk, faults>>

-------------------------------------------------------------------------------
(* syn_build_run                                                           *)

(* Deepest first.  What a plain umount finds busy is detached with all      *)
(* below it.                                                               *)
Deepest(p, m) == m \in points[p] /\ Below(m) \cap points[p] = {}
(* Mutated form of Umount: the first is the only one. *)
UmountOnce(p) == /\ at[p] = "umount"
                 /\ \E m \in points[p] : Deepest(p, m) /\ mounts' = mounts \ ({m} \cup Below(m))
                 /\ points' = [points EXCEPT ![p] = {}]
                 /\ Step /\ UNCHANGED <<at, child, no, left, failed, untold, stale, ok, said,
                                        tree, harmed, staged, conf, grub, output, dest, crossing>> /\ NoFault
Umount(p) == /\ at[p] = "umount"
             /\ \E m \in points[p] :
                  /\ Deepest(p, m)
                  /\ points' = [points EXCEPT ![p] = @ \ {m}]
                  /\ \/ mounts' = mounts \ ({m} \cup Below(m)) /\ NoFault
                     \/ UNCHANGED mounts /\ Fault(p, "umount -l")
             /\ Step /\ UNCHANGED <<at, child, no, left, failed, untold, stale, ok, said,
                                    tree, harmed, staged, conf, grub, output, dest, crossing>>
Unmounted(p) == /\ Goes(p, "umount", "rm") /\ points[p] = {}
                /\ Runs(p, "rm")
                /\ Step /\ UNCHANGED <<Lists, ok, said, disk>> /\ NoFault

(* rm -rf goes through what is mounted, and cannot remove its mount point. *)
(* The builder, if it lives, then has output removed.                      *)
Remove(p) == /\ child[p] = "rm"
             /\ IF at[p] = "dead" THEN Ends(p) ELSE Runs(p, "rm output") /\ UNCHANGED <<at, holder>>
             /\ harmed' = harmed \cup mounts
             /\ \/ tree' = (IF mounts = {} THEN {} ELSE tree) /\ NoFault
                \/ UNCHANGED tree /\ Fault(p, "rm")
             /\ ChildStep /\ UNCHANGED <<ok, mounts, staged, conf, grub, output, dest, crossing>>
(* Nobody asks whether it was.                                             *)
RemoveOutput(p) == /\ child[p] = "rm output"
                   /\ Ends(p)
                   /\ \/ output' = {} /\ UNCHANGED stale /\ NoFault
                      \/ stale' = [stale EXCEPT ![p] = output] /\ UNCHANGED output /\ Silent("rm output")
                   /\ UNCHANGED <<no, points, left, failed, untold, said, builds, kills, ok,
                                   tree, mounts, harmed, staged, conf, grub, dest, crossing>>

Fails(p) == at' = [at EXCEPT ![p] = "home"] /\ Says(p, "failed")
(* Mutated form of Wiped: what is left of an earlier build is built upon. *)
WipedOrNot(p) == /\ at[p] = "rm" /\ child[p] = "none"
                 /\ tree' = tree \cup {no[p]} /\ at' = [at EXCEPT ![p] = "tools"] /\ UNCHANGED said
                 /\ Step /\ UNCHANGED <<child, Lists, ok, mounts, harmed, staged, conf, grub, output, dest, crossing>> /\ NoFault
Wiped(p) == /\ at[p] = "rm" /\ child[p] = "none"
            /\ IF tree # {} THEN Fails(p) /\ UNCHANGED tree
                            ELSE tree' = {no[p]} /\ at' = [at EXCEPT ![p] = "tools"] /\ UNCHANGED said
            /\ Step /\ UNCHANGED <<child, Lists, ok, mounts, harmed, staged, conf, grub, output, dest, crossing>> /\ NoFault

(* syn_software_build_all: what does not compile is left as it is. *)
BuildTool(p) == /\ at[p] = "tools" /\ child[p] = "none"
                /\ \E t \in left[p] : Runs(p, t) /\ left' = [left EXCEPT ![p] = @ \ {t}]
                /\ Step /\ UNCHANGED <<at, no, points, failed, untold, stale, ok, said, disk>> /\ NoFault
(* SYN-SOFTWARE is not there or cannot be read, or not to its end, or one   *)
(* of its directories cannot be looked at: nothing is said of it.           *)
PassedOver(p) == /\ at[p] = "tools" /\ child[p] = "none"
                 /\ \E ts \in SUBSET left[p] \ {{}} :
                      /\ left' = [left EXCEPT ![p] = @ \ ts]
                      /\ untold' = [untold EXCEPT ![p] = @ \cup ts]
                 /\ Silent("opendir")
                 /\ Step /\ UNCHANGED <<at, child, no, points, failed, stale, ok, said, disk>>
ToolBuilt(p) == /\ child[p] \in Tools
                /\ staged' = [staged EXCEPT ![child[p]] = no[p]]
                /\ Ends(p)
                /\ ChildStep /\ UNCHANGED <<ok, tree, mounts, harmed, conf, grub, output, dest, crossing>> /\ NoFault
ToolFails(p) == /\ child[p] \in Tools
                /\ failed' = [failed EXCEPT ![p] = @ \cup {child[p]}]
                /\ Ends(p)
                /\ UNCHANGED <<no, points, left, untold, stale, said, builds, kills, ok, disk>> /\ NoFault
ToolsBuilt(p) == /\ Goes(p, "tools", "conf") /\ child[p] = "none" /\ left[p] = {}
                 /\ Step /\ UNCHANGED <<child, Lists, ok, said, disk>> /\ NoFault

(* strip_community_repo: read, emptied, written again. *)
Strip(p) == /\ at[p] = "conf"
            /\ IF conf = "community" THEN conf' = "cut" /\ at' = [at EXCEPT ![p] = "write"]
                                     ELSE UNCHANGED conf /\ at' = [at EXCEPT ![p] = "grub"]
            /\ Step /\ UNCHANGED <<child, Lists, ok, said, tree, mounts, harmed, staged, grub, output, dest, crossing>> /\ NoFault
Stripped(p) == /\ Goes(p, "write", "grub")
               /\ conf' = "clean"
               /\ Step /\ UNCHANGED <<child, Lists, ok, said, tree, mounts, harmed, staged, grub, output, dest, crossing>> /\ NoFault
(* ensure_grub_if_needed, and mkarchiso is started. *)
Grub(p) == /\ Goes(p, "grub", "mkarchiso")
           /\ \/ grub' = TRUE /\ NoFault
              \/ UNCHANGED grub /\ Fault(p, "pacman")
           /\ Runs(p, "mkarchiso")
           /\ Step /\ UNCHANGED <<Lists, ok, said, tree, mounts, harmed, staged, conf, output, dest, crossing>>

(* mkarchiso *)
Mounts(p) == /\ child[p] = "mkarchiso" /\ conf = "clean" /\ grub
             /\ mounts' = MountPoints /\ tree' = tree \cup {no[p]}
             /\ Runs(p, "chroot")
             /\ ChildStep /\ UNCHANGED <<at, holder, ok, harmed, staged, conf, grub, output, dest, crossing>> /\ NoFault
Unmounts(p) == /\ child[p] = "chroot"
               /\ mounts' = {}
               /\ Runs(p, "image")
               /\ ChildStep /\ UNCHANGED <<at, holder, ok, tree, harmed, staged, conf, grub, output, dest, crossing>> /\ NoFault
(* The ISO of this build; one of the same day had its name.                *)
Iso(p, whole) == [no |-> no[p], whole |-> whole, old |-> {t \in Tools : staged[t] # no[p]}]
Written(p, whole) == \E kept \in {{}, output} : output' = kept \cup {Iso(p, whole)}
Makes(p) == /\ child[p] = "image"
            /\ Written(p, TRUE)
            /\ Result(p, TRUE) /\ Ends(p)
            /\ ChildStep /\ UNCHANGED <<tree, mounts, harmed, staged, conf, grub, dest, crossing>> /\ NoFault
(* What fails while the image is written leaves a piece of it.             *)
MakesNot(p) == /\ \/ child[p] = "mkarchiso" /\ (conf # "clean" \/ ~grub) /\ NoFault
                  \/ child[p] \in {"mkarchiso", "chroot", "image"} /\ Fault(p, "mkarchiso")
               /\ mounts' = {}
               /\ IF child[p] = "image" THEN Written(p, FALSE) ELSE UNCHANGED output
               /\ Result(p, FALSE) /\ Ends(p)
               /\ ChildStep /\ UNCHANGED <<tree, harmed, staged, conf, grub, dest, crossing>>

Built(p) == /\ at[p] = "mkarchiso" /\ child[p] = "none"
            /\ IF ok[p] THEN at' = [at EXCEPT ![p] = "archive"] /\ UNCHANGED said ELSE Fails(p)
            /\ Step /\ UNCHANGED <<child, Lists, ok, disk>> /\ NoFault

(* archive_iso: the first ISO of output, whichever that is, renamed, or      *)
(* copied over what has the name.                                          *)
Archive(p) == /\ at[p] = "archive"
              /\ \E iso \in output :
                   IF crossing
                   THEN /\ dest' = [iso EXCEPT !.whole = FALSE] /\ UNCHANGED <<output, said>>
                        /\ Runs(p, "cp") /\ at' = [at EXCEPT ![p] = "cp"]
                   ELSE /\ dest' = iso /\ output' = output \ {iso} /\ UNCHANGED child
                        /\ at' = [at EXCEPT ![p] = "home"] /\ Says(p, "success")
              /\ Step /\ UNCHANGED <<Lists, ok, tree, mounts, harmed, staged, conf, grub, crossing>> /\ NoFault
Copies(p) == /\ child[p] = "cp"
             /\ \E iso \in output : iso.no = dest.no /\ dest' = iso
             /\ Result(p, TRUE) /\ Ends(p)
             /\ ChildStep /\ UNCHANGED <<tree, mounts, harmed, staged, conf, grub, output, crossing>> /\ NoFault
CopyFails(p) == /\ child[p] = "cp"
                /\ Result(p, FALSE) /\ Ends(p)
                /\ Fault(p, "cp")
                /\ ChildStep /\ UNCHANGED disk
(* Mutated form of Copied: nobody looks how cp ended. *)
CopiedAnyway(p) == /\ at[p] = "cp" /\ child[p] = "none"
                   /\ at' = [at EXCEPT ![p] = "home"] /\ Says(p, "success")
                   /\ output' = {iso \in output : iso.no # dest.no}
                   /\ Step /\ UNCHANGED <<child, Lists, ok, tree, mounts, harmed, staged, conf, grub, dest, crossing>> /\ NoFault
Copied(p) == /\ at[p] = "cp" /\ child[p] = "none"
             /\ IF ok[p] THEN /\ at' = [at EXCEPT ![p] = "home"] /\ Says(p, "success")
                              /\ output' = {iso \in output : iso.no # dest.no}
                         ELSE Fails(p) /\ UNCHANGED output
             /\ Step /\ UNCHANGED <<child, Lists, ok, tree, mounts, harmed, staged, conf, grub, dest, crossing>> /\ NoFault

-------------------------------------------------------------------------------
(* A builder is killed, and its child with it or not; what the child has    *)
(* done to the disk by then is not undone.                                 *)
Kill(p) == /\ at[p] \notin {"off", "lock", "dead"} /\ kills < MaxKills
           /\ kills' = kills + 1
           /\ \/ /\ child[p] # "none"
                 /\ at' = [at EXCEPT ![p] = "dead"] /\ UNCHANGED <<child, holder, output>>
              \/ /\ Runs(p, "none")
                 /\ at' = [at EXCEPT ![p] = "off"] /\ holder' = Nobody
                 /\ IF child[p] = "image" THEN Written(p, FALSE) ELSE UNCHANGED output
           /\ Says(p, "nothing")
           /\ UNCHANGED <<Lists, ok, builds, tree, mounts, harmed, staged, conf, grub, dest, crossing>> /\ NoFault

Builder(p) == \/ Start(p) \/ Lock(p) \/ Quit(p) \/ Launch(p) \/ Umount(p) \/ Unmounted(p) \/ Wiped(p)
              \/ BuildTool(p) \/ PassedOver(p) \/ ToolsBuilt(p) \/ Strip(p) \/ Stripped(p) \/ Grub(p)
              \/ Built(p) \/ Archive(p) \/ Copied(p)
Child(p) == \/ Remove(p) \/ RemoveOutput(p) \/ ToolBuilt(p) \/ ToolFails(p) \/ Mounts(p) \/ Unmounts(p) \/ Makes(p) \/ MakesNot(p)
            \/ Copies(p) \/ CopyFails(p)
Next == \E p \in Instances : Builder(p) \/ Child(p) \/ Kill(p)
Spec == Init /\ [][Next]_vars

-------------------------------------------------------------------------------
(* PROPERTIES                                                              *)

Isos == [no : Nat, whole : BOOLEAN, old : SUBSET Tools]
Stages == {"off", "lock", "home", "umount", "rm", "tools", "conf", "write", "grub", "mkarchiso", "archive", "cp", "dead"}
Commands == Tools \cup {"none", "rm", "rm output", "mkarchiso", "chroot", "image", "cp"}
TypeOK == /\ at \in [Instances -> Stages] /\ child \in [Instances -> Commands]
          /\ holder \in Instances \cup {Nobody}
          /\ builds \in Nat /\ no \in [Instances -> Nat]
          /\ points \in [Instances -> SUBSET MountPoints] /\ left \in [Instances -> SUBSET Tools]
          /\ failed \in [Instances -> SUBSET Tools] /\ ok \in [Instances -> BOOLEAN]
          /\ untold \in [Instances -> SUBSET Tools] /\ stale \in [Instances -> SUBSET Isos]
          /\ said \in [Instances -> {"nothing", "success", "failed"}] /\ faulted \in [Instances -> BOOLEAN]
          /\ tree \subseteq Nat /\ mounts \subseteq MountPoints /\ harmed \subseteq MountPoints
          /\ staged \in [Tools -> Nat] /\ conf \in {"community", "cut", "clean"} /\ grub \in BOOLEAN
          /\ output \subseteq Isos /\ dest \in Isos /\ crossing \in BOOLEAN
          /\ kills \in Nat /\ faults \in Nat

(* Two builds never work on one scratch tree, nor one build and what a      *)
(* killed one left running, and whoever works there works on files of its  *)
(* own build only (main.c:199-204, syn_build_run's check after the wipe).   *)
Working(p) == child[p] \in Tools \cup {"mkarchiso", "chroot", "image"}
AloneInScratch == /\ \A p, q \in Instances : p # q => child[p] = "none" \/ child[q] = "none"
                  /\ \A p \in Instances : Working(p) => tree = {no[p]}

(* rm -rf never goes through a mount an earlier build has left, whatever    *)
(* was killed when (syn_mount_cleanup, called before the wipe).             *)
HostSafe == harmed = {}

(* A build that says it succeeded has put under the name it was given an    *)
(* ISO of its own, whole, in which every program not of this build is one   *)
(* it told did not compile or one it passed over: so it may be wrong in     *)
(* silence only about what it could not list, and, when the rm nobody asks  *)
(* about left ISOs of earlier builds in output, in that the name has one of *)
(* those (archive_iso, syn_software_build_all, rm_rf of paths->output).     *)
SuccessIsThisBuild == \A p \in Instances : said[p] = "success" /\ at[p] = "home" =>
                         \/ dest.no = no[p] /\ dest.whole /\ dest.old \subseteq failed[p] \cup untold[p]
                         \/ dest \in stale[p]

(* After any crash of earlier builds one in which no call fails succeeds,   *)
(* unless pacman.conf was cut short by it.                                 *)
CrashesAreSurvived == \A p \in Instances : said[p] = "failed" /\ at[p] = "home" /\ ~faulted[p] => conf = "cut"
===============================================================================
