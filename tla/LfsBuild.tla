------------------------------ MODULE LfsBuild ------------------------------
(***************************************************************************)
(* SYN-LFS/build.zsh: the steps that make a bootable system in a disk       *)
(* image, run one by one or by `all`, which records each finished one in    *)
(* build.state and carries on from there.  Several terminals may run it at  *)
(* once, in one work directory or in several, and each may be killed at any *)
(* moment.  All of them use the one mount point, /mnt/syn-os.               *)
(*                                                                         *)
(* A command alone runs under err_exit: it ends with the first call that    *)
(* fails, and leaves what it has mounted.  In `all` a step is the condition *)
(* of an `if`, where err_exit is off: it fails only by the status it        *)
(* returns, and goes on after any other call that fails.  Starting a build  *)
(* through BUILD.zsh asks first what these steps ask too, so it starts no   *)
(* other behaviour than starting it directly.                               *)
(***************************************************************************)
EXTENDS Naturals, Sequences, FiniteSets, SequencesExt

CONSTANTS
  Works,     \* the work directories
  Ways,      \* some of "source", "xbps": SYN_OS_PACKAGES
  Shells,    \* the terminals, numbers
  Commands,  \* what is run in them: "all", "mount", "umount", "boot" or a step
  KillAt,    \* where a terminal may be killed
  FaultKinds,\* "loud": a call whose status the step returns; "busy": an unmount;
             \* "quiet": any other call
  MaxFaults, MaxCalls  \* bounds: kills and failing calls together; commands

ASSUME BoundsAssumption == /\ Ways \subseteq {"source", "xbps"}
                           /\ Shells \subseteq Nat \ {0} /\ IsFiniteSet(Shells)
                           /\ MaxFaults \in Nat /\ MaxCalls \in Nat
                           /\ "nothing" \notin Works

Nothing == "nothing"
Nobody == 0

STEPS(way) == LET before == <<"image", "kernel", "configure", "build", "zsh", "runit", "fetch">>
                  after == <<"kernel2", "rekernel", "esp", "iso">>
              IN IF way = "source" THEN before \o <<"desktop", "void">> \o after
                                   ELSE before \o <<"void", "desktop">> \o after
AllSteps == {"image", "kernel", "configure", "build", "zsh", "runit", "fetch", "desktop", "void",
             "kernel2", "rekernel", "esp", "iso"}
ASSUME StepsAssumption == \A y \in Ways : ToSet(STEPS(y)) = AllSteps

VARIABLES
  img,       \* [Works -> the image file: "none", "blank" or "formatted"]
  attached,  \* [Works -> whether a loop device has the image]
  vm,        \* [Works -> whether QEMU has the image]
  did,       \* [Works -> the steps whose result is there]
  packages,  \* [Works -> build.packages, "" when empty or missing]
  state,     \* [Works -> build.state]
  lock,      \* [Works -> the terminal that holds build.lock]
  mnt,       \* what is mounted at $MNT, the image seen there last: whose it is,
             \* how often a chroot's file systems are mounted in it, and how many
             \* of these layers the command that mounted them has left there
  sh,        \* [Shells -> what it runs]
  missed,    \* [Works -> the steps of which a call failed and `all` went on]
  calls, faults

image == <<img, attached, vm, did>>
records == <<packages, state>>
lfsVars == <<image, records, lock, mnt, sh, missed, calls, faults>>

(* on: the place in mnt of the image its chroot is in; dead: the shell that *)
(* runs `all` was killed, and only the step goes on.                       *)
Idle == [at |-> "idle", work |-> Nothing, way |-> Nothing, cmd |-> Nothing, step |-> Nothing,
         all |-> FALSE, ok |-> TRUE, todo |-> {}, on |-> 0, dead |-> FALSE]

LfsInit == /\ img = [w \in Works |-> "none"]
        /\ attached = [w \in Works |-> FALSE] /\ vm = [w \in Works |-> FALSE]
        /\ did = [w \in Works |-> {}] /\ state = [w \in Works |-> {}]
        /\ packages = [w \in Works |-> ""] /\ lock = [w \in Works |-> Nobody]
        /\ mnt = <<>> /\ missed = [w \in Works |-> {}]
        /\ sh = [p \in Shells |-> Idle] /\ calls = 0 /\ faults = 0

-------------------------------------------------------------------------------
Is(p, at) == sh[p].at = at
To(p, at) == sh' = [sh EXCEPT ![p].at = at]
W(p) == sh[p].work
Cmd(p) == sh[p].cmd
(* The lock goes with the last process that has its descriptor: the shell's, *)
(* and those of the step it runs.                                           *)
Unlocked(p) == [w \in Works |-> IF lock[w] = p THEN Nobody ELSE lock[w]]
Exit(p) == sh' = [sh EXCEPT ![p] = Idle] /\ lock' = Unlocked(p)
Fault(kind) == kind \in FaultKinds /\ faults < MaxFaults /\ faults' = faults + 1
NoFault == UNCHANGED faults

(* What a step does to the image is done to the one that is mounted.       *)
Fresh(w) == [work |-> w, layers |-> 0, left |-> 0]
Top == IF mnt = <<>> THEN Nothing ELSE mnt[Len(mnt)].work
(* up layers more in the image seen, and lf more of those in image i left. *)
Counted(up, i, lf) == [j \in DOMAIN mnt |-> [mnt[j] EXCEPT !.layers = IF j = Len(mnt) THEN @ + up ELSE @,
                                                           !.left = IF j = i THEN @ + lf ELSE @]]
InImage == {"build", "zsh", "runit", "desktop", "void", "rekernel"}
Chrooted == {"zsh", "runit", "desktop", "void", "rekernel", "iso"}
Place(p) == IF Cmd(p) \in InImage THEN Top ELSE W(p)
Has(w, s) == s \in did[w]
Inside(s) == Top # Nothing /\ Has(Top, s)
(* kernel run again, once the microcode is in the image, is kernel2. *)
Result(p) == IF Cmd(p) = "kernel" /\ Inside("desktop") THEN {"kernel", "kernel2"} ELSE {Cmd(p)}
(* kernel passes over microcode that is not there. *)
Passed(p) == {"kernel2"} \cap ({sh[p].step} \ Result(p))
Does(p) == /\ did' = [did EXCEPT ![Place(p)] = @ \cup Result(p)]
           /\ missed' = [missed EXCEPT ![W(p)] = @ \cup Passed(p)]
Misses(p) == missed' = [missed EXCEPT ![W(p)] = @ \cup Result(p) \cup {sh[p].step}] /\ UNCHANGED did

(* Where the packages come from matters to some commands only.  Terminals   *)
(* are alike: a command is given in the first that is free.                *)
Asks == {"all", "fetch", "void", "desktop"}
Call(p) == /\ Is(p, "idle") /\ calls < MaxCalls
           /\ \A q \in Shells : q < p => ~Is(q, "idle")
           /\ \E w \in Works, y \in Ways, c \in Commands :
                sh' = [sh EXCEPT ![p] = [Idle EXCEPT !.work = w, !.way = IF c \in Asks THEN y ELSE Nothing,
                                         !.cmd = c, !.step = c, !.all = c = "all",
                                         !.at = IF c = "all" THEN "lock" ELSE "step"]]
           /\ calls' = calls + 1
           /\ UNCHANGED <<image, records, lock, mnt, missed, faults>>

-------------------------------------------------------------------------------
(* step_all *)

Lock(p) == /\ Is(p, "lock")
           /\ IF lock[W(p)] # Nobody THEN Exit(p)
                                     ELSE lock' = [lock EXCEPT ![W(p)] = p] /\ To(p, "was")
           /\ UNCHANGED <<image, records, mnt, missed, calls, faults>>
(* A work directory built before its choice was recorded is source. *)
Was(w) == IF packages[w] = "" /\ img[w] # "none" THEN "source" ELSE packages[w]
SameWay(p) == Was(W(p)) \in {"", sh[p].way}
Refuse(p) == /\ Is(p, "was") /\ ~SameWay(p)
             /\ Exit(p)
             /\ UNCHANGED <<image, records, mnt, missed, calls, faults>>
(* print > opens the file, emptying it, before it writes. *)
Truncate(p) == /\ Is(p, "was") /\ SameWay(p)
               /\ packages' = [packages EXCEPT ![W(p)] = ""]
               /\ To(p, "write")
               /\ UNCHANGED <<image, state, lock, mnt, missed, calls, faults>>
Write(p) == /\ Is(p, "write")
            /\ packages' = [packages EXCEPT ![W(p)] = sh[p].way]
            /\ sh' = [sh EXCEPT ![p].at = "next",
                                ![p].todo = AllSteps \ state[W(p)]]
            /\ UNCHANGED <<image, state, lock, mnt, missed, calls, faults>>

(* Mutated form of Name: an image that is there already is made again. *)
NameAlways(p, s) == IF s = "kernel2" THEN "kernel" ELSE s
Name(p, s) == CASE s = "kernel2" -> "kernel"
                [] s = "image" /\ img[W(p)] # "none" -> "mount"
                [] OTHER -> s
First(s, todo, steps) == \E i \in DOMAIN steps : steps[i] = s /\ \A j \in DOMAIN steps : j < i => steps[j] \notin todo
NextStep(p) == /\ Is(p, "next")
               /\ \E s \in sh[p].todo :
                    /\ First(s, sh[p].todo, STEPS(sh[p].way))
                    /\ LET c == Name(p, s)
                       IN sh' = [sh EXCEPT ![p].step = s, ![p].cmd = c, ![p].ok = TRUE,
                            ![p].at = IF c \notin {"image", "fetch"} /\ img[W(p)] # "none" THEN "remount" ELSE "step"]
               /\ UNCHANGED <<image, records, lock, mnt, missed, calls, faults>>
Finish(p) == /\ Is(p, "next") /\ sh[p].todo = {}
             /\ Exit(p)
             /\ UNCHANGED <<image, records, mnt, missed, calls, faults>>
(* Mutated form of Record: the step is recorded before its status is seen.  *)
RecordAnyway(p) == /\ Is(p, "end") /\ sh[p].all /\ ~sh[p].dead
                   /\ state' = [state EXCEPT ![W(p)] = @ \cup {sh[p].step}]
                   /\ sh' = [sh EXCEPT ![p].at = "next", ![p].todo = @ \ {sh[p].step}]
                   /\ UNCHANGED <<image, packages, lock, mnt, missed, calls, faults>>
Record(p) == /\ Is(p, "end") /\ sh[p].all /\ sh[p].ok /\ ~sh[p].dead
             /\ state' = [state EXCEPT ![W(p)] = @ \cup {sh[p].step}]
             /\ sh' = [sh EXCEPT ![p].at = "next", ![p].todo = @ \ {sh[p].step}]
             /\ UNCHANGED <<image, packages, lock, mnt, missed, calls, faults>>
Failed(p) == /\ Is(p, "end") /\ ~(sh[p].all /\ sh[p].ok /\ ~sh[p].dead)
             /\ Exit(p)
             /\ UNCHANGED <<image, records, mnt, missed, calls, faults>>

-------------------------------------------------------------------------------
(* The steps.                                                              *)

(* step_mount, by itself, before a step of `all`, or as its first step.    *)
Mounting(p) == Is(p, "remount") \/ (Is(p, "step") /\ Cmd(p) = "mount")
CanMount(w) == /\ img[w] # "none" /\ (attached[w] \/ ~vm[w])
               /\ mnt # <<>> \/ img[w] = "formatted"
Mount(p) == /\ Mounting(p) /\ CanMount(W(p))
            /\ attached' = [attached EXCEPT ![W(p)] = TRUE]
            /\ mnt' = IF mnt = <<>> THEN <<Fresh(W(p))>> ELSE mnt
            /\ IF Is(p, "remount") THEN To(p, "step") /\ UNCHANGED did
                                   ELSE To(p, "end") /\ did' = [did EXCEPT ![W(p)] = @ \cup {"image"}]
            /\ UNCHANGED <<img, vm, records, lock, missed, calls, faults>>
MountFails(p) == /\ Mounting(p)
                 /\ \/ ~CanMount(W(p)) /\ NoFault
                    \/ CanMount(W(p)) /\ (Is(p, "remount") \/ ~sh[p].all) /\ Fault("quiet")
                 /\ attached' = [attached EXCEPT ![W(p)] = img[W(p)] # "none" /\ (@ \/ ~vm[W(p)])]
                 /\ Exit(p)
                 /\ UNCHANGED <<img, vm, did, records, mnt, missed, calls>>

(* What a step asks for before it begins, or fails at once without.        *)
Ready(p) == LET c == Cmd(p) IN
  /\ c \in {"build", "zsh", "runit", "desktop", "void", "rekernel", "iso", "esp"} => mnt # <<>>
  /\ c = "build" => Has(W(p), "configure")
  /\ c \in {"runit", "desktop"} => Inside("zsh")
  /\ c \in {"zsh", "void", "esp", "rekernel"} => Inside("build")
  /\ c = "desktop" => Has(W(p), "fetch") /\ (sh[p].way = "xbps" => Inside("void"))
  /\ c = "rekernel" => Has(W(p), "kernel")
  /\ c = "iso" => Inside("desktop")
NotReady(p) == /\ Is(p, "step") /\ Cmd(p) \in AllSteps /\ ~Ready(p)
               /\ sh' = [sh EXCEPT ![p].at = "end", ![p].ok = FALSE]
               /\ UNCHANGED <<image, records, lock, mnt, missed, calls, faults>>

Create(p) == /\ Is(p, "step") /\ Cmd(p) = "image"
             /\ \/ /\ img[W(p)] # "none"
                   /\ sh' = [sh EXCEPT ![p].at = "end", ![p].ok = FALSE] /\ UNCHANGED img
                \/ /\ img[W(p)] = "none"
                   /\ img' = [img EXCEPT ![W(p)] = "blank"] /\ To(p, "format")
             /\ UNCHANGED <<attached, vm, did, records, lock, mnt, missed, calls, faults>>
(* The mount covers what is mounted there. *)
Format(p) == /\ Is(p, "format")
             /\ img' = [img EXCEPT ![W(p)] = "formatted"]
             /\ attached' = [attached EXCEPT ![W(p)] = TRUE]
             /\ mnt' = Append(mnt, Fresh(W(p)))
             /\ Does(p)
             /\ To(p, "end")
             /\ UNCHANGED <<vm, records, lock, calls, faults>>

(* Outside a chroot the whole step is one; zsh is there or is built. *)
Outside == {"kernel", "configure", "build", "fetch", "esp"}
NoWork(p) == Cmd(p) = "zsh" /\ Inside("zsh")
PlainStep(p) == /\ Is(p, "step") /\ Ready(p)
            /\ \/ Cmd(p) \in Outside /\ (Cmd(p) = "esp" => attached[W(p)])
               \/ NoWork(p)
            /\ Does(p)
            /\ To(p, "end")
            /\ UNCHANGED <<img, attached, vm, records, lock, mnt, calls, faults>>

(* A call fails whose status the step returns, or that it asks about: what  *)
(* runs in the chroot ends with its first failure, and finds nothing there  *)
(* when the image has been unmounted.                                      *)
Mute == {"image", "mount", "kernel", "esp"}
StepFails(p) == /\ \/ Is(p, "step") /\ Cmd(p) \in AllSteps \ Mute /\ Ready(p) /\ ~NoWork(p) /\ Fault("loud")
                   \/ sh[p].at \in {"chroot", "squash"} /\ Fault("loud")
                   \/ Is(p, "chroot") /\ mnt = <<>> /\ NoFault
                /\ sh' = [sh EXCEPT ![p].at = IF Is(p, "chroot") THEN "down" ELSE "end", ![p].ok = FALSE]
                /\ UNCHANGED <<image, records, lock, mnt, missed, calls>>
(* A call fails that the step does not ask about.  In `all` the step goes   *)
(* on to its last call, and may return that all is well.                   *)
Deaf == Mute \cup {"zsh", "runit", "desktop", "void", "iso"}
Unasked(p) == \/ Is(p, "step") /\ Ready(p) /\ Cmd(p) = "kernel" /\ Fault("quiet")
              \/ Is(p, "step") /\ Ready(p) /\ Cmd(p) = "esp" /\ (Fault("quiet") \/ (~attached[W(p)] /\ NoFault))
              \/ sh[p].at \in {"format", "chroot"} /\ Fault("quiet")
              \/ Is(p, "squash") /\ (Fault("quiet") \/ (mnt = <<>> /\ NoFault))
FailsQuietly(p) == /\ sh[p].all /\ Cmd(p) \in Deaf
                   /\ Unasked(p) \/ (Is(p, "step") /\ Cmd(p) = "mount" /\ CanMount(W(p)) /\ Fault("quiet"))
                   /\ Misses(p)
                   /\ IF Is(p, "format") THEN /\ \E i \in {"blank", "formatted"} : img' = [img EXCEPT ![W(p)] = i]
                                              /\ \E b \in BOOLEAN : attached' = [attached EXCEPT ![W(p)] = b]
                                         ELSE UNCHANGED <<img, attached>>
                   /\ To(p, IF Is(p, "chroot") THEN "down" ELSE "end")
                   /\ UNCHANGED <<vm, records, lock, mnt, calls>>
(* Alone the command ends there: in its chroot with all that is mounted,    *)
(* and while the ISO is put together with or without the filtered accounts. *)
StopsThere(p) == /\ ~sh[p].all /\ Unasked(p)
                 /\ IF Is(p, "format") THEN \E b \in BOOLEAN : attached' = [attached EXCEPT ![W(p)] = b]
                                       ELSE UNCHANGED attached
                 /\ CASE Is(p, "chroot") -> mnt' = Counted(0, sh[p].on, 1)
                      [] Is(p, "squash") -> mnt' \in {mnt, Counted(1, Len(mnt), 1)}
                      [] OTHER -> UNCHANGED mnt
                 /\ Exit(p)
                 /\ UNCHANGED <<img, vm, did, records, missed, calls>>

ChrootUp(p) == /\ Is(p, "step") /\ Ready(p) /\ Cmd(p) \in Chrooted /\ ~NoWork(p)
               /\ mnt' = Counted(1, 0, 0)
               /\ sh' = [sh EXCEPT ![p].at = "chroot", ![p].on = Len(mnt)]
               /\ UNCHANGED <<image, records, lock, missed, calls, faults>>
InChroot(p) == /\ Is(p, "chroot") /\ mnt # <<>>
               /\ IF Cmd(p) = "iso" THEN UNCHANGED <<did, missed>> ELSE Does(p)
               /\ To(p, "down")
               /\ UNCHANGED <<img, attached, vm, records, lock, mnt, calls, faults>>
AfterDown(p) == IF Cmd(p) = "iso" /\ sh[p].ok THEN "squash" ELSE "end"
(* Of the image seen it takes the last layer, which is another's when that  *)
(* one came later.                                                        *)
HasLayer == mnt # <<>> /\ mnt[Len(mnt)].layers > 0
TakesLayer(p) == /\ HasLayer
                 /\ mnt' = Counted(-1, IF sh[p].on = Len(mnt) THEN 0 ELSE sh[p].on, 1)
(* Mutated form of ChrootDown: not after a failure. *)
ChrootDownIfOk(p) == /\ Is(p, "down")
                     /\ IF sh[p].ok THEN TakesLayer(p) ELSE UNCHANGED mnt
                     /\ To(p, AfterDown(p))
                     /\ UNCHANGED <<image, records, lock, missed, calls, faults>>
ChrootDown(p) == /\ Is(p, "down") /\ TakesLayer(p)
                 /\ To(p, AfterDown(p))
                 /\ UNCHANGED <<image, records, lock, missed, calls, faults>>
(* umount fails when what it would take is not there, or is in use: by a    *)
(* program in the chroot of another terminal, or by any other.  In `all`   *)
(* the step goes on.                                                       *)
Occupied(p) == \E q \in Shells \ {p} : Is(q, "chroot") /\ sh[q].on = Len(mnt)
DownFails(p) == /\ Is(p, "down")
                /\ Fault("busy") \/ ((~HasLayer \/ Occupied(p)) /\ NoFault)
                /\ mnt' = Counted(0, sh[p].on, 1)
                /\ IF sh[p].all THEN To(p, AfterDown(p)) /\ UNCHANGED lock ELSE Exit(p)
                /\ UNCHANGED <<image, records, missed, calls>>
(* mksquashfs reads all that is mounted at $MNT. *)
Squash(p) == /\ Is(p, "squash") /\ mnt # <<>>
             /\ Does(p)
             /\ To(p, "end")
             /\ UNCHANGED <<img, attached, vm, records, lock, mnt, calls, faults>>

(* step_umount: the image seen, whoever's it is, with what is mounted in    *)
(* it, and then the loop device of this work directory.  umount -R takes    *)
(* the innermost file systems first and stops at the first in use, which    *)
(* ends the command: of a layer in use some is left, and the layers beneath *)
(* it are.  A command is not at each moment of its chroot in it.           *)
Busy == \E p \in Shells : sh[p].at \in {"chroot", "down", "squash"}
Umount(p) == /\ Is(p, "step") /\ Cmd(p) = "umount"
             /\ \/ /\ mnt' = IF mnt = <<>> THEN mnt ELSE Front(mnt)
                   /\ attached' = [attached EXCEPT ![W(p)] = \E i \in DOMAIN mnt' : mnt'[i].work = W(p)]
                   /\ NoFault
                \/ /\ mnt # <<>> /\ (Fault("busy") \/ (Busy /\ NoFault))
                   /\ UNCHANGED <<attached, mnt>>
             /\ To(p, "end")
             /\ UNCHANGED <<img, vm, did, records, lock, missed, calls>>

(* qemu_run: QEMU opens the image after the look at the loop devices.       *)
BootLooks(p) == /\ Is(p, "step") /\ Cmd(p) = "boot"
                /\ To(p, IF attached[W(p)] \/ img[W(p)] = "none" THEN "end" ELSE "qemu")
                /\ UNCHANGED <<image, records, lock, mnt, missed, calls, faults>>
Opens(p) == /\ Is(p, "qemu")
            /\ vm' = [vm EXCEPT ![W(p)] = TRUE]
            /\ To(p, "running")
            /\ UNCHANGED <<img, attached, did, records, lock, mnt, missed, calls, faults>>
ShutDown(p) == /\ Is(p, "running")
               /\ vm' = [vm EXCEPT ![W(p)] = FALSE]
               /\ To(p, "end")
               /\ UNCHANGED <<img, attached, did, records, lock, mnt, missed, calls, faults>>

(* What a killed command has mounted stays: the chroot's file systems, or   *)
(* the filtered accounts over the image's while it is squashed.            *)
Kill(p) == /\ sh[p].at \in KillAt
           /\ faults < MaxFaults /\ faults' = faults + 1
           /\ mnt' = CASE sh[p].at \in {"chroot", "down"} -> Counted(0, sh[p].on, 1)
                       [] Is(p, "squash") -> Counted(1, Len(mnt), 1)
                       [] OTHER -> mnt
           /\ vm' = IF Is(p, "running") THEN [vm EXCEPT ![W(p)] = FALSE] ELSE vm
           /\ Exit(p)
           /\ UNCHANGED <<img, attached, did, records, missed, calls>>
(* Only the shell that runs `all` is killed: its step is a process of its   *)
(* own, which goes on, holds the lock and is not recorded.                 *)
KillShell(p) == /\ sh[p].at \in KillAt \cap {"step", "format", "chroot", "down", "squash"}
                /\ sh[p].all /\ ~sh[p].dead
                /\ faults < MaxFaults /\ faults' = faults + 1
                /\ sh' = [sh EXCEPT ![p].dead = TRUE]
                /\ UNCHANGED <<image, records, lock, mnt, missed, calls>>

Step(p) == \/ Lock(p) \/ Refuse(p) \/ Truncate(p) \/ Write(p) \/ NextStep(p) \/ Finish(p) \/ Record(p) \/ Failed(p)
           \/ Mount(p) \/ MountFails(p) \/ NotReady(p) \/ Create(p) \/ Format(p)
           \/ PlainStep(p) \/ StepFails(p) \/ FailsQuietly(p) \/ StopsThere(p)
           \/ ChrootUp(p) \/ InChroot(p) \/ ChrootDown(p) \/ DownFails(p) \/ Squash(p)
           \/ Umount(p) \/ BootLooks(p) \/ Opens(p) \/ ShutDown(p)
LfsNext == \E p \in Shells : Call(p) \/ Step(p) \/ Kill(p) \/ KillShell(p)
LfsSpec == LfsInit /\ [][LfsNext]_lfsVars
(* While commands run one of them goes on; nobody has to start one. *)
LfsFairSpec == LfsSpec /\ WF_lfsVars(\E p \in Shells : Step(p))

-------------------------------------------------------------------------------
(* PROPERTIES                                                              *)

LfsTypeOK == /\ img \in [Works -> {"none", "blank", "formatted"}]
          /\ attached \in [Works -> BOOLEAN] /\ vm \in [Works -> BOOLEAN]
          /\ did \in [Works -> SUBSET AllSteps] /\ missed \in [Works -> SUBSET (AllSteps \cup {"mount"})]
          /\ packages \in [Works -> Ways \cup {""}] /\ state \in [Works -> SUBSET AllSteps]
          /\ lock \in [Works -> Shells \cup {Nobody}]
          /\ mnt \in Seq([work : Works, layers : Nat, left : Nat])
          /\ \A p \in Shells : /\ Cmd(p) \in (AllSteps \ {"kernel2"}) \cup Commands \cup {"mount", Nothing}
                                /\ sh[p].todo \subseteq AllSteps
          /\ calls \in 0 .. MaxCalls /\ faults \in 0 .. MaxFaults

(* A step is recorded in build.state only when its result is there or one   *)
(* of its calls failed that it does not ask about: no failure that a step   *)
(* returns or stops at is recorded, whatever was killed, failed before or   *)
(* was unmounted on the way, by this terminal or by another.               *)
RecordedIsDone == \A w \in Works : state[w] \subseteq did[w] \cup missed[w]

(* A step of `all` that fails leaves nothing mounted in its image.  What is *)
(* mounted in an image belongs to commands that are in its chroot, but for  *)
(* what was left there, and only three things leave something: a kill, an   *)
(* unmount that failed, and a call that failed in the chroot of a step run  *)
(* alone, which err_exit ends before it comes to chroot_down.              *)
NothingLeftMounted == \A i \in DOMAIN mnt :
  mnt[i].layers <= mnt[i].left + Cardinality({p \in Shells : sh[p].at \in {"chroot", "down"} /\ sh[p].on = i})

(* One more `all` that nobody disturbs finishes the build, whatever failed *)
(* or was killed before, if the image was formatted and what build.state   *)
(* lists is there.                                                         *)
Undisturbed(p) == /\ Is(p, "next") /\ calls = MaxCalls /\ faults = MaxFaults
                  /\ \A q \in Shells \ {p} : Is(q, "idle")
                  /\ img[W(p)] # "blank" /\ ~vm[W(p)] /\ state[W(p)] \subseteq did[W(p)]
                  /\ \A i \in DOMAIN mnt : mnt[i].work = W(p)
ResumeFinishes == \A w \in Works : (\E p \in Shells : W(p) = w /\ Undisturbed(p)) ~> (state[w] = AllSteps)
=============================================================================
