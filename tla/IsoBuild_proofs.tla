---------------------------- MODULE IsoBuild_proofs ----------------------------
(***************************************************************************)
(* Proofs about IsoBuild, for any number of builders, tools, builds, kills  *)
(* and failures.                                                           *)
(*                                                                         *)
(* Everything rests on the lock: whoever is past it holds it, and so is     *)
(* alone with the disk, until its last command has ended.  What is true of  *)
(* the disk is then said stage by stage for the one builder: what is        *)
(* mounted, whose files are in scratch, which programs are staged, whose    *)
(* ISOs are in output.                                                     *)
(***************************************************************************)
EXTENDS IsoBuild, TLAPS

Outside == {"off", "lock"}
Holds(p) == at[p] \notin Outside => holder = p

(* A command belongs to a stage, unless its builder has been killed. *)
ChildFits(p) == /\ child[p] \in Tools => at[p] \in {"tools", "dead"}
                /\ child[p] \in {"mkarchiso", "chroot", "image"} => at[p] \in {"mkarchiso", "dead"}
                /\ child[p] \in {"rm", "rm output"} => at[p] \in {"rm", "dead"}
                /\ child[p] = "cp" => at[p] \in {"cp", "dead"}

(* From the wipe to the end of mkarchiso scratch is this build's. *)
OnTree == {"tools", "conf", "write", "grub", "mkarchiso"}
TreeIsOwn(p) == at[p] \in OnTree \/ Working(p) => tree = {no[p]}

(* What is mounted is on the list of what is still to unmount, and when rm  *)
(* runs nothing is, if no umount -l failed.                                *)
Trusted(p) == ~faulted[p] \/ "umount -l" \notin FaultAt
UnmountedFirst(p) == Trusted(p) => /\ at[p] = "umount" => mounts \subseteq points[p]
                                   /\ at[p] = "rm" \/ child[p] = "rm" => mounts = {}

(* Each tool is still to compile, compiling, staged, told as failed, or     *)
(* passed over.                                                            *)
ToolsTold(p) == /\ at[p] \in {"umount", "rm"} => left[p] = Tools
                /\ at[p] = "tools" => \A t \in Tools : t \in left[p] \/ child[p] = t \/ staged[t] = no[p] \/ t \in failed[p] \cup untold[p]
                /\ at[p] \in OnTree \ {"tools"} => \A t \in Tools : staged[t] = no[p] \/ t \in failed[p] \cup untold[p]

(* From the second rm on output has whole ISOs of this build and what rm    *)
(* left, except when mkarchiso has failed; cp ends with a copy of one.      *)
Own(p, iso) == iso.no = no[p] /\ iso.whole /\ iso.old \subseteq failed[p] \cup untold[p]
OwnOrStale(p, iso) == Own(p, iso) \/ iso \in stale[p]
Filled(p) == \/ at[p] = "rm" /\ child[p] = "none"
             \/ at[p] \in {"tools", "conf", "write", "grub", "archive", "cp"}
             \/ at[p] = "mkarchiso" /\ (child[p] # "none" \/ ok[p])
IsosAreOwn(p) == /\ Filled(p) => \A iso \in output : OwnOrStale(p, iso)
                 /\ at[p] = "cp" /\ child[p] = "none" /\ ok[p] => dest \in output
                 /\ at[p] = "home" /\ said[p] = "success" => OwnOrStale(p, dest)

(* Where a build may fail although no call of it failed. *)
FailsForAReason(p) ==
  /\ at[p] = "lock" => said[p] = "nothing"
  /\ at[p] = "rm" /\ child[p] # "rm" /\ ~faulted[p] => tree = {}
  /\ at[p] \in {"grub", "mkarchiso"} => conf \in {"cut", "clean"}
  /\ at[p] = "mkarchiso" /\ ~faulted[p] => grub
  /\ at[p] = "mkarchiso" /\ child[p] = "none" /\ ~ok[p] /\ ~faulted[p] => conf = "cut"
  /\ at[p] = "cp" /\ child[p] = "none" /\ ~ok[p] => faulted[p]
  /\ at[p] = "home" /\ said[p] = "failed" /\ ~faulted[p] => conf = "cut"

Inv(p) == /\ Holds(p) /\ ChildFits(p) /\ TreeIsOwn(p) /\ UnmountedFirst(p)
          /\ ToolsTold(p) /\ IsosAreOwn(p) /\ FailsForAReason(p)
Harmless == "umount -l" \notin FaultAt => harmed = {}
IInv == TypeOK /\ Harmless /\ \A p \in Instances : Inv(p)
(* A function changed at one argument. *)
LEMMA Updated == ASSUME NEW S, NEW T, NEW f \in [S -> T], NEW x \in S, NEW v \in T
                 PROVE  [f EXCEPT ![x] = v] \in [S -> T]
  OBVIOUS

(* Nothing has been started, and nothing is mounted. *)
LEMMA InitIInv == Init => IInv
<1> SUFFICES ASSUME Init PROVE IInv
  OBVIOUS
<1> USE DEF Init
<1>1. /\ at \in [Instances -> Stages] /\ child \in [Instances -> Commands]
      /\ no \in [Instances -> Nat] /\ points \in [Instances -> SUBSET MountPoints]
      /\ left \in [Instances -> SUBSET Tools] /\ failed \in [Instances -> SUBSET Tools]
      /\ untold \in [Instances -> SUBSET Tools] /\ stale \in [Instances -> SUBSET Isos]
      /\ said \in [Instances -> {"nothing", "success", "failed"}]
      /\ staged \in [Tools -> Nat]
  BY DEF Stages, Commands
<1>2. ok \in [Instances -> BOOLEAN] /\ faulted \in [Instances -> BOOLEAN]
  OBVIOUS
<1>3. grub \in BOOLEAN /\ crossing \in BOOLEAN
  BY Zenon
<1>4. dest \in Isos /\ output \subseteq Isos
  BY DEF Isos, NoIso
<1>5. TypeOK
  BY <1>1, <1>2, <1>3, <1>4 DEF TypeOK
<1>6. \A p \in Instances : Inv(p)
  BY ToolsAssumption DEF Inv, Holds, ChildFits, TreeIsOwn, UnmountedFirst, ToolsTold, IsosAreOwn, FailsForAReason,
                         Outside, OnTree, Working, Trusted, Filled
<1> QED  BY <1>5, <1>6 DEF IInv, Harmless

(* A failing call leaves the count of failures a number. *)
LEMMA FaultTyped == ASSUME TypeOK, NEW p \in Instances, NEW c, NoFault \/ Fault(p, c)
                    PROVE  faults' \in Nat /\ faulted' \in [Instances -> BOOLEAN]
<1> USE DEF TypeOK
<1>1. faults' \in Nat
  BY DEF NoFault, Fault
<1>2. CASE NoFault
  BY <1>1, <1>2, Zenon DEF NoFault
<1>3. CASE Fault(p, c)
  <2>1. faulted' = [faulted EXCEPT ![p] = TRUE] /\ faulted \in [Instances -> BOOLEAN]
    BY <1>3, Zenon DEF Fault
  <2> QED  BY <1>1, <2>1, Updated, Zenon
<1> QED  BY <1>2, <1>3

LEMMA SilentTyped == ASSUME TypeOK, NEW c, NoFault \/ Silent(c)
                     PROVE  faults' \in Nat /\ faulted' = faulted
<1>1. faults' \in Nat
  BY DEF TypeOK, NoFault, Silent
<1>2. faulted' = faulted
  BY Zenon DEF NoFault, Silent
<1> QED  BY <1>1, <1>2

(* What mkarchiso writes is an ISO. *)
LEMMA WrittenTyped == ASSUME TypeOK, NEW p \in Instances, Written(p, TRUE) \/ Written(p, FALSE)
                      PROVE  output' \subseteq Isos
<1>1. ASSUME NEW w \in BOOLEAN PROVE Iso(p, w) \in Isos
  BY DEF TypeOK, Iso, Isos
<1>2. PICK w \in BOOLEAN : Written(p, w)
  BY Zenon
<1>3. PICK kept \in {{}, output} : output' = kept \cup {Iso(p, w)}
  BY <1>2 DEF Written
<1>4. output \subseteq Isos
  BY DEF TypeOK
<1> QED  BY <1>1, <1>3, <1>4

(* Type correctness: every step leaves every variable in its set. *)
LEMMA NextTypeOK == TypeOK /\ [Next]_vars => TypeOK'
<1> SUFFICES ASSUME TypeOK, [Next]_vars PROVE TypeOK'
  OBVIOUS
<1> USE DEF TypeOK, Stages, Commands, Goes, Runs, Says, Ends, NoFault, Fault, Lists, Result, Step, ChildStep, Fails, disk
<1>1. ASSUME NEW p \in Instances, Start(p) PROVE TypeOK'
  BY <1>1 DEF Start
<1>2. ASSUME NEW p \in Instances, Lock(p) PROVE TypeOK'
  BY <1>2 DEF Lock
<1>3. ASSUME NEW p \in Instances, Quit(p) PROVE TypeOK'
  BY <1>3 DEF Quit
<1>4. ASSUME NEW p \in Instances, Launch(p) PROVE TypeOK'
  <2>1. /\ at' \in [Instances -> Stages] /\ no' \in [Instances -> Nat] /\ builds' \in Nat
        /\ said' \in [Instances -> {"nothing", "success", "failed"}]
    <3>1. /\ at' = [at EXCEPT ![p] = "umount"] /\ "umount" \in Stages
          /\ said' = [said EXCEPT ![p] = "nothing"] /\ "nothing" \in {"nothing", "success", "failed"}
          /\ no' = [no EXCEPT ![p] = builds + 1] /\ builds' = builds + 1
      BY <1>4, Zenon DEF Launch
    <3>2. builds + 1 \in Nat
      <4>1. builds \in Nat
        BY Zenon
      <4> QED  BY ONLY <4>1
    <3> QED  BY <3>1, <3>2, Updated, Zenon
  <2>2. points' \in [Instances -> SUBSET MountPoints]
    BY <1>4, Updated, Zenon DEF Launch
  <2>3. /\ left' \in [Instances -> SUBSET Tools] /\ failed' \in [Instances -> SUBSET Tools]
        /\ untold' \in [Instances -> SUBSET Tools]
    <3>1. left' = [left EXCEPT ![p] = Tools] /\ failed' = [failed EXCEPT ![p] = {}] /\ untold' = [untold EXCEPT ![p] = {}]
      BY <1>4, Zenon DEF Launch
    <3>2. Tools \in SUBSET Tools /\ {} \in SUBSET Tools
      OBVIOUS
    <3> QED  BY <3>1, <3>2, Updated, Zenon
  <2>4. stale' \in [Instances -> SUBSET Isos]
    BY <1>4, Updated, Zenon DEF Launch
  <2>5. faulted' \in [Instances -> BOOLEAN]
    BY <1>4, Updated, Zenon DEF Launch
  <2> QED  BY <1>4, <2>1, <2>2, <2>3, <2>4, <2>5 DEF Launch
<1>5. ASSUME NEW p \in Instances, Umount(p) PROVE TypeOK'
  <2>1. points' \in [Instances -> SUBSET MountPoints]
    <3>1. PICK m : points' = [points EXCEPT ![p] = points[p] \ {m}]
      BY <1>5 DEF Umount
    <3> DEFINE rest == points[p] \ {m}
    <3>2. rest \in SUBSET MountPoints /\ points' = [points EXCEPT ![p] = rest]
      BY <3>1
    <3> HIDE DEF rest
    <3> QED  BY <3>2, Updated
  <2>2. mounts' \subseteq MountPoints
    BY <1>5 DEF Umount
  <2>3. faults' \in Nat /\ faulted' \in [Instances -> BOOLEAN]
    <3>1. NoFault \/ Fault(p, "umount -l")
      BY <1>5 DEF Umount
    <3> QED  BY <3>1, FaultTyped
  <2> QED  BY <1>5, <2>1, <2>2, <2>3 DEF Umount
<1>6. ASSUME NEW p \in Instances, Unmounted(p) PROVE TypeOK'
  BY <1>6 DEF Unmounted
<1>7. ASSUME NEW p \in Instances, Wiped(p) PROVE TypeOK'
  <2>1. at' \in [Instances -> Stages] /\ said' \in [Instances -> {"nothing", "success", "failed"}]
    BY <1>7 DEF Wiped
  <2>2. tree' \subseteq Nat
    <3>1. tree' = tree \/ tree' = {no[p]}
      BY <1>7, Zenon DEF Wiped
    <3>2. no[p] \in Nat
      OBVIOUS
    <3> QED  BY <3>1, <3>2
  <2> QED  BY <1>7, <2>1, <2>2 DEF Wiped
<1>8. ASSUME NEW p \in Instances, BuildTool(p) PROVE TypeOK'
  <2>1. PICK t \in left[p] : Runs(p, t) /\ left' = [left EXCEPT ![p] = left[p] \ {t}]
    BY <1>8 DEF BuildTool
  <2>2. child' \in [Instances -> Commands]
    BY <2>1
  <2>3. left' \in [Instances -> SUBSET Tools]
    BY <2>1
  <2> QED  BY <1>8, <2>2, <2>3 DEF BuildTool
<1>9. ASSUME NEW p \in Instances, ToolsBuilt(p) PROVE TypeOK'
  BY <1>9 DEF ToolsBuilt
<1>10. ASSUME NEW p \in Instances, Strip(p) PROVE TypeOK'
  BY <1>10 DEF Strip
<1>11. ASSUME NEW p \in Instances, Stripped(p) PROVE TypeOK'
  BY <1>11 DEF Stripped
<1>12. ASSUME NEW p \in Instances, Grub(p) PROVE TypeOK'
  <2>1. at' \in [Instances -> Stages] /\ child' \in [Instances -> Commands]
    BY <1>12 DEF Grub
  <2>2. grub' \in BOOLEAN
    BY <1>12 DEF Grub
  <2>3. faults' \in Nat /\ faulted' \in [Instances -> BOOLEAN]
    <3>1. NoFault \/ Fault(p, "pacman")
      BY <1>12 DEF Grub
    <3> QED  BY <3>1, FaultTyped
  <2> QED  BY <1>12, <2>1, <2>2, <2>3 DEF Grub
<1>13. ASSUME NEW p \in Instances, Built(p) PROVE TypeOK'
  BY <1>13 DEF Built
<1>14. ASSUME NEW p \in Instances, Archive(p) PROVE TypeOK'
  <2>1. dest' \in Isos /\ output' \subseteq Isos
    BY <1>14 DEF Archive, Isos
  <2>2. at' \in [Instances -> Stages] /\ child' \in [Instances -> Commands]
    BY <1>14 DEF Archive
  <2>3. said' \in [Instances -> {"nothing", "success", "failed"}]
    BY <1>14 DEF Archive
  <2> QED  BY <1>14, <2>1, <2>2, <2>3 DEF Archive
<1>15. ASSUME NEW p \in Instances, Copied(p) PROVE TypeOK'
  BY <1>15 DEF Copied
<1>16. ASSUME NEW p \in Instances, Remove(p) PROVE TypeOK'
  <2>1. at' \in [Instances -> Stages] /\ child' \in [Instances -> Commands]
    BY <1>16 DEF Remove
  <2>2. holder' \in Instances \cup {Nobody}
    BY <1>16 DEF Remove
  <2>3. tree' \subseteq Nat /\ harmed' \subseteq MountPoints
    BY <1>16 DEF Remove
  <2>4. faults' \in Nat /\ faulted' \in [Instances -> BOOLEAN]
    <3>1. NoFault \/ Fault(p, "rm")
      BY <1>16 DEF Remove
    <3> QED  BY <3>1, FaultTyped
  <2> QED  BY <1>16, <2>1, <2>2, <2>3, <2>4 DEF Remove
<1>17. ASSUME NEW p \in Instances, ToolBuilt(p) PROVE TypeOK'
  BY <1>17 DEF ToolBuilt
<1>18. ASSUME NEW p \in Instances, ToolFails(p) PROVE TypeOK'
  BY <1>18 DEF ToolFails
<1>19. ASSUME NEW p \in Instances, Mounts(p) PROVE TypeOK'
  BY <1>19 DEF Mounts
<1>20. ASSUME NEW p \in Instances, Unmounts(p) PROVE TypeOK'
  BY <1>20 DEF Unmounts
<1>21. ASSUME NEW p \in Instances, Makes(p) PROVE TypeOK'
  <2>1. at' \in [Instances -> Stages] /\ child' \in [Instances -> Commands]
    BY <1>21 DEF Makes
  <2>2. holder' \in Instances \cup {Nobody} /\ ok' \in [Instances -> BOOLEAN]
    BY <1>21 DEF Makes
  <2>3. output' \subseteq Isos
    BY <1>21, WrittenTyped DEF Makes
  <2> QED  BY <1>21, <2>1, <2>2, <2>3 DEF Makes
<1>22. ASSUME NEW p \in Instances, MakesNot(p) PROVE TypeOK'
  <2>1. at' \in [Instances -> Stages] /\ child' \in [Instances -> Commands]
    BY <1>22 DEF MakesNot
  <2>2. holder' \in Instances \cup {Nobody} /\ ok' \in [Instances -> BOOLEAN]
    BY <1>22 DEF MakesNot
  <2>3. mounts' \subseteq MountPoints
    BY <1>22 DEF MakesNot
  <2>4. faults' \in Nat /\ faulted' \in [Instances -> BOOLEAN]
    <3>1. NoFault \/ Fault(p, "mkarchiso")
      BY <1>22 DEF MakesNot
    <3> QED  BY <3>1, FaultTyped
  <2>5. output' \subseteq Isos
    BY <1>22, WrittenTyped DEF MakesNot
  <2> QED  BY <1>22, <2>1, <2>2, <2>3, <2>4, <2>5 DEF MakesNot
<1>23. ASSUME NEW p \in Instances, Copies(p) PROVE TypeOK'
  BY <1>23 DEF Copies
<1>24. ASSUME NEW p \in Instances, CopyFails(p) PROVE TypeOK'
  <2>1. at' \in [Instances -> Stages] /\ child' \in [Instances -> Commands] /\ holder' \in Instances \cup {Nobody}
    BY <1>24 DEF CopyFails
  <2>2. ok' \in [Instances -> BOOLEAN]
    BY <1>24 DEF CopyFails
  <2>3. faults' \in Nat /\ faulted' \in [Instances -> BOOLEAN]
    <3>1. Fault(p, "cp")
      BY <1>24 DEF CopyFails
    <3> QED  BY <3>1, FaultTyped
  <2> QED  BY <1>24, <2>1, <2>2, <2>3 DEF CopyFails
<1>25. ASSUME NEW p \in Instances, Kill(p) PROVE TypeOK'
  <2>1. at' \in [Instances -> Stages] /\ child' \in [Instances -> Commands]
    BY <1>25 DEF Kill
  <2>2. output' \subseteq Isos
    BY <1>25, WrittenTyped DEF Kill
  <2>3. holder' \in Instances \cup {Nobody}
    <3>1. holder' = holder \/ holder' = Nobody
      BY <1>25, Zenon DEF Kill
    <3> QED  BY <3>1
  <2>4. kills' \in Nat
    <3>1. kills' = kills + 1 /\ kills \in Nat
      BY <1>25, Zenon DEF Kill
    <3> QED  BY ONLY <3>1
  <2>5. said' \in [Instances -> {"nothing", "success", "failed"}]
    <3>1. said' = [said EXCEPT ![p] = "nothing"] /\ "nothing" \in {"nothing", "success", "failed"}
      BY <1>25, Zenon DEF Kill
    <3> QED  BY <3>1, Updated, Zenon
  <2>6. UNCHANGED <<no, points, left, failed, untold, stale, ok, builds>>
    BY <1>25, Zenon DEF Kill
  <2>7. UNCHANGED <<tree, mounts, harmed, staged, conf, grub, dest, crossing, faults, faulted>>
    BY <1>25, Zenon DEF Kill
  <2>8. /\ builds' \in Nat /\ no' \in [Instances -> Nat]
        /\ points' \in [Instances -> SUBSET MountPoints] /\ left' \in [Instances -> SUBSET Tools]
        /\ failed' \in [Instances -> SUBSET Tools] /\ ok' \in [Instances -> BOOLEAN]
        /\ untold' \in [Instances -> SUBSET Tools] /\ stale' \in [Instances -> SUBSET Isos]
    BY <2>6, Zenon
  <2>9. /\ faulted' \in [Instances -> BOOLEAN] /\ tree' \subseteq Nat /\ mounts' \subseteq MountPoints
        /\ harmed' \subseteq MountPoints /\ staged' \in [Tools -> Nat] /\ conf' \in {"community", "cut", "clean"}
        /\ grub' \in BOOLEAN /\ dest' \in Isos /\ crossing' \in BOOLEAN /\ faults' \in Nat
    BY <2>7, Zenon
  <2> QED  BY <2>1, <2>2, <2>3, <2>4, <2>5, <2>8, <2>9, Zenon
<1>27. ASSUME NEW p \in Instances, RemoveOutput(p) PROVE TypeOK'
  <2>1. at' \in [Instances -> Stages] /\ child' \in [Instances -> Commands] /\ holder' \in Instances \cup {Nobody}
    BY <1>27 DEF RemoveOutput
  <2>2. output' \subseteq Isos
    BY <1>27, Zenon DEF RemoveOutput
  <2>3. stale' \in [Instances -> SUBSET Isos]
    <3>1. stale' = stale \/ stale' = [stale EXCEPT ![p] = output]
      BY <1>27, Zenon DEF RemoveOutput
    <3>2. stale \in [Instances -> SUBSET Isos] /\ output \in SUBSET Isos
      OBVIOUS
    <3> QED  BY <3>1, <3>2, Updated, Zenon
  <2>4. faults' \in Nat /\ faulted' = faulted
    <3>1. NoFault \/ Silent("rm output")
      BY <1>27, Zenon DEF RemoveOutput
    <3> QED  BY <3>1, SilentTyped
  <2> QED  BY <1>27, <2>1, <2>2, <2>3, <2>4 DEF RemoveOutput
<1>28. ASSUME NEW p \in Instances, PassedOver(p) PROVE TypeOK'
  <2>1. left' \in [Instances -> SUBSET Tools] /\ untold' \in [Instances -> SUBSET Tools]
    <3>1. PICK ts \in SUBSET left[p] : /\ left' = [left EXCEPT ![p] = left[p] \ ts]
                                       /\ untold' = [untold EXCEPT ![p] = untold[p] \cup ts]
      BY <1>28 DEF PassedOver
    <3>2. left[p] \ ts \in SUBSET Tools /\ untold[p] \cup ts \in SUBSET Tools
      <4>1. left[p] \subseteq Tools /\ untold[p] \subseteq Tools /\ ts \subseteq left[p]
        OBVIOUS
      <4> QED  BY <4>1, Zenon
    <3> QED  BY <3>1, <3>2, Updated
  <2>2. faults' \in Nat /\ faulted' = faulted
    <3>1. Silent("opendir")
      BY <1>28, Zenon DEF PassedOver
    <3> QED  BY <3>1, SilentTyped
  <2> QED  BY <1>28, <2>1, <2>2 DEF PassedOver
<1>26. CASE UNCHANGED vars
  BY <1>26 DEF vars, builders
<1> QED
  BY <1>1, <1>2, <1>3, <1>4, <1>5, <1>6, <1>7, <1>8, <1>9, <1>10, <1>11, <1>12, <1>13, <1>14, <1>15, <1>16, <1>17,
     <1>18, <1>19, <1>20, <1>21, <1>22, <1>23, <1>24, <1>25, <1>26, <1>27, <1>28
  DEF Next, Builder, Child

(* While one builder is past the lock no other is, and what only that one   *)
(* does leaves the others where they are, with nothing to keep true.       *)
LEMMA OthersOutside ==
  ASSUME IInv, NEW p \in Instances, at[p] \notin Outside
  PROVE  \A q \in Instances \ {p} : at[q] \in Outside /\ child[q] = "none"
  BY ToolsAssumption DEF IInv, TypeOK, Commands, Inv, Holds, ChildFits, Outside

LEMMA OutsideInv ==
  ASSUME IInv, NEW q \in Instances, at[q] \in Outside, child[q] = "none",
         UNCHANGED <<at[q], child[q], said[q]>>
  PROVE  Inv(q)'
  BY ToolsAssumption DEF IInv, Inv, Holds, ChildFits, TreeIsOwn, UnmountedFirst, ToolsTold, IsosAreOwn, FailsForAReason,
                         Outside, OnTree, Working, Filled

(* A builder that is gone, and its command with it, has nothing to keep.   *)
LEMMA GoneInv ==
  ASSUME NEW p \in Instances, at'[p] = "off", child'[p] = "none"
  PROVE  Inv(p)'
  BY ToolsAssumption DEF Inv, Holds, ChildFits, TreeIsOwn, UnmountedFirst, ToolsTold, IsosAreOwn, FailsForAReason,
                         Outside, OnTree, Working, Filled

(* What nobody touches stays true. *)
LEMMA SameInv ==
  ASSUME IInv, NEW q \in Instances, UNCHANGED <<at[q], child[q], no[q], points[q], left[q], failed[q], untold[q], stale[q], ok[q], said[q], faulted[q]>>,
         UNCHANGED <<holder, disk>>
  PROVE  Inv(q)'
<1>i. /\ Holds(q) /\ ChildFits(q) /\ TreeIsOwn(q) /\ UnmountedFirst(q)
      /\ ToolsTold(q) /\ IsosAreOwn(q) /\ FailsForAReason(q)
  BY DEF IInv, Inv
<1> USE DEF disk
<1>1. Holds(q)' /\ ChildFits(q)'
  BY <1>i DEF Holds, ChildFits, Commands
<1>2. TreeIsOwn(q)'
  BY <1>i DEF TreeIsOwn, Working, ChildFits
<1>3. UnmountedFirst(q)'
  BY <1>i DEF UnmountedFirst, Trusted, ChildFits
<1>4. ToolsTold(q)'
  BY <1>i DEF ToolsTold, ChildFits
<1>5. IsosAreOwn(q)'
  BY <1>i DEF IsosAreOwn, Own, OwnOrStale, Filled, ToolsTold, ChildFits
<1>6. FailsForAReason(q)'
  BY <1>i DEF FailsForAReason, UnmountedFirst, Trusted, ChildFits
<1> QED  BY <1>1, <1>2, <1>3, <1>4, <1>5, <1>6 DEF Inv

(* Every step of every builder and of every command, and every kill, keeps  *)
(* what is true of the builders.  For each step: nothing else is past the   *)
(* lock, what it does to this builder and to the disk, and so that the      *)
(* invariant holds of this builder.                                        *)
LEMMA NextInv == IInv /\ [Next]_vars => \A q \in Instances : Inv(q)'
<1> SUFFICES ASSUME IInv, [Next]_vars PROVE \A q \in Instances : Inv(q)'
  OBVIOUS
<1>o. TypeOK
  BY DEF IInv
<1>i. ASSUME NEW p \in Instances
      PROVE  /\ Holds(p) /\ ChildFits(p) /\ TreeIsOwn(p) /\ UnmountedFirst(p)
             /\ ToolsTold(p) /\ IsosAreOwn(p) /\ FailsForAReason(p)
  BY DEF IInv, Inv
<1>a. ASSUME NEW p \in Instances, at[p] \notin Outside, Inv(p)',
             \A q \in Instances \ {p} : UNCHANGED <<at[q], child[q], said[q]>>
      PROVE  \A q \in Instances : Inv(q)'
  BY <1>a, OthersOutside, OutsideInv
<1> USE InstancesAssumption, ToolsAssumption
    DEF Goes, Runs, Says, Ends, NoFault, Fault, Lists, Result, Step, ChildStep, Fails, disk, Outside, OnTree
<1>1. ASSUME NEW p \in Instances, Start(p) PROVE \A q \in Instances : Inv(q)'
  <2>1. \A q \in Instances \ {p} : UNCHANGED <<at[q], child[q], no[q], points[q], left[q], failed[q], untold[q], stale[q], ok[q], said[q], faulted[q]>>
    BY <1>o, <1>1 DEF Start, TypeOK
  <2>2. UNCHANGED <<holder, disk>>
    BY <1>1 DEF Start
  <2>3. at'[p] = "lock" /\ said'[p] = "nothing" /\ child'[p] = "none"
    BY <1>o, <1>i, <1>1 DEF Start, TypeOK, Commands, ChildFits
  <2>4. Inv(p)'
    BY <2>3 DEF Inv, Holds, ChildFits, TreeIsOwn, UnmountedFirst, ToolsTold, IsosAreOwn, FailsForAReason, Filled, Working
  <2> QED  BY <2>1, <2>2, <2>4, SameInv
<1>2. ASSUME NEW p \in Instances, Lock(p) PROVE \A q \in Instances : Inv(q)'
  <2>1. \A q \in Instances \ {p} : UNCHANGED <<at[q], child[q], no[q], points[q], left[q], failed[q], untold[q], stale[q], ok[q], said[q], faulted[q]>>
    BY <1>o, <1>2 DEF Lock, TypeOK
  <2>2. UNCHANGED disk /\ child'[p] = "none" /\ said'[p] = "nothing"
    BY <1>o, <1>i, <1>2 DEF Lock, TypeOK, Commands, ChildFits, FailsForAReason
  <2>3. CASE holder = Nobody
    <3>1. \A q \in Instances \ {p} : at[q] \in Outside /\ child[q] = "none"
      BY <1>o, <1>i, <2>3 DEF TypeOK, Commands, Holds, ChildFits
    <3>2. \A q \in Instances \ {p} : Inv(q)'
      BY <2>1, <3>1, OutsideInv
    <3>3. at'[p] = "home" /\ holder' = p
      BY <1>o, <1>2, <2>3 DEF Lock, TypeOK
    <3>4. Inv(p)'
      BY <2>2, <3>3
      DEF Inv, Holds, ChildFits, TreeIsOwn, UnmountedFirst, ToolsTold, IsosAreOwn, FailsForAReason, Filled, Working
    <3> QED  BY <3>2, <3>4
  <2>4. CASE holder # Nobody
    <3>1. UNCHANGED holder /\ at'[p] = "off"
      BY <1>o, <1>2, <2>4 DEF Lock, TypeOK
    <3>2. Inv(p)'
      BY <2>2, <3>1, GoneInv
    <3> QED  BY <2>1, <2>2, <3>1, <3>2, SameInv
  <2> QED  BY <2>3, <2>4
<1>3. ASSUME NEW p \in Instances, Quit(p) PROVE \A q \in Instances : Inv(q)'
  <2>1. at[p] \notin Outside
    BY <1>o, <1>i, <1>3 DEF Quit, ChildFits
  <2>2. \A q \in Instances \ {p} : UNCHANGED <<at[q], child[q], said[q]>>
    BY <1>o, <1>3 DEF Quit, TypeOK
  <2>3. at'[p] = "off" /\ child'[p] = "none"
    BY <1>o, <1>i, <1>3 DEF Quit, TypeOK, Commands, ChildFits
  <2>4. Inv(p)'
    BY <2>3, GoneInv
  <2> QED  BY <1>a, <2>1, <2>2, <2>4
<1>4. ASSUME NEW p \in Instances, Launch(p) PROVE \A q \in Instances : Inv(q)'
  <2>1. at[p] \notin Outside
    BY <1>o, <1>i, <1>4 DEF Launch, ChildFits
  <2>2. \A q \in Instances \ {p} : UNCHANGED <<at[q], child[q], said[q]>>
    BY <1>o, <1>4 DEF Launch, TypeOK
  <2>3. /\ at[p] = "home" /\ at'[p] = "umount" /\ points'[p] = mounts /\ left'[p] = Tools
        /\ said'[p] = "nothing" /\ faulted'[p] = FALSE /\ failed'[p] = {}
        /\ UNCHANGED <<child[p], ok[p], holder>>
        /\ UNCHANGED <<tree, mounts, staged, conf, grub, output, dest>>
    BY <1>o, <1>4 DEF Launch, TypeOK
  <2>4. Inv(p)'
    BY <1>i, <2>1, <2>3
    DEF Inv, Holds, ChildFits, TreeIsOwn, UnmountedFirst, ToolsTold, IsosAreOwn, FailsForAReason, Working, Trusted, Own, OwnOrStale, Filled
  <2> QED  BY <1>a, <2>1, <2>2, <2>4
<1>5. ASSUME NEW p \in Instances, Umount(p) PROVE \A q \in Instances : Inv(q)'
  <2>1. at[p] \notin Outside
    BY <1>o, <1>i, <1>5 DEF Umount, ChildFits
  <2>2. \A q \in Instances \ {p} : UNCHANGED <<at[q], child[q], said[q]>>
    BY <1>o, <1>5 DEF Umount, TypeOK
  <2>3. /\ at[p] = "umount"
        /\ \E m \in points[p] : /\ Below(m) \cap points[p] = {} /\ points'[p] = points[p] \ {m}
                                /\ \/ mounts' = mounts \ ({m} \cup Below(m)) /\ UNCHANGED faulted[p]
                                   \/ UNCHANGED mounts /\ faulted'[p] /\ "umount -l" \in FaultAt
        /\ UNCHANGED <<at[p], child[p], no[p], left[p], failed[p], untold[p], stale[p], ok[p], said[p], holder>>
        /\ UNCHANGED <<tree, staged, conf, grub, output, dest>>
    BY <1>o, <1>5 DEF Umount, TypeOK, Deepest
  <2>4. Inv(p)'
    BY <1>i, <2>1, <2>3
    DEF Inv, Holds, ChildFits, TreeIsOwn, UnmountedFirst, ToolsTold, IsosAreOwn, FailsForAReason, Working, Trusted, Own, OwnOrStale, Filled
  <2> QED  BY <1>a, <2>1, <2>2, <2>4
<1>6. ASSUME NEW p \in Instances, Unmounted(p) PROVE \A q \in Instances : Inv(q)'
  <2>1. at[p] \notin Outside
    BY <1>o, <1>i, <1>6 DEF Unmounted, ChildFits
  <2>2. \A q \in Instances \ {p} : UNCHANGED <<at[q], child[q], said[q]>>
    BY <1>o, <1>6 DEF Unmounted, TypeOK
  <2>3. /\ at[p] = "umount" /\ at'[p] = "rm" /\ child'[p] = "rm" /\ points[p] = {}
        /\ UNCHANGED <<no[p], points[p], left[p], failed[p], untold[p], stale[p], ok[p], said[p], faulted[p], holder>>
        /\ UNCHANGED <<tree, mounts, staged, conf, grub, output, dest>>
    BY <1>o, <1>6 DEF Unmounted, TypeOK
  <2>4. Inv(p)'
    BY <1>i, <2>1, <2>3
    DEF Inv, Holds, ChildFits, TreeIsOwn, UnmountedFirst, ToolsTold, IsosAreOwn, FailsForAReason, Working, Trusted, Own, OwnOrStale, Filled
  <2> QED  BY <1>a, <2>1, <2>2, <2>4
<1>7. ASSUME NEW p \in Instances, Wiped(p) PROVE \A q \in Instances : Inv(q)'
  <2>1. at[p] \notin Outside
    BY <1>o, <1>i, <1>7 DEF Wiped, ChildFits
  <2>2. \A q \in Instances \ {p} : UNCHANGED <<at[q], child[q], said[q]>>
    BY <1>o, <1>7 DEF Wiped, TypeOK
  <2>3. /\ at[p] = "rm" /\ child[p] = "none" /\ output' = output
        /\ \/ tree # {} /\ tree' = tree /\ at'[p] = "home" /\ said'[p] = "failed"
           \/ tree' = {no[p]} /\ at'[p] = "tools"
        /\ UNCHANGED <<child[p], no[p], points[p], left[p], failed[p], untold[p], stale[p], ok[p], faulted[p], holder>>
        /\ UNCHANGED <<mounts, staged, conf, grub, dest>>
    BY <1>o, <1>7 DEF Wiped, TypeOK
  <2>4. Inv(p)'
    <3>1. Holds(p)' /\ ChildFits(p)'
      BY <1>i, <2>1, <2>3 DEF Holds, ChildFits, Commands
    <3>2. TreeIsOwn(p)'
      BY <1>i, <2>1, <2>3 DEF TreeIsOwn, Working, ChildFits
    <3>3. UnmountedFirst(p)'
      BY <1>i, <2>1, <2>3 DEF UnmountedFirst, Trusted, ChildFits
    <3>4. ToolsTold(p)'
      BY <1>i, <2>1, <2>3 DEF ToolsTold, ChildFits
    <3>5. IsosAreOwn(p)'
      BY <1>i, <2>1, <2>3 DEF IsosAreOwn, Own, OwnOrStale, Filled, ToolsTold, ChildFits
    <3>6. FailsForAReason(p)'
      BY <1>i, <2>1, <2>3 DEF FailsForAReason, UnmountedFirst, Trusted, ChildFits
    <3> QED  BY <3>1, <3>2, <3>3, <3>4, <3>5, <3>6 DEF Inv
  <2> QED  BY <1>a, <2>1, <2>2, <2>4
<1>8. ASSUME NEW p \in Instances, BuildTool(p) PROVE \A q \in Instances : Inv(q)'
  <2>1. at[p] \notin Outside
    BY <1>o, <1>i, <1>8 DEF BuildTool, ChildFits
  <2>2. \A q \in Instances \ {p} : UNCHANGED <<at[q], child[q], said[q]>>
    BY <1>o, <1>8 DEF BuildTool, TypeOK
  <2>3. /\ at[p] = "tools" /\ child[p] = "none"
        /\ child'[p] \in left[p] \cap Tools /\ left'[p] = left[p] \ {child'[p]}
        /\ UNCHANGED <<at[p], no[p], points[p], failed[p], untold[p], stale[p], ok[p], said[p], faulted[p], holder>>
        /\ UNCHANGED <<tree, mounts, staged, conf, grub, output, dest>>
    <3>1. PICK t \in left[p] : Runs(p, t) /\ left' = [left EXCEPT ![p] = left[p] \ {t}]
      BY <1>8 DEF BuildTool
    <3>2. child'[p] = t /\ left'[p] = left[p] \ {t} /\ t \in Tools
      BY <1>o, <3>1 DEF TypeOK
    <3> QED  BY <1>8, <3>2 DEF BuildTool
  <2>4. Inv(p)'
    <3>1. Holds(p)' /\ ChildFits(p)'
      BY <1>i, <2>1, <2>3 DEF Holds, ChildFits, Commands
    <3>2. TreeIsOwn(p)'
      BY <1>i, <2>1, <2>3 DEF TreeIsOwn, Working, ChildFits
    <3>3. UnmountedFirst(p)'
      BY <1>i, <2>1, <2>3 DEF UnmountedFirst, Trusted, ChildFits
    <3>4. ToolsTold(p)'
      BY <1>i, <2>1, <2>3 DEF ToolsTold, ChildFits
    <3>5. IsosAreOwn(p)'
      BY <1>i, <2>1, <2>3 DEF IsosAreOwn, Own, OwnOrStale, Filled, ToolsTold, ChildFits
    <3>6. FailsForAReason(p)'
      BY <1>i, <2>1, <2>3 DEF FailsForAReason, UnmountedFirst, Trusted, ChildFits
    <3> QED  BY <3>1, <3>2, <3>3, <3>4, <3>5, <3>6 DEF Inv
  <2> QED  BY <1>a, <2>1, <2>2, <2>4
<1>9. ASSUME NEW p \in Instances, ToolsBuilt(p) PROVE \A q \in Instances : Inv(q)'
  <2>1. at[p] \notin Outside
    BY <1>o, <1>i, <1>9 DEF ToolsBuilt, ChildFits
  <2>2. \A q \in Instances \ {p} : UNCHANGED <<at[q], child[q], said[q]>>
    BY <1>o, <1>9 DEF ToolsBuilt, TypeOK
  <2>3. /\ at[p] = "tools" /\ at'[p] = "conf" /\ child[p] = "none" /\ left[p] = {}
        /\ UNCHANGED <<child[p], no[p], points[p], left[p], failed[p], untold[p], stale[p], ok[p], said[p], faulted[p], holder>>
        /\ UNCHANGED <<tree, mounts, staged, conf, grub, output, dest>>
    BY <1>o, <1>9 DEF ToolsBuilt, TypeOK
  <2>4. Inv(p)'
    <3>1. Holds(p)' /\ ChildFits(p)'
      BY <1>i, <2>1, <2>3 DEF Holds, ChildFits, Commands
    <3>2. TreeIsOwn(p)'
      BY <1>i, <2>1, <2>3 DEF TreeIsOwn, Working, ChildFits
    <3>3. UnmountedFirst(p)'
      BY <1>i, <2>1, <2>3 DEF UnmountedFirst, Trusted, ChildFits
    <3>4. ToolsTold(p)'
      BY <1>i, <2>1, <2>3 DEF ToolsTold, ChildFits
    <3>5. IsosAreOwn(p)'
      BY <1>i, <2>1, <2>3 DEF IsosAreOwn, Own, OwnOrStale, Filled, ToolsTold, ChildFits
    <3>6. FailsForAReason(p)'
      BY <1>i, <2>1, <2>3 DEF FailsForAReason, UnmountedFirst, Trusted, ChildFits
    <3> QED  BY <3>1, <3>2, <3>3, <3>4, <3>5, <3>6 DEF Inv
  <2> QED  BY <1>a, <2>1, <2>2, <2>4
<1>10. ASSUME NEW p \in Instances, Strip(p) PROVE \A q \in Instances : Inv(q)'
  <2>1. at[p] \notin Outside
    BY <1>o, <1>i, <1>10 DEF Strip, ChildFits
  <2>2. \A q \in Instances \ {p} : UNCHANGED <<at[q], child[q], said[q]>>
    BY <1>o, <1>10 DEF Strip, TypeOK
  <2>3. /\ at[p] = "conf"
        /\ \/ conf' = "cut" /\ at'[p] = "write"
           \/ conf \in {"cut", "clean"} /\ conf' = conf /\ at'[p] = "grub"
        /\ UNCHANGED <<child[p], no[p], points[p], left[p], failed[p], untold[p], stale[p], ok[p], said[p], faulted[p], holder>>
        /\ UNCHANGED <<tree, mounts, staged, grub, output, dest>>
    BY <1>o, <1>10 DEF Strip, TypeOK
  <2>4. Inv(p)'
    BY <1>i, <2>1, <2>3
    DEF Inv, Holds, ChildFits, TreeIsOwn, UnmountedFirst, ToolsTold, IsosAreOwn, FailsForAReason, Working, Trusted, Own, OwnOrStale, Filled
  <2> QED  BY <1>a, <2>1, <2>2, <2>4
<1>11. ASSUME NEW p \in Instances, Stripped(p) PROVE \A q \in Instances : Inv(q)'
  <2>1. at[p] \notin Outside
    BY <1>o, <1>i, <1>11 DEF Stripped, ChildFits
  <2>2. \A q \in Instances \ {p} : UNCHANGED <<at[q], child[q], said[q]>>
    BY <1>o, <1>11 DEF Stripped, TypeOK
  <2>3. /\ at[p] = "write" /\ at'[p] = "grub" /\ conf' = "clean"
        /\ UNCHANGED <<child[p], no[p], points[p], left[p], failed[p], untold[p], stale[p], ok[p], said[p], faulted[p], holder>>
        /\ UNCHANGED <<tree, mounts, staged, grub, output, dest>>
    BY <1>o, <1>11 DEF Stripped, TypeOK
  <2>4. Inv(p)'
    BY <1>i, <2>1, <2>3
    DEF Inv, Holds, ChildFits, TreeIsOwn, UnmountedFirst, ToolsTold, IsosAreOwn, FailsForAReason, Working, Trusted, Own, OwnOrStale, Filled
  <2> QED  BY <1>a, <2>1, <2>2, <2>4
<1>12. ASSUME NEW p \in Instances, Grub(p) PROVE \A q \in Instances : Inv(q)'
  <2>1. at[p] \notin Outside
    BY <1>o, <1>i, <1>12 DEF Grub, ChildFits
  <2>2. \A q \in Instances \ {p} : UNCHANGED <<at[q], child[q], said[q]>>
    BY <1>o, <1>12 DEF Grub, TypeOK
  <2>3. /\ at[p] = "grub" /\ at'[p] = "mkarchiso" /\ child'[p] = "mkarchiso"
        /\ faulted[p] => faulted'[p]
        /\ grub' \/ faulted'[p]
        /\ UNCHANGED <<no[p], points[p], left[p], failed[p], untold[p], stale[p], ok[p], said[p], holder>>
        /\ UNCHANGED <<tree, mounts, staged, conf, output, dest>>
    BY <1>o, <1>12 DEF Grub, TypeOK
  <2>4. Inv(p)'
    BY <1>i, <2>1, <2>3
    DEF Inv, Holds, ChildFits, TreeIsOwn, UnmountedFirst, ToolsTold, IsosAreOwn, FailsForAReason, Working, Trusted, Own, OwnOrStale, Filled
  <2> QED  BY <1>a, <2>1, <2>2, <2>4
<1>13. ASSUME NEW p \in Instances, Built(p) PROVE \A q \in Instances : Inv(q)'
  <2>1. at[p] \notin Outside
    BY <1>o, <1>i, <1>13 DEF Built, ChildFits
  <2>2. \A q \in Instances \ {p} : UNCHANGED <<at[q], child[q], said[q]>>
    BY <1>o, <1>13 DEF Built, TypeOK
  <2>3. /\ at[p] = "mkarchiso" /\ child[p] = "none"
        /\ \/ ok[p] /\ at'[p] = "archive"
           \/ ~ok[p] /\ at'[p] = "home" /\ said'[p] = "failed"
        /\ UNCHANGED <<child[p], no[p], points[p], left[p], failed[p], untold[p], stale[p], ok[p], faulted[p], holder>>
        /\ UNCHANGED <<tree, mounts, staged, conf, grub, output, dest>>
    BY <1>o, <1>13 DEF Built, TypeOK
  <2>4. Inv(p)'
    BY <1>i, <2>1, <2>3
    DEF Inv, Holds, ChildFits, TreeIsOwn, UnmountedFirst, ToolsTold, IsosAreOwn, FailsForAReason, Working, Trusted, Own, OwnOrStale, Filled
  <2> QED  BY <1>a, <2>1, <2>2, <2>4
<1>14. ASSUME NEW p \in Instances, Archive(p) PROVE \A q \in Instances : Inv(q)'
  <2>1. at[p] \notin Outside
    BY <1>o, <1>i, <1>14 DEF Archive, ChildFits
  <2>2. \A q \in Instances \ {p} : UNCHANGED <<at[q], child[q], said[q]>>
    BY <1>o, <1>14 DEF Archive, TypeOK
  <2>3. /\ at[p] = "archive"
        /\ \E iso \in output : \/ /\ output' = output
                                  /\ child'[p] = "cp" /\ at'[p] = "cp"
                               \/ dest' = iso /\ child'[p] = "none" /\ at'[p] = "home" /\ said'[p] = "success"
        /\ UNCHANGED <<no[p], points[p], left[p], failed[p], untold[p], stale[p], ok[p], faulted[p], holder>>
        /\ UNCHANGED <<tree, mounts, staged, conf, grub>>
    <3>1. PICK iso \in output :
            IF crossing
            THEN UNCHANGED <<output, said>> /\ Runs(p, "cp") /\ at' = [at EXCEPT ![p] = "cp"]
            ELSE dest' = iso /\ UNCHANGED child /\ at' = [at EXCEPT ![p] = "home"] /\ Says(p, "success")
      BY <1>14 DEF Archive
    <3>2. at[p] = "archive" /\ child[p] = "none"
      BY <1>o, <1>i, <1>14 DEF Archive, TypeOK, Commands, ChildFits
    <3>3. /\ UNCHANGED <<no[p], points[p], left[p], failed[p], untold[p], stale[p], ok[p], faulted[p], holder>>
          /\ UNCHANGED <<tree, mounts, staged, conf, grub>>
      BY <1>14 DEF Archive
    <3>4. iso \in Isos
      BY <1>o DEF TypeOK
    <3>5. CASE crossing
      <4>1. child'[p] = "cp" /\ at'[p] = "cp" /\ output' = output
        BY <1>o, <3>1, <3>5 DEF TypeOK
      <4> QED  BY <3>2, <3>3, <4>1
    <3>6. CASE ~crossing
      <4>1. child'[p] = "none" /\ at'[p] = "home" /\ dest' = iso /\ said'[p] = "success"
        BY <1>o, <3>1, <3>2, <3>6 DEF TypeOK
      <4> QED  BY <3>2, <3>3, <4>1
    <3> QED  BY <3>5, <3>6
  <2>4. Inv(p)'
    <3>1. Holds(p)' /\ ChildFits(p)'
      BY <1>i, <2>1, <2>3 DEF Holds, ChildFits, Commands
    <3>2. TreeIsOwn(p)'
      BY <1>i, <2>1, <2>3 DEF TreeIsOwn, Working, ChildFits
    <3>3. UnmountedFirst(p)'
      BY <1>i, <2>1, <2>3 DEF UnmountedFirst, Trusted, ChildFits
    <3>4. ToolsTold(p)'
      BY <1>i, <2>1, <2>3 DEF ToolsTold, ChildFits
    <3>5. IsosAreOwn(p)'
      BY <1>i, <2>1, <2>3 DEF IsosAreOwn, Own, OwnOrStale, Filled, ToolsTold, ChildFits
    <3>6. FailsForAReason(p)'
      BY <1>i, <2>1, <2>3 DEF FailsForAReason, UnmountedFirst, Trusted, ChildFits
    <3> QED  BY <3>1, <3>2, <3>3, <3>4, <3>5, <3>6 DEF Inv
  <2> QED  BY <1>a, <2>1, <2>2, <2>4
<1>15. ASSUME NEW p \in Instances, Copied(p) PROVE \A q \in Instances : Inv(q)'
  <2>1. at[p] \notin Outside
    BY <1>o, <1>i, <1>15 DEF Copied, ChildFits
  <2>2. \A q \in Instances \ {p} : UNCHANGED <<at[q], child[q], said[q]>>
    BY <1>o, <1>15 DEF Copied, TypeOK
  <2>3. /\ at[p] = "cp" /\ child[p] = "none" /\ at'[p] = "home"
        /\ \/ ok[p] /\ said'[p] = "success"
           \/ ~ok[p] /\ said'[p] = "failed"
        /\ UNCHANGED <<child[p], no[p], points[p], left[p], failed[p], untold[p], stale[p], ok[p], faulted[p], holder>>
        /\ UNCHANGED <<tree, mounts, staged, conf, grub, dest>>
    BY <1>o, <1>15 DEF Copied, TypeOK
  <2>4. Inv(p)'
    BY <1>i, <2>1, <2>3
    DEF Inv, Holds, ChildFits, TreeIsOwn, UnmountedFirst, ToolsTold, IsosAreOwn, FailsForAReason, Working, Trusted, Own, OwnOrStale, Filled
  <2> QED  BY <1>a, <2>1, <2>2, <2>4
<1>16. ASSUME NEW p \in Instances, Remove(p) PROVE \A q \in Instances : Inv(q)'
  <2>1. at[p] \notin Outside
    BY <1>o, <1>i, <1>16 DEF Remove, ChildFits
  <2>2. \A q \in Instances \ {p} : UNCHANGED <<at[q], child[q], said[q]>>
    BY <1>o, <1>16 DEF Remove, TypeOK
  <2>3. CASE at[p] = "dead"
    <3>1. at'[p] = "off" /\ child'[p] = "none"
      BY <1>o, <1>16, <2>3 DEF Remove, TypeOK
    <3> QED  BY <1>a, <2>1, <2>2, <3>1, GoneInv
  <2>4. CASE at[p] # "dead"
    <3>1. /\ child[p] = "rm" /\ child'[p] = "rm output"
          /\ \/ mounts = {} /\ tree' = {} /\ UNCHANGED faulted[p]
             \/ mounts # {} /\ tree' = tree /\ UNCHANGED faulted[p]
             \/ faulted'[p]
          /\ UNCHANGED <<at[p], no[p], points[p], left[p], failed[p], untold[p], stale[p], ok[p], said[p], holder>>
          /\ UNCHANGED <<mounts, staged, conf, grub, output, dest>>
      BY <1>o, <1>16, <2>4 DEF Remove, TypeOK
    <3>2. Inv(p)'
      BY <1>i, <2>1, <2>4, <3>1
      DEF Inv, Holds, ChildFits, TreeIsOwn, UnmountedFirst, ToolsTold, IsosAreOwn, FailsForAReason, Working, Trusted, Own, OwnOrStale, Filled
    <3> QED  BY <1>a, <2>1, <2>2, <3>2
  <2> QED  BY <2>3, <2>4
<1>17. ASSUME NEW p \in Instances, ToolBuilt(p) PROVE \A q \in Instances : Inv(q)'
  <2>1. at[p] \notin Outside
    BY <1>o, <1>i, <1>17 DEF ToolBuilt, ChildFits
  <2>2. \A q \in Instances \ {p} : UNCHANGED <<at[q], child[q], said[q]>>
    BY <1>o, <1>17 DEF ToolBuilt, TypeOK
  <2>3. CASE at[p] = "dead"
    <3>1. at'[p] = "off" /\ child'[p] = "none"
      BY <1>o, <1>17, <2>3 DEF ToolBuilt, TypeOK
    <3> QED  BY <1>a, <2>1, <2>2, <3>1, GoneInv
  <2>4. CASE at[p] # "dead"
    <3>1. /\ child[p] \in Tools /\ child'[p] = "none"
          /\ staged' = [staged EXCEPT ![child[p]] = no[p]]
          /\ UNCHANGED <<at[p], no[p], points[p], left[p], failed[p], untold[p], stale[p], ok[p], said[p], faulted[p], holder>>
          /\ UNCHANGED <<tree, mounts, conf, grub, output, dest>>
      BY <1>o, <1>17, <2>4 DEF ToolBuilt, TypeOK
    <3>2. Inv(p)'
      <4>1. Holds(p)' /\ ChildFits(p)'
        BY <1>i, <2>1, <2>4, <3>1 DEF Holds, ChildFits, Commands
      <4>2. TreeIsOwn(p)'
        BY <1>i, <2>1, <2>4, <3>1 DEF TreeIsOwn, Working, ChildFits
      <4>3. UnmountedFirst(p)'
        BY <1>i, <2>1, <2>4, <3>1 DEF UnmountedFirst, Trusted, ChildFits
      <4>0. \A t \in Tools : staged'[t] = IF t = child[p] THEN no[p] ELSE staged[t]
        BY <1>o, <3>1 DEF TypeOK
      <4>4. ToolsTold(p)'
        BY <1>i, <2>1, <2>4, <3>1, <4>0 DEF ToolsTold, ChildFits
      <4>5. IsosAreOwn(p)'
        BY <1>i, <2>1, <2>4, <3>1 DEF IsosAreOwn, Own, OwnOrStale, Filled, ToolsTold, ChildFits
      <4>6. FailsForAReason(p)'
        BY <1>i, <2>1, <2>4, <3>1 DEF FailsForAReason, UnmountedFirst, Trusted, ChildFits
      <4> QED  BY <4>1, <4>2, <4>3, <4>4, <4>5, <4>6 DEF Inv
    <3> QED  BY <1>a, <2>1, <2>2, <3>2
  <2> QED  BY <2>3, <2>4
<1>18. ASSUME NEW p \in Instances, ToolFails(p) PROVE \A q \in Instances : Inv(q)'
  <2>1. at[p] \notin Outside
    BY <1>o, <1>i, <1>18 DEF ToolFails, ChildFits
  <2>2. \A q \in Instances \ {p} : UNCHANGED <<at[q], child[q], said[q]>>
    BY <1>o, <1>18 DEF ToolFails, TypeOK
  <2>3. CASE at[p] = "dead"
    <3>1. at'[p] = "off" /\ child'[p] = "none"
      BY <1>o, <1>18, <2>3 DEF ToolFails, TypeOK
    <3> QED  BY <1>a, <2>1, <2>2, <3>1, GoneInv
  <2>4. CASE at[p] # "dead"
    <3>1. /\ child[p] \in Tools /\ child'[p] = "none"
          /\ failed'[p] = failed[p] \cup {child[p]}
          /\ UNCHANGED <<at[p], no[p], points[p], left[p], untold[p], stale[p], ok[p], said[p], faulted[p], holder>>
          /\ UNCHANGED <<tree, mounts, staged, conf, grub, output, dest>>
      BY <1>o, <1>18, <2>4 DEF ToolFails, TypeOK
    <3>2. Inv(p)'
      BY <1>i, <2>1, <2>4, <3>1
      DEF Inv, Holds, ChildFits, TreeIsOwn, UnmountedFirst, ToolsTold, IsosAreOwn, FailsForAReason, Working, Trusted, Own, OwnOrStale, Filled
    <3> QED  BY <1>a, <2>1, <2>2, <3>2
  <2> QED  BY <2>3, <2>4
<1>19. ASSUME NEW p \in Instances, Mounts(p) PROVE \A q \in Instances : Inv(q)'
  <2>1. at[p] \notin Outside
    BY <1>o, <1>i, <1>19 DEF Mounts, ChildFits
  <2>2. \A q \in Instances \ {p} : UNCHANGED <<at[q], child[q], said[q]>>
    BY <1>o, <1>19 DEF Mounts, TypeOK
  <2>3. /\ child[p] = "mkarchiso" /\ child'[p] = "chroot" /\ tree' = tree \cup {no[p]}
        /\ UNCHANGED <<at[p], no[p], points[p], left[p], failed[p], untold[p], stale[p], ok[p], said[p], faulted[p], holder>>
        /\ UNCHANGED <<staged, conf, grub, output, dest>>
    BY <1>o, <1>19 DEF Mounts, TypeOK
  <2>4. Inv(p)'
    BY <1>i, <2>1, <2>3
    DEF Inv, Holds, ChildFits, TreeIsOwn, UnmountedFirst, ToolsTold, IsosAreOwn, FailsForAReason, Working, Trusted, Own, OwnOrStale, Filled
  <2> QED  BY <1>a, <2>1, <2>2, <2>4
<1>20. ASSUME NEW p \in Instances, Unmounts(p) PROVE \A q \in Instances : Inv(q)'
  <2>1. at[p] \notin Outside
    BY <1>o, <1>i, <1>20 DEF Unmounts, ChildFits
  <2>2. \A q \in Instances \ {p} : UNCHANGED <<at[q], child[q], said[q]>>
    BY <1>o, <1>20 DEF Unmounts, TypeOK
  <2>3. /\ child[p] = "chroot" /\ child'[p] = "image" /\ mounts' = {}
        /\ UNCHANGED <<at[p], no[p], points[p], left[p], failed[p], untold[p], stale[p], ok[p], said[p], faulted[p], holder>>
        /\ UNCHANGED <<tree, staged, conf, grub, output, dest>>
    BY <1>o, <1>20 DEF Unmounts, TypeOK
  <2>4. Inv(p)'
    BY <1>i, <2>1, <2>3
    DEF Inv, Holds, ChildFits, TreeIsOwn, UnmountedFirst, ToolsTold, IsosAreOwn, FailsForAReason, Working, Trusted, Own, OwnOrStale, Filled
  <2> QED  BY <1>a, <2>1, <2>2, <2>4
<1>21. ASSUME NEW p \in Instances, Makes(p) PROVE \A q \in Instances : Inv(q)'
  <2>1. at[p] \notin Outside
    BY <1>o, <1>i, <1>21 DEF Makes, ChildFits
  <2>2. \A q \in Instances \ {p} : UNCHANGED <<at[q], child[q], said[q]>>
    BY <1>o, <1>21 DEF Makes, TypeOK
  <2>3. CASE at[p] = "dead"
    <3>1. at'[p] = "off" /\ child'[p] = "none"
      BY <1>o, <1>21, <2>3 DEF Makes, TypeOK
    <3> QED  BY <1>a, <2>1, <2>2, <3>1, GoneInv
  <2>4. CASE at[p] # "dead"
    <3>1. /\ child[p] = "image" /\ child'[p] = "none" /\ ok'[p]
          /\ \A iso \in output' : iso \in output \/ iso = Iso(p, TRUE)
          /\ UNCHANGED <<at[p], no[p], points[p], left[p], failed[p], untold[p], stale[p], said[p], faulted[p], holder>>
          /\ UNCHANGED <<tree, mounts, staged, conf, grub, dest>>
      BY <1>o, <1>21, <2>4 DEF Makes, TypeOK, Written
    <3>2. Inv(p)'
      <4>1. Holds(p)' /\ ChildFits(p)'
        BY <1>i, <2>1, <2>4, <3>1 DEF Holds, ChildFits, Commands
      <4>2. TreeIsOwn(p)'
        BY <1>i, <2>1, <2>4, <3>1 DEF TreeIsOwn, Working, ChildFits
      <4>3. UnmountedFirst(p)'
        BY <1>i, <2>1, <2>4, <3>1 DEF UnmountedFirst, Trusted, ChildFits
      <4>4. ToolsTold(p)'
        BY <1>i, <2>1, <2>4, <3>1 DEF ToolsTold, ChildFits
      <4>0. Own(p, Iso(p, TRUE))
        BY <1>i, <2>1, <2>4, <3>1 DEF Own, Iso, ToolsTold, ChildFits
      <4>5. IsosAreOwn(p)'
        BY <1>i, <2>1, <2>4, <3>1, <4>0 DEF IsosAreOwn, Own, OwnOrStale, Filled, ToolsTold, ChildFits
      <4>6. FailsForAReason(p)'
        BY <1>i, <2>1, <2>4, <3>1 DEF FailsForAReason, UnmountedFirst, Trusted, ChildFits
      <4> QED  BY <4>1, <4>2, <4>3, <4>4, <4>5, <4>6 DEF Inv
    <3> QED  BY <1>a, <2>1, <2>2, <3>2
  <2> QED  BY <2>3, <2>4
<1>22. ASSUME NEW p \in Instances, MakesNot(p) PROVE \A q \in Instances : Inv(q)'
  <2>1. at[p] \notin Outside
    BY <1>o, <1>i, <1>22 DEF MakesNot, ChildFits
  <2>2. \A q \in Instances \ {p} : UNCHANGED <<at[q], child[q], said[q]>>
    BY <1>o, <1>22 DEF MakesNot, TypeOK
  <2>3. CASE at[p] = "dead"
    <3>1. at'[p] = "off" /\ child'[p] = "none"
      BY <1>o, <1>22, <2>3 DEF MakesNot, TypeOK
    <3> QED  BY <1>a, <2>1, <2>2, <3>1, GoneInv
  <2>4. CASE at[p] # "dead"
    <3>1. /\ child[p] \in {"mkarchiso", "chroot", "image"} /\ child'[p] = "none" /\ ~ok'[p] /\ mounts' = {}
          /\ faulted[p] => faulted'[p]
          /\ faulted'[p] \/ conf # "clean" \/ ~grub
          /\ UNCHANGED <<at[p], no[p], points[p], left[p], failed[p], untold[p], stale[p], said[p], holder>>
          /\ UNCHANGED <<tree, staged, conf, grub, dest>>
      BY <1>o, <1>22, <2>4 DEF MakesNot, TypeOK
    <3>2. Inv(p)'
      BY <1>i, <2>1, <2>4, <3>1
      DEF Inv, Holds, ChildFits, TreeIsOwn, UnmountedFirst, ToolsTold, IsosAreOwn, FailsForAReason, Working, Trusted, Own, OwnOrStale, Filled
    <3> QED  BY <1>a, <2>1, <2>2, <3>2
  <2> QED  BY <2>3, <2>4
<1>23. ASSUME NEW p \in Instances, Copies(p) PROVE \A q \in Instances : Inv(q)'
  <2>1. at[p] \notin Outside
    BY <1>o, <1>i, <1>23 DEF Copies, ChildFits
  <2>2. \A q \in Instances \ {p} : UNCHANGED <<at[q], child[q], said[q]>>
    BY <1>o, <1>23 DEF Copies, TypeOK
  <2>3. CASE at[p] = "dead"
    <3>1. at'[p] = "off" /\ child'[p] = "none"
      BY <1>o, <1>23, <2>3 DEF Copies, TypeOK
    <3> QED  BY <1>a, <2>1, <2>2, <3>1, GoneInv
  <2>4. CASE at[p] # "dead"
    <3>1. /\ child[p] = "cp" /\ child'[p] = "none" /\ ok'[p] /\ dest' \in output
          /\ UNCHANGED <<at[p], no[p], points[p], left[p], failed[p], untold[p], stale[p], said[p], faulted[p], holder>>
          /\ UNCHANGED <<tree, mounts, staged, conf, grub, output>>
      BY <1>o, <1>23, <2>4 DEF Copies, TypeOK
    <3>2. Inv(p)'
      BY <1>i, <2>1, <2>4, <3>1
      DEF Inv, Holds, ChildFits, TreeIsOwn, UnmountedFirst, ToolsTold, IsosAreOwn, FailsForAReason, Working, Trusted, Own, OwnOrStale, Filled, Isos
    <3> QED  BY <1>a, <2>1, <2>2, <3>2
  <2> QED  BY <2>3, <2>4
<1>24. ASSUME NEW p \in Instances, CopyFails(p) PROVE \A q \in Instances : Inv(q)'
  <2>1. at[p] \notin Outside
    BY <1>o, <1>i, <1>24 DEF CopyFails, ChildFits
  <2>2. \A q \in Instances \ {p} : UNCHANGED <<at[q], child[q], said[q]>>
    BY <1>o, <1>24 DEF CopyFails, TypeOK
  <2>3. CASE at[p] = "dead"
    <3>1. at'[p] = "off" /\ child'[p] = "none"
      BY <1>o, <1>24, <2>3 DEF CopyFails, TypeOK
    <3> QED  BY <1>a, <2>1, <2>2, <3>1, GoneInv
  <2>4. CASE at[p] # "dead"
    <3>1. /\ child[p] = "cp" /\ child'[p] = "none" /\ ~ok'[p] /\ faulted'[p]
          /\ UNCHANGED <<at[p], no[p], points[p], left[p], failed[p], untold[p], stale[p], said[p], holder>>
          /\ UNCHANGED <<tree, mounts, staged, conf, grub, output, dest>>
      BY <1>o, <1>24, <2>4 DEF CopyFails, TypeOK
    <3>2. Inv(p)'
      BY <1>i, <2>1, <2>4, <3>1
      DEF Inv, Holds, ChildFits, TreeIsOwn, UnmountedFirst, ToolsTold, IsosAreOwn, FailsForAReason, Working, Trusted, Own, OwnOrStale, Filled
    <3> QED  BY <1>a, <2>1, <2>2, <3>2
  <2> QED  BY <2>3, <2>4
<1>25. ASSUME NEW p \in Instances, Kill(p) PROVE \A q \in Instances : Inv(q)'
  <2>1. at[p] \notin Outside
    BY <1>o, <1>i, <1>25 DEF Kill, ChildFits
  <2>2. \A q \in Instances \ {p} : UNCHANGED <<at[q], child[q], said[q]>>
    BY <1>o, <1>25 DEF Kill, TypeOK
  <2>3. \/ at'[p] = "off" /\ child'[p] = "none"
        \/ /\ at'[p] = "dead" /\ UNCHANGED <<child[p], no[p], faulted[p], holder>>
           /\ UNCHANGED <<tree, mounts, staged, conf, grub, dest>>
    BY <1>o, <1>25 DEF Kill, TypeOK
  <2>4. Inv(p)'
    BY <1>i, <2>1, <2>3, GoneInv
    DEF Inv, Holds, ChildFits, TreeIsOwn, UnmountedFirst, ToolsTold, IsosAreOwn, FailsForAReason, Working, Trusted, Own, OwnOrStale, Filled
  <2> QED  BY <1>a, <2>1, <2>2, <2>4
<1>27. ASSUME NEW p \in Instances, RemoveOutput(p) PROVE \A q \in Instances : Inv(q)'
  <2>1. at[p] \notin Outside
    BY <1>o, <1>i, <1>27 DEF RemoveOutput, ChildFits
  <2>2. \A q \in Instances \ {p} : UNCHANGED <<at[q], child[q], said[q]>>
    BY <1>o, <1>27 DEF RemoveOutput, TypeOK
  <2>3. CASE at[p] = "dead"
    <3>1. at'[p] = "off" /\ child'[p] = "none"
      BY <1>o, <1>27, <2>3 DEF RemoveOutput, TypeOK
    <3> QED  BY <1>a, <2>1, <2>2, <3>1, GoneInv
  <2>4. CASE at[p] # "dead"
    <3>1. /\ child[p] = "rm output" /\ child'[p] = "none" /\ output' \subseteq stale'[p]
          /\ UNCHANGED <<at[p], no[p], points[p], left[p], failed[p], untold[p], ok[p], said[p], faulted[p], holder>>
          /\ UNCHANGED <<tree, mounts, staged, conf, grub, dest>>
      BY <1>o, <1>27, <2>4 DEF RemoveOutput, TypeOK, Silent
    <3>2. Inv(p)'
      BY <1>i, <2>1, <2>4, <3>1
      DEF Inv, Holds, ChildFits, TreeIsOwn, UnmountedFirst, ToolsTold, IsosAreOwn, FailsForAReason, Working, Trusted, Own, OwnOrStale, Filled
    <3> QED  BY <1>a, <2>1, <2>2, <3>2
  <2> QED  BY <2>3, <2>4
<1>28. ASSUME NEW p \in Instances, PassedOver(p) PROVE \A q \in Instances : Inv(q)'
  <2>1. at[p] \notin Outside
    BY <1>o, <1>i, <1>28 DEF PassedOver, ChildFits
  <2>2. \A q \in Instances \ {p} : UNCHANGED <<at[q], child[q], said[q]>>
    BY <1>o, <1>28 DEF PassedOver, TypeOK
  <2>3. /\ at[p] = "tools" /\ child[p] = "none" /\ left[p] \subseteq left'[p] \cup untold'[p] /\ untold[p] \subseteq untold'[p]
        /\ UNCHANGED <<at[p], child[p], no[p], points[p], failed[p], stale[p], ok[p], said[p], faulted[p], holder>>
        /\ UNCHANGED <<tree, mounts, staged, conf, grub, output, dest>>
    <3>1. PICK ts \in SUBSET left[p] : /\ left' = [left EXCEPT ![p] = left[p] \ ts]
                                       /\ untold' = [untold EXCEPT ![p] = untold[p] \cup ts]
      BY <1>28 DEF PassedOver
    <3>2. left'[p] = left[p] \ ts /\ untold'[p] = untold[p] \cup ts
      BY <1>o, <3>1 DEF TypeOK
    <3>3. UNCHANGED faulted
      BY <1>28, Zenon DEF PassedOver, Silent
    <3> QED  BY <1>28, <3>2, <3>3 DEF PassedOver
  <2>4. Inv(p)'
    <3>1. Holds(p)' /\ ChildFits(p)'
      BY <1>i, <2>1, <2>3 DEF Holds, ChildFits, Commands
    <3>2. TreeIsOwn(p)'
      BY <1>i, <2>1, <2>3 DEF TreeIsOwn, Working, ChildFits
    <3>3. UnmountedFirst(p)'
      BY <1>i, <2>1, <2>3 DEF UnmountedFirst, Trusted, ChildFits
    <3>4. ToolsTold(p)'
      BY <1>i, <2>1, <2>3 DEF ToolsTold, ChildFits
    <3>5. IsosAreOwn(p)'
      BY <1>i, <2>1, <2>3 DEF IsosAreOwn, Own, OwnOrStale, Filled, ToolsTold, ChildFits
    <3>6. FailsForAReason(p)'
      BY <1>i, <2>1, <2>3 DEF FailsForAReason, UnmountedFirst, Trusted, ChildFits
    <3> QED  BY <3>1, <3>2, <3>3, <3>4, <3>5, <3>6 DEF Inv
  <2> QED  BY <1>a, <2>1, <2>2, <2>4
<1>26. CASE UNCHANGED vars
  BY <1>26, SameInv DEF vars, builders
<1> QED
  BY <1>1, <1>2, <1>3, <1>4, <1>5, <1>6, <1>7, <1>8, <1>9, <1>10, <1>11, <1>12, <1>13, <1>14, <1>15, <1>16, <1>17,
     <1>18, <1>19, <1>20, <1>21, <1>22, <1>23, <1>24, <1>25, <1>26, <1>27, <1>28
  DEF Next, Builder, Child

(* What rm goes through is mounted when it ends, and nothing is.            *)
LEMMA NextHarmless == IInv /\ [Next]_vars => Harmless'
<1> SUFFICES ASSUME IInv, [Next]_vars, "umount -l" \notin FaultAt PROVE harmed' = {}
  BY DEF Harmless
<1>1. harmed = {}
  BY DEF IInv, Harmless
<1>2. ASSUME NEW p \in Instances, Remove(p) PROVE harmed' = {}
  <2>1. mounts = {}
    BY <1>2 DEF IInv, Inv, UnmountedFirst, Trusted, Remove
  <2> QED  BY <1>1, <1>2, <2>1 DEF Remove
<1>3. ASSUME NEW p \in Instances, Builder(p) \/ Child(p) \/ Kill(p), ~Remove(p) PROVE UNCHANGED harmed
  BY <1>3 DEF Builder, Child, Start, Lock, Quit, Launch, Umount, Unmounted, Wiped, BuildTool, ToolsBuilt, Strip,
              Stripped, Grub, Built, Archive, Copied, ToolBuilt, ToolFails, Mounts, Unmounts, Makes, MakesNot, Copies,
              CopyFails, Kill, RemoveOutput, PassedOver, ChildStep, disk
<1> QED  BY <1>1, <1>2, <1>3 DEF Next, vars, disk

(* Every reachable state satisfies the inductive invariant. *)
THEOREM Invariant == Spec => []IInv
<1>1. IInv /\ [Next]_vars => IInv'
  <2> SUFFICES ASSUME IInv, [Next]_vars PROVE TypeOK' /\ Harmless' /\ \A p \in Instances : Inv(p)'
    BY DEF IInv
  <2> QED  BY NextTypeOK, NextHarmless, NextInv DEF IInv
<1> QED  BY <1>1, InitIInv, PTL DEF Spec

(* No two builders, and no builder beside what a killed one left running,   *)
(* ever have scratch; who works there works on its own build.              *)
THEOREM ScratchIsNotShared == Spec => []AloneInScratch
<1>1. ASSUME IInv PROVE AloneInScratch
  <2>1. ASSUME NEW p \in Instances, Working(p) PROVE tree = {no[p]}
    BY <1>1, <2>1 DEF IInv, Inv, TreeIsOwn
  <2>2. ASSUME NEW p \in Instances, NEW q \in Instances, p # q, child[p] # "none" PROVE child[q] = "none"
    <3>1. at[p] \notin Outside
      BY <1>1, <2>2, ToolsAssumption DEF IInv, TypeOK, Commands, Inv, ChildFits, Outside
    <3> QED  BY <1>1, <2>2, <3>1, OthersOutside
  <2> QED  BY <2>1, <2>2 DEF AloneInScratch
<1> QED  BY <1>1, Invariant, PTL

(* Whatever is killed when, rm -rf meets no mount, as long as umount -l     *)
(* does what it is asked.                                                  *)
THEOREM HostIsSafe == ASSUME "umount -l" \notin FaultAt PROVE Spec => []HostSafe
<1>1. IInv => HostSafe
  BY DEF IInv, Harmless, HostSafe
<1> QED  BY <1>1, Invariant, PTL

(* Success is said of a whole ISO of this very build, with the programs     *)
(* that it did not tell failed or pass over, or of one that rm left.        *)
THEOREM SuccessIsTrue == Spec => []SuccessIsThisBuild
<1>1. IInv => SuccessIsThisBuild
  BY DEF IInv, Inv, IsosAreOwn, Own, OwnOrStale, Filled, SuccessIsThisBuild
<1> QED  BY <1>1, Invariant, PTL

(* A build that fails had a call that failed, or pacman.conf cut short. *)
THEOREM FailuresHaveReasons == Spec => []CrashesAreSurvived
<1>1. IInv => CrashesAreSurvived
  BY DEF IInv, Inv, FailsForAReason, CrashesAreSurvived
<1> QED  BY <1>1, Invariant, PTL
================================================================================
