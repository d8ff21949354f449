------------------------------- MODULE FileJobs -------------------------------
(***************************************************************************)
(* syn-shell's file jobs (FileJobs.cpp, the Linux side) and the commands   *)
(* and undo stack that drive them (MainWindowFiles.cpp).  Every job runs   *)
(* on a thread of its own, one system call to a step, against a file       *)
(* system other jobs use too; any call may fail, and the user may cancel   *)
(* at any time.                                                            *)
(*                                                                         *)
(* copyTree and removeTree recurse; here a job keeps a stack of visits     *)
(* still to be made.  A false return always comes with an error added or   *)
(* a cancel seen, and a cancel seen unwinds the whole recursion, so "ok"   *)
(* holds what the outermost call is going to return.                       *)
(***************************************************************************)
EXTENDS FileTree, TLC

CONSTANTS
  Tree,        \* [Paths -> what is there at first]; a file's inode is its identity
  TrashDirs,   \* the top folders that are the files/ of some trash
  TrashOf,     \* [top folders -> TrashDirs]: trashFor, the home trash if need be
  Commands,    \* what the user may ask for: [op, args, dest]
  Slots,       \* 1..n: jobs started in one behaviour, at most
  Together,    \* pairs of them: one may be given while the other is carried out
  FaultKinds,  \* the calls that may fail
  MaxFaults    \* how many may, in one behaviour

ASSUME PlacesAssumption ==
  /\ Tree \in [Paths -> {NoEnt, Dir} \cup Inodes]
  /\ \A p, q \in Paths : /\ IsStrictPrefix(p, q) /\ Tree[q] # NoEnt => Tree[p] = Dir
                         /\ Tree[p] \in Inodes /\ Tree[p] = Tree[q] => p = q
  /\ IsFiniteSet(Paths) /\ IsFiniteSet(Slots) /\ Slots \subseteq Nat
  /\ \A t \in TrashDirs : <<t>> \in Paths
  /\ <<"">> \notin Paths
  /\ MaxFaults \in Nat
ASSUME CommandsAssumption ==
  \A c \in Commands : /\ c.op \in {"copy", "move", "trash", "remove", "restore", "empty"}
                      /\ c.args \in Seq(Paths) /\ c.dest \in Paths \cup {<<>>}
                      /\ c.op \in {"copy", "move", "empty"} => c.dest # <<>>
                      /\ c.op = "empty" => c.args = <<>> /\ c.dest \in {<<t>> : t \in TrashDirs}
                      /\ c.op = "restore" => Range(c.args) \subseteq {p \in Paths : Len(p) = 2 /\ Head(p) \in TrashDirs}

VARIABLES
  fs,      \* [Paths -> NoEnt, Dir or an inode]
  disk,    \* [Inodes -> [1..Chunks -> data]], 0 where nothing was written
  info,    \* [trashed paths -> original path]: the .trashinfo files; <<>> if none, or Blank
  job,     \* [Slots -> job records]
  undo,    \* m_undo, a sequence of steps
  faults,  \* the failures so far: n of them, and what is left of clean-ups that failed
  spent    \* files the user gave up: deleted for good, or replaced on request

filesVars == <<fs, disk, info, job, undo, faults, spent>>

MaxUndo == 50

Blank == <<"">>   \* a .trashinfo nothing could be written to: no Path in it

Trashed == {p \in Paths : Len(p) = 2 /\ Head(p) \in TrashDirs}
Files == {Tree[p] : p \in Paths} \ {NoEnt, Dir}

Pair(a, b) == [from |-> a, to |-> b]
NoStep == [kind |-> "none", pairs |-> <<>>, was |-> {}, clean |-> FALSE]

(* A visit: copyTree ("copy"), copyFileChunked ("write"), removeTree on the *)
(* way in ("rm"), and what either does on the way out of a folder.          *)
Visit(do, a, b) == [do |-> do, a |-> a, b |-> b, in |-> 0, out |-> 0, k |-> 0]
Visits(do, s, a, b) == [i \in DOMAIN s |-> Visit(do, s[i], IF do = "copy" THEN Rebase(s[i], a, b) ELSE <<>>)]

Fresh == [op |-> "none", at |-> "unused", todo |-> <<>>, later |-> <<>>, dest |-> <<>>,
          policy |-> "KeepBoth", cur |-> Pair(<<>>, <<>>), stack |-> <<>>, ok |-> TRUE,
          errs |-> FALSE, cancel |-> FALSE, out |-> <<>>, step |-> NoStep,
          args |-> <<>>, had |-> {}, honest |-> TRUE, was |-> {}]

FilesInit == /\ fs = Tree
             /\ disk = [i \in Inodes |-> [k \in 1..Chunks |-> IF i \in Files THEN i ELSE 0]]
             /\ info = [p \in Trashed |-> <<>>]
             /\ job = [j \in Slots |-> Fresh]
             /\ undo = <<>>
             /\ faults = [n |-> 0, half |-> {}, records |-> {}]
             /\ spent = {}

-------------------------------------------------------------------------------
(* Helpers of the steps.                                                   *)

Over(r, s) == [x \in DOMAIN r \cup DOMAIN s |-> IF x \in DOMAIN r THEN r[x] ELSE s[x]]
Put(j, r) == [job EXCEPT ![j] = Over(r, @)]
Top(j) == Head(job[j].stack)
Rest(j) == Tail(job[j].stack)
At(j, stage) == job[j].at = stage
Doing(j, do) == job[j].stack # <<>> /\ Top(j).do = do /\ ~job[j].cancel

Active(j) == job[j].at \notin {"unused", "ended"}
Quiet == \A j \in Slots : ~Active(j)

(* A call fails.  Nobody looks at what some calls return: then the data of *)
(* a half file stays, or a record does, or it stays blank, and only here    *)
(* is it noted which.                                                      *)
FaultLeaving(kind, half, records) ==
  /\ kind \in FaultKinds
  /\ faults.n < MaxFaults
  /\ faults' = [n |-> faults.n + 1, half |-> faults.half \cup half, records |-> faults.records \cup records]
Fault(kind) == FaultLeaving(kind, {}, {})

(* A call that fails when it must, or because the system says so. *)
Fails(kind, must) == IF must THEN UNCHANGED faults ELSE Fault(kind)
Works(must) == ~must /\ UNCHANGED faults

(* The inodes nothing refers to; a new file takes one of them. *)
FreeInodes ==
  LET held == UNION {{v.in, v.out} : v \in UNION {Range(job[j].stack) : j \in Slots}}
  IN {i \in Inodes : i \notin held /\ \A p \in Paths : fs[p] # i}

Whole(p, f) == fs[p] \in Inodes /\ disk[fs[p]] = [k \in 1..Chunks |-> f]
Kept == {f \in Files : \E p \in Paths : Whole(p, f)}

(* What the user sees outside the trash. *)
View == {<<p, IF fs[p] = Dir THEN <<>> ELSE disk[fs[p]]>> :
            p \in {q \in Paths : fs[q] # NoEnt /\ Head(q) \notin TrashDirs}}

-------------------------------------------------------------------------------
(* copyTree and copyFileChunked, one visit at a time.                      *)

(* A visit is over: on to the next, with an error or without. *)
Pop(j) == job' = Put(j, [stack |-> Rest(j)])

(* Mutated form of PopFailed: the error is listed, but true is returned. *)
PopForgiven(j) == job' = Put(j, [stack |-> Rest(j), errs |-> TRUE])
PopFailed(j) == job' = Put(j, [stack |-> Rest(j), ok |-> FALSE, errs |-> TRUE])

CopyDir(j) ==
  /\ Doing(j, "copy")
  /\ LET v == Top(j)
         there == IF IsFile(fs, v.b) THEN Unlink(fs, v.b) ELSE fs
         must == v.b \notin Paths \/ ~CanMkPath(there, v.b)
         kids == KidsIn(fs, v.a)
     IN /\ IsDir(fs, v.a)
        /\ \/ /\ Works(must)
              /\ fs' = MkPath(there, v.b)
              /\ job' = Put(j, [stack |-> Visits("copy", kids, v.a, v.b)
                                          \o <<Visit("leave", v.a, v.b)>> \o Rest(j)])
           \/ /\ ~IsDir(there, v.b)
              /\ Fails("mkdir", must)
              /\ fs' = there
              /\ PopFailed(j)
  /\ UNCHANGED <<disk, info, undo>>

(* After the last entry only the cancel flag is looked at. *)
LeaveDir(j) == /\ Doing(j, "leave")
               /\ Pop(j)
               /\ UNCHANGED <<fs, disk, info, undo, faults>>

(* Open both ends; the target is truncated, or created. *)
OpenFile(j) ==
  /\ Doing(j, "copy")
  /\ LET v == Top(j)
         must == IsDir(fs, v.b) \/ ~HasDir(fs, v.b) \/ (~IsFile(fs, v.b) /\ FreeInodes = {})
         i == IF IsFile(fs, v.b) THEN fs[v.b] ELSE CHOOSE n \in FreeInodes : TRUE
     IN /\ IsFile(fs, v.a)
        /\ \/ /\ Works(must)
              /\ fs' = [fs EXCEPT ![v.b] = i]
              /\ disk' = [disk EXCEPT ![i] = [k \in 1..Chunks |-> 0]]
              /\ job' = Put(j, [stack |-> <<[v EXCEPT !.do = "write", !.in = fs[v.a],
                                                      !.out = i, !.k = 1]>> \o Rest(j)])
           \/ /\ Fails("open", must)
              /\ PopFailed(j)
              /\ UNCHANGED <<fs, disk>>
  /\ UNCHANGED <<info, undo>>

(* Neither a link, a folder nor a file: refused. *)
CopyNothing(j) == /\ Doing(j, "copy")
                  /\ ~Exists(fs, Top(j).a)
                  /\ PopFailed(j)
                  /\ UNCHANGED <<fs, disk, info, undo, faults>>

(* Mutated form of RemoveTarget: the half file stays. *)
KeepTarget(b) == UNCHANGED fs

(* QFile::remove(dst), whose answer is not looked at: it may fail too.     *)
RemoveTarget(b) == fs' = IF IsFile(fs, b) THEN Unlink(fs, b) ELSE fs
TargetStays(b, kind) == /\ "unlink" \in FaultKinds /\ IsFile(fs, b)
                        /\ FaultLeaving(kind, {disk[fs[b]]}, {})
                        /\ UNCHANGED fs

(* A chunk across.  The tail, shorter than QFile's buffer, is only handed  *)
(* to the system when close() flushes, and a flush that fails then is not  *)
(* reported.  A write that fails in the open is: the target is removed, or *)
(* stays, when the drive that fails takes both calls with it.              *)
WriteChunk(j) ==
  /\ Doing(j, "write")
  /\ LET v == Top(j)
         next == IF v.k = Chunks THEN Rest(j) ELSE <<[v EXCEPT !.k = @ + 1]>> \o Rest(j)
     IN \/ /\ \E flushed \in BOOLEAN :
                IF flushed
                THEN /\ disk' = [disk EXCEPT ![v.out][v.k] = disk[v.in][v.k]]
                     /\ UNCHANGED faults
                ELSE /\ v.k = Chunks /\ Fault("flush")
                     /\ UNCHANGED disk
           /\ job' = Put(j, [stack |-> next])
           /\ UNCHANGED fs
        \/ /\ \/ Fault("write") /\ RemoveTarget(v.b)
              \/ TargetStays(v.b, "write")
           /\ PopFailed(j)
           /\ UNCHANGED disk
  /\ UNCHANGED <<info, undo>>

(* removeTree: a folder's entries are listed when it is reached, the folder *)
(* itself goes after them, and an entry that stays does not stop the rest.  *)
EnterDir(j) ==
  /\ Doing(j, "rm")
  /\ IsDir(fs, Top(j).a)
  /\ job' = Put(j, [stack |-> Visits("rm", KidsIn(fs, Top(j).a), <<>>, <<>>)
                              \o <<Visit("rmdir", Top(j).a, <<>>)>> \o Rest(j)])
  /\ UNCHANGED <<fs, disk, info, undo, faults>>

RemoveEntry(j) ==
  /\ \/ Doing(j, "rm") /\ ~IsDir(fs, Top(j).a)
     \/ Doing(j, "rmdir")
  /\ LET a == Top(j).a
         must == IF Top(j).do = "rm" THEN ~Exists(fs, a)
                 ELSE ~IsDir(fs, a) \/ KidsIn(fs, a) # <<>>
     IN \/ /\ Works(must)
           /\ fs' = Unlink(fs, a)
           /\ Pop(j)
        \/ /\ Fails("unlink", must)
           /\ PopFailed(j)
           /\ UNCHANGED fs
  /\ UNCHANGED <<disk, info, undo>>

(* A visit that finds the cancel flag set returns false, and so does every *)
(* call above it; a half-written file is removed on the way.               *)
SeeCancel(j) ==
  /\ job[j].cancel
  /\ job[j].stack # <<>>
  /\ IF Top(j).do = "write"
     THEN \/ RemoveTarget(Top(j).b) /\ UNCHANGED faults
          \/ TargetStays(Top(j).b, "unlink")
     ELSE UNCHANGED <<fs, faults>>
  /\ job' = Put(j, [stack |-> <<>>, ok |-> FALSE])
  /\ UNCHANGED <<disk, info, undo>>

TreeStep(j) == \/ CopyDir(j) \/ LeaveDir(j) \/ OpenFile(j) \/ CopyNothing(j)
               \/ WriteChunk(j) \/ EnterDir(j) \/ RemoveEntry(j) \/ SeeCancel(j)

-------------------------------------------------------------------------------
(* The calls themselves: an item at a time off the front of todo.          *)

(* Give the caller the pair, remembering whether it told the truth: all    *)
(* that was under "from" when the item was taken up is under "to".         *)
Holds(data, tree, p, had) == had \subseteq Contents(tree, data, p)
Report(j, tree, stage) ==
  Put(j, [at |-> stage, out |-> Append(job[j].out, job[j].cur),
          honest |-> job[j].honest /\ (job[j].op \notin {"remove", "empty"} =>
                        Holds(disk, tree, job[j].cur.to, job[j].had))])

Error(j, stage) == job' = Put(j, [at |-> stage, errs |-> TRUE])
Walk(j, stage, do) ==
  Put(j, [at |-> stage, ok |-> TRUE,
          stack |-> <<Visit(do, IF stage \in {"clearing", "unwinding"} THEN job[j].cur.to
                                ELSE job[j].cur.from, job[j].cur.to)>>])

(* copy() measures and checks the space first, move() only what it has to  *)
(* copy after all.                                                         *)
Measure(j) ==
  /\ At(j, "space") \/ At(j, "measure")
  /\ \/ /\ job' = IF At(j, "space") THEN Put(j, [at |-> "next"])
                  ELSE Put(j, [at |-> "next2", todo |-> job[j].later, later |-> <<>>])
        /\ UNCHANGED faults
     \/ Fault("space") /\ Error(j, "returned")
  /\ UNCHANGED <<fs, disk, info, undo>>

(* The item loops end with their list or on a cancel. *)
LoopOver(j) ==
  /\ At(j, "next") \/ At(j, "next2")
  /\ job[j].todo = <<>> \/ job[j].cancel
  /\ job' = Put(j, [at |-> IF At(j, "next") /\ job[j].later # <<>> THEN "measure"
                           ELSE IF job[j].op = "remove" THEN "forget" ELSE "returned"])
  /\ UNCHANGED <<fs, disk, info, undo, faults>>

Taking(j, ops) == /\ At(j, "next") /\ job[j].op \in ops
                  /\ job[j].todo # <<>> /\ ~job[j].cancel
Item(j) == Head(job[j].todo)

(* The item is off the list and on its way from a to b. *)
Taken(j, a, b) == [todo |-> Tail(job[j].todo), cur |-> Pair(a, b), ok |-> TRUE,
                   had |-> Contents(fs, disk, a)]

Skip(j, failed) == job' = Put(j, [todo |-> Tail(job[j].todo), errs |-> job[j].errs \/ failed])

(* destinationFor: where src lands; none at all to skip it. *)
Named(j, src) == Append(job[j].dest, Last(src))

(* Mutated form of Destinations: nobody looks what is there. *)
DestinationsUnseen(j, src) == {Named(j, src)}
Destinations(j, src) ==
  IF Parent(src) = job[j].dest \/ ~Exists(fs, Named(j, src)) \/ job[j].policy = "KeepBoth"
  THEN FreeNames(fs, Named(j, src))
  ELSE IF job[j].policy = "Replace" THEN {Named(j, src)} ELSE {}
Skips(j, src) == /\ Parent(src) # job[j].dest
                 /\ Exists(fs, Named(j, src)) /\ job[j].policy = "Skip"

TransferItem(j) ==
  /\ Taking(j, {"copy", "move"})
  /\ LET src == Item(j).from
     IN \/ Skips(j, src) /\ Skip(j, FALSE) /\ UNCHANGED fs
        \/ \E dst \in Destinations(j, src) :
             LET replace == Exists(fs, dst)
                 go(at, stack) == job' = Put(j, Over([at |-> at, stack |-> stack], Taken(j, src, dst)))
             IN IF job[j].op = "copy"
                THEN /\ fs' = IF IsFile(fs, dst) /\ IsDir(fs, src) THEN Unlink(fs, dst) ELSE fs
                     /\ go("copying", <<Visit("copy", src, dst)>>)
                ELSE /\ UNCHANGED fs
                     /\ IF replace /\ ~(IsDir(fs, src) /\ IsDir(fs, dst))
                        THEN go("clearing", <<Visit("rm", dst, <<>>)>>)
                        ELSE go("rename", <<>>)
  /\ UNCHANGED <<disk, info, undo, faults>>

(* moveBack: to where it came from, or a free name beside it. *)
MoveBackItem(j) ==
  /\ Taking(j, {"moveBack"})
  /\ LET pr == Item(j)
     IN IF ~Exists(fs, pr.to) THEN Skip(j, TRUE) /\ UNCHANGED fs
        ELSE /\ fs' = IF CanMkPath(fs, Parent(pr.from)) THEN MkPath(fs, Parent(pr.from)) ELSE fs
             /\ \E back \in FreeNames(fs, pr.from) :
                  job' = Put(j, Over([at |-> "rename"], Taken(j, pr.to, back)))
  /\ UNCHANGED <<disk, info, undo, faults>>

RemoveItem(j) ==
  /\ Taking(j, {"remove", "empty"})
  /\ Item(j).from # <<>>
  /\ job' = Put(j, Over([at |-> "removing", stack |-> <<Visit("rm", Item(j).from, <<>>)>>],
                        Taken(j, Item(j).from, <<>>)))
  /\ UNCHANGED <<fs, disk, info, undo, faults>>

(* emptyTrash: remove() of what is in files/ of the home trash, dest here,  *)
(* and then of what is in info/, both as listed at first.                  *)
ListTrash(j) ==
  /\ At(j, "list")
  /\ LET records == SetToSeq({p \in Kids[job[j].dest] : info[p] # <<>>})
     IN job' = Put(j, [at |-> "next",
                       todo |-> [i \in DOMAIN KidsIn(fs, job[j].dest) |-> Pair(KidsIn(fs, job[j].dest)[i], <<>>)]
                                \o [i \in DOMAIN records |-> Pair(<<>>, records[i])]])
  /\ UNCHANGED <<fs, disk, info, undo, faults>>
RemoveRecord(j) ==
  /\ Taking(j, {"empty"})
  /\ Item(j).from = <<>>
  /\ \/ /\ Works(info[Item(j).to] = <<>>)
        /\ info' = [info EXCEPT ![Item(j).to] = <<>>]
        /\ Skip(j, FALSE)
     \/ /\ Fails("unlink", info[Item(j).to] = <<>>)
        /\ Skip(j, TRUE)
        /\ UNCHANGED info
  /\ UNCHANGED <<fs, disk, undo>>

(* trash: the name is reserved by creating its .trashinfo exclusively; its  *)
(* write and its close are not looked at.                                  *)
TrashItem(j) ==
  /\ Taking(j, {"trash"})
  /\ LET p == Item(j).from
         own == <<TrashOf[Head(p)], Last(p)>>
     IN \/ \E q \in FirstOpen(own, {r \in Trashed : fs[r] = NoEnt /\ info[r] = <<>>}) :
             /\ \/ info' = [info EXCEPT ![q] = p] /\ UNCHANGED faults
                \/ info' = [info EXCEPT ![q] = Blank] /\ FaultLeaving("record", {}, {q})
             /\ job' = Put(j, Over([at |-> "rename"], Taken(j, p, q)))
        \/ Fault("reserve") /\ Skip(j, TRUE) /\ UNCHANGED info
  /\ UNCHANGED <<fs, disk, undo>>

(* originalPath: where it came from, if its record says. *)
Restorable(t) == info[t] \notin {<<>>, Blank}
RestoreItem(j) ==
  /\ Taking(j, {"restore"})
  /\ LET t == Item(j).from
     IN IF ~Restorable(t) THEN Skip(j, TRUE) /\ UNCHANGED fs
        ELSE /\ fs' = IF CanMkPath(fs, Parent(info[t])) THEN MkPath(fs, Parent(info[t])) ELSE fs
             /\ \E back \in FreeNames(fs, info[t]) :
                  job' = Put(j, Over([at |-> "rename"], Taken(j, t, back)))
  /\ UNCHANGED <<disk, info, undo, faults>>

(* Mutated form of Forget: the .trashinfo is left behind. *)
ForgetNothing(p) == UNCHANGED <<info, faults>>

(* QFile::remove of a record, whose answer is not looked at. *)
Forget(p) == \/ info' = [info EXCEPT ![p] = <<>>] /\ UNCHANGED faults
             \/ info[p] # <<>> /\ FaultLeaving("unlink", {}, {p}) /\ UNCHANGED info

(* renameRaw, and what each caller makes of its errno. *)
CrossesOver(j, err) == err = "EXDEV" \/ (err = "ENOTEMPTY" /\ job[j].op = "move")
Rename(j) ==
  /\ At(j, "rename")
  /\ LET c == job[j].cur
         err == RenameErr(fs, c.from, c.to)
     IN \/ /\ err = "ok"
           /\ fs' = Renamed(fs, c.from, c.to)
           /\ job' = Report(j, fs', "next")
           /\ IF job[j].op = "restore" THEN Forget(c.from) ELSE UNCHANGED <<info, faults>>
        \/ /\ CrossesOver(j, err)
           /\ job' = IF job[j].op = "move"
                     THEN Put(j, [at |-> "next", later |-> Append(job[j].later, c)])
                     ELSE Walk(j, "copying", "copy")
           /\ UNCHANGED <<fs, info, faults>>
        \/ /\ ~CrossesOver(j, err)
           /\ Fails("rename", err # "ok")
           /\ Error(j, IF job[j].op = "trash" THEN "unrecord" ELSE "next")
           /\ UNCHANGED <<fs, info>>
  /\ UNCHANGED <<disk, undo>>

(* move's second loop: what could not be renamed. *)
CopyAcross(j) ==
  /\ At(j, "next2") /\ job[j].todo # <<>> /\ ~job[j].cancel
  /\ LET pr == Item(j)
     IN job' = Put(j, Over([at |-> "copying", stack |-> <<Visit("copy", pr.from, pr.to)>>],
                           Taken(j, pr.from, pr.to)))
  /\ UNCHANGED <<fs, disk, info, undo, faults>>

WalkDone(j, stage) == At(j, stage) /\ job[j].stack = <<>>

Cleared(j) == /\ WalkDone(j, "clearing")
              /\ job' = Put(j, [at |-> "rename"])
              /\ UNCHANGED <<fs, disk, info, undo, faults>>

(* trash undoes its copy unless it was cancelled, then drops the record. *)
GiveUpTrash(j) == job' = IF job[j].cancel THEN Put(j, [at |-> "unrecord"])
                         ELSE Walk(j, "unwinding", "rm")

(* Mutated form of CopyIsWhole: having come back is enough. *)
CopyCameBack(j) == job[j].at = "copying"
CopyIsWhole(j) == job[j].ok

Copied(j) ==
  /\ WalkDone(j, "copying")
  /\ LET op == job[j].op
         whole == CopyIsWhole(j)
     IN CASE op = "copy" -> job' = IF whole THEN Report(j, fs, "next") ELSE Put(j, [at |-> "next"])
          [] whole /\ op # "copy" -> job' = Walk(j, "removing", "rm")
          [] ~whole /\ op = "move" -> job' = Put(j, [at |-> "next2"])
          [] ~whole /\ op = "moveBack" -> job' = Report(j, fs, "next")
          [] ~whole /\ op = "trash" -> GiveUpTrash(j)
          [] ~whole /\ op = "restore" -> Error(j, "next")
  /\ UNCHANGED <<fs, disk, info, undo, faults>>

(* move and moveBack do not look at what removeTree returned. *)
Removed(j) ==
  /\ WalkDone(j, "removing")
  /\ LET op == job[j].op
         same == UNCHANGED <<info, faults>>
     IN CASE op = "move" -> job' = Report(j, fs, "next2") /\ same
          [] op = "moveBack" -> job' = Report(j, fs, "next") /\ same
          [] op \in {"remove", "empty", "trash"} /\ job[j].ok -> job' = Report(j, fs, "next") /\ same
          [] op \in {"remove", "empty"} /\ ~job[j].ok -> job' = Put(j, [at |-> "next"]) /\ same
          [] op = "trash" /\ ~job[j].ok -> GiveUpTrash(j) /\ same
          [] op = "restore" /\ job[j].ok -> job' = Report(j, fs, "next") /\ Forget(job[j].cur.from)
          [] op = "restore" /\ ~job[j].ok -> Error(j, "next") /\ same
  /\ UNCHANGED <<fs, disk, undo>>

Unwound(j) == /\ WalkDone(j, "unwinding")
              /\ job' = Put(j, [at |-> "unrecord"])
              /\ UNCHANGED <<fs, disk, info, undo, faults>>

Unrecord(j) == /\ At(j, "unrecord")
               /\ Forget(job[j].cur.to)
               /\ Error(j, "next")
               /\ UNCHANGED <<fs, disk, undo>>

(* deletePermanently: the records go for every path asked for; some may *)
(* stay, all for the one failure of their folder.                          *)
ForgetDeleted(j) ==
  /\ At(j, "forget")
  /\ \E stays \in SUBSET {p \in Trashed : info[p] # <<>> /\ p \in Range(job[j].args)} :
       /\ IF stays = {} THEN UNCHANGED faults ELSE FaultLeaving("unlink", {}, stays)
       /\ info' = [p \in Trashed |-> IF p \in Range(job[j].args) \ stays THEN <<>> ELSE info[p]]
  /\ job' = Put(j, [at |-> "returned"])
  /\ UNCHANGED <<fs, disk, undo>>

CallStep(j) == \/ Measure(j) \/ LoopOver(j) \/ TransferItem(j) \/ MoveBackItem(j)
               \/ RemoveItem(j) \/ ListTrash(j) \/ RemoveRecord(j) \/ TrashItem(j) \/ RestoreItem(j) \/ Rename(j)
               \/ CopyAcross(j) \/ Cleared(j) \/ Copied(j) \/ Removed(j)
               \/ Unwound(j) \/ Unrecord(j) \/ ForgetDeleted(j)

(* What the step may destroy: anything in a deletion; in a replacement that *)
(* was chosen, anything but what is itself being copied or moved.          *)
Consented(j) ==
  CASE job[j].op \in {"remove", "empty"} -> Files
    [] job[j].policy = "Replace" /\ job[j].at # "removing" ->
         {f \in Files : \A p \in Paths : IsPrefix(job'[j].cur.from, p) => ~Whole(p, f)}
    [] OTHER -> {}
WorkerStep(j) == /\ TreeStep(j) \/ CallStep(j)
                 /\ spent' = spent \cup ((Kept \ Kept') \cap Consented(j))

-------------------------------------------------------------------------------
(* The user's side, on the UI thread.                                      *)

Free(j) == /\ job[j].at = "unused"
           /\ \A i \in Slots : i < j => job[i].at # "unused"

FirstStage(op) == CASE op = "copy" -> "space" [] op = "empty" -> "list" [] OTHER -> "next"

(* askTransfer: nothing goes into itself or is moved to where it is, and    *)
(* what already has the name is asked about.                                *)
Refused(c) == \E p \in Range(c.args) : \/ (IsDir(fs, p) /\ IsPrefix(p, c.dest))
                                       \/ (c.op = "move" /\ Parent(p) = c.dest)
Clash(c) == \E p \in Range(c.args) : /\ Parent(p) # c.dest
                                     /\ Exists(fs, Append(c.dest, Last(p)))
Policies(c) == IF c.op \in {"copy", "move"} /\ Clash(c)
               THEN {"Replace", "KeepBoth", "Skip"} ELSE {"KeepBoth"}

(* Every job has a thread of its own, so commands and undos may overlap:   *)
(* the code forbids no pair, and Together bounds those looked at.  An undo *)
(* is known by its call alone.                                             *)
Asked(i) == [op |-> job[i].op, args |-> job[i].args, dest |-> job[i].dest]
Beside(c) == \A i \in Slots : Active(i) => {c, Asked(i)} \in Together
Command(j, c) ==
  /\ Free(j)
  /\ Beside(c)
  /\ \A p \in Range(c.args) : fs[p] # NoEnt
  /\ c.op \in {"copy", "move"} => fs[c.dest] = Dir /\ ~Refused(c)
  /\ \E policy \in Policies(c) :
       job' = Put(j, [op |-> c.op, at |-> FirstStage(c.op), args |-> c.args, dest |-> c.dest,
                      policy |-> policy, was |-> View,
                      todo |-> [i \in DOMAIN c.args |-> Pair(c.args[i], <<>>)]])
  /\ UNCHANGED <<fs, disk, info, undo, faults, spent>>

(* Mutated form of UndoOp: what was moved is treated as what was copied. *)
UndoOpMixedUp(kind) == IF kind = "trash" THEN "restore" ELSE "trash"
UndoOp(kind) == CASE kind = "trash" -> "restore" [] kind = "move" -> "moveBack"
                  [] kind = "copy" -> "trash"

(* Ctrl+Z takes the last step off and runs its opposite as a job. *)
Undo(j) ==
  /\ Free(j)
  /\ undo # <<>>
  /\ LET step == Last(undo)
         op == UndoOp(step.kind)
         arg(p) == IF op = "moveBack" THEN p ELSE Pair(p.to, <<>>)
     IN /\ Beside([op |-> op, args |-> <<>>, dest |-> <<>>])
        /\ job' = Put(j, [op |-> op, at |-> "next", step |-> step,
                          todo |-> [i \in DOMAIN step.pairs |-> arg(step.pairs[i])]])
  /\ undo' = Front(undo)
  /\ UNCHANGED <<fs, disk, info, faults, spent>>

Cancel(j) == /\ Active(j)
             /\ ~job[j].cancel
             /\ job' = Put(j, [cancel |-> TRUE])
             /\ UNCHANGED <<fs, disk, info, undo, faults, spent>>

Clean(j) == ~job[j].cancel /\ ~job[j].errs

(* pushUndo keeps the last MaxUndo steps. *)
Pushed(s) == IF Len(undo) < MaxUndo THEN Append(undo, s) ELSE Append(Tail(undo), s)

(* The done callback: what happened can be undone; an undo that brought    *)
(* nothing back, and did not end well, goes back on the stack.             *)
Callback(j) ==
  /\ At(j, "returned")
  /\ job' = Put(j, [at |-> "ended"])
  /\ undo' = IF job[j].step.kind = "none"
             THEN IF job[j].op \in {"copy", "move", "trash"} /\ job[j].out # <<>>
                  THEN Pushed([kind |-> job[j].op, pairs |-> job[j].out,
                               was |-> job[j].was, clean |-> Clean(j)])
                  ELSE undo
             ELSE IF job[j].out = <<>> /\ ~Clean(j) THEN Append(undo, job[j].step) ELSE undo
  /\ UNCHANGED <<fs, disk, info, faults, spent>>

FilesNext == \E j \in Slots : \/ WorkerStep(j) \/ Callback(j) \/ Cancel(j) \/ Undo(j)
                              \/ \E c \in Commands : Command(j, c)

FilesSpec == FilesInit /\ [][FilesNext]_filesVars

-------------------------------------------------------------------------------
(* PROPERTIES                                                              *)

FilesTypeOK == /\ fs \in [Paths -> {NoEnt, Dir} \cup Inodes]
               /\ disk \in [Inodes -> [1..Chunks -> Files \cup {0}]]
               /\ \A p \in Trashed : info[p] \in Paths \cup {<<>>, Blank}
               /\ \A j \in Slots : /\ job[j].at \in {"unused", "space", "list", "next", "next2", "rename", "measure",
                                                     "clearing", "copying", "removing", "unwinding",
                                                     "unrecord", "forget", "returned", "ended"}
                                   /\ job[j].stack # <<>> =>
                                        job[j].at \in {"clearing", "copying", "removing", "unwinding"}
               /\ faults \in [n : 0..MaxFaults, half : SUBSET [1..Chunks -> Files \cup {0}], records : SUBSET Trashed]
               /\ spent \subseteq Files

(* Every file the user did not delete for good or have replaced has a      *)
(* whole copy somewhere, at every moment: "the original removed only once  *)
(* its copy is whole" (FileJobs.h:9), in spite of failures and cancels.    *)
NothingLost == Files \subseteq Kept \cup spent

(* Once nothing is running there is no half file under any name: "never    *)
(* leave a half file under the real name" (FileJobs.cpp:247), "Cancelling  *)
(* never leaves a half-copied file behind" (syn-shell.md:156), but for one  *)
(* whose removal failed, or a whole copy of such a one.                    *)
NoHalfFile == Quiet => \A p \in Paths : IsFile(fs, p) => \/ \E f \in Files : Whole(p, f)
                                                       \/ disk[fs[p]] \in faults.half

(* Once nothing is running, what is in the trash has a .trashinfo that says *)
(* where it came from and every .trashinfo has its file, so it can be       *)
(* restored, unless emptying the trash, or deleting from it, was cancelled  *)
(* or failed on something; a record that could not be written or removed,   *)
(* which the code does not notice, spoils that name only.                   *)
HalfDeleted == \E j \in Slots : /\ ~Clean(j)
                                /\ \/ job[j].op = "empty"
                                   \/ job[j].op = "remove" /\ Range(job[j].args) \cap Trashed # {}
TrashHasRecords == Quiet /\ ~HalfDeleted => \A p \in Trashed \ faults.records :
                                        /\ fs[p] # NoEnt <=> info[p] # <<>>
                                        /\ fs[p] # NoEnt => Restorable(p)

(* A command that says it put something somewhere did: "Every call returns *)
(* what went where (Pair from -> to), which is what undo [is] built from"  *)
(* (FileJobs.h:15).                                                        *)
CommandsReportTruly == \A j \in Slots : job[j].op # "moveBack" => job[j].honest

(* A command that ended well and an undo that ended well, with no other job *)
(* before, between or beside them, leave the user's folders as they were:   *)
(* "Undo covers the trash, moves, copies (the copies go to the trash)"      *)
(* (MainWindowFiles.cpp:10).                                                *)
UndoPutsBack ==
  \A j \in Slots : (/\ At(j, "ended") /\ Clean(j)
                    /\ job[j].step.kind # "none" /\ job[j].step.clean
                    /\ \A i \in Slots \ {j - 1, j} : job[i].at = "unused")
                   => View = job[j].step.was

===============================================================================
