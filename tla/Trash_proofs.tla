----------------------------- MODULE Trash_proofs -----------------------------
(***************************************************************************)
(* Proofs about syn-shell's trash and its records (FileJobs), for any      *)
(* tree, drives, commands and number of jobs, on top of the invariant of   *)
(* Jobs_proofs.                                                            *)
(*                                                                         *)
(* That a trashed file and its record go together is not inductive: while  *)
(* a file is on its way into the trash its record is there alone, and      *)
(* while a deletion runs its records outlast its files.  So the invariant  *)
(* says which places a job has in hand just then and what is left to do    *)
(* about them (Booked), and that no other job, list or step of the undo    *)
(* stack names a place in a trash but by its record (AllAway).             *)
(***************************************************************************)
EXTENDS Jobs_proofs

(* What is assumed.  Nothing is pasted into a trash, and what is in one is *)
(* only restored, copied or deleted; the top folders, which are homes and  *)
(* drives, are not moved, and none that is a trash is deleted; and at      *)
(* first every trash is empty, of files as it is of records.               *)
Aside(p) == p = <<>> \/ (Len(p) > 1 /\ Head(p) \notin TrashDirs)
NoTrash(p) == Len(p) > 1 \/ Head(p) \notin TrashDirs
TrashLeftAlone ==
  /\ \A c \in Commands : /\ c.op \in {"copy", "move"} => Head(c.dest) \notin TrashDirs
                         /\ c.op \in {"move", "trash"} => \A p \in Range(c.args) : Aside(p)
                         /\ c.op = "remove" => \A p \in Range(c.args) : NoTrash(p)
  /\ \A p \in Trashed : Tree[p] = NoEnt

(* What a call takes from somewhere, or puts somewhere, is in no trash,    *)
(* unless it is what the call is for.                                      *)
TakesAside == {"move", "moveBack", "trash"}
PutsAside == {"copy", "move", "moveBack", "restore"}
Away(op, i) == (op \in TakesAside => Aside(i.from)) /\ (op \in PutsAside => Aside(i.to))
StepAway(s) == \A i \in DOMAIN s.pairs : Away(s.kind, s.pairs[i])

(* What a deletion is to delete.                                           *)
Doomed(r) == CASE r.op = "remove" -> Range(r.args) [] r.op = "empty" -> Kids[r.dest] [] OTHER -> {}
JobAway(r) ==
  /\ \A i \in Range(r.todo) \cup Range(r.later) \cup {r.cur} : /\ Away(r.op, i)
                                                               /\ Deletes(r) => {i.from, i.to} \subseteq Doomed(r) \cup {<<>>}
  /\ r.op \in {"copy", "move", "trash"} => \A i \in Range(r.out) : Away(r.op, i)
  /\ r.op \in {"copy", "move"} => Head(r.dest) \notin TrashDirs
  /\ \A p \in Doomed(r) : NoTrash(p)
  /\ StepAway(r.step)
  /\ r.op \in {"trash", "restore"} => /\ r.at \notin {"copying", "removing", "unwinding"}
                                      /\ r.at = "rename" => VolumeOf(r.cur.from) = VolumeOf(r.cur.to)
(* A record names a place outside, on the drive of the trash, unless it is *)
(* one that could not be written.                                          *)
RecordsAway == \A p \in Trashed : /\ Restorable(p) => Aside(info[p]) /\ VolumeOf(info[p]) = VolumeOf(p)
                                  /\ info[p] = Blank => p \in faults.records

(* The trashed places a job has in hand: the name it has reserved, and     *)
(* what it is to delete.  For those it knows what is left to do.           *)
Filling(r) == r.op = "trash" /\ r.at \in {"rename", "unrecord"}
Emptying(r) == Deletes(r) /\ r.at \in {"next", "removing", "forget"}
InTheHandsOf(r) == IF Filling(r) THEN {r.cur.to} ELSE IF Emptying(r) THEN Doomed(r) ELSE {}
ToGo(r, p) == \/ r.at # "forget" /\ \E i \in Range(r.todo) : i.from = p
              \/ r.at = "removing" /\ \E v \in Range(r.stack) : v.a = p
Tidy(t, rec, r) ==
  /\ Filling(r) => t[r.cur.to] = NoEnt /\ rec[r.cur.to] # <<>>
  /\ Emptying(r) => \A p \in Doomed(r) \cap Trashed :
                      /\ t[p] # NoEnt => ToGo(r, p)
                      /\ r.op = "empty" /\ rec[p] # <<>> => Pair(<<>>, p) \in Range(r.todo)
Matched(t, rec, spoilt, p) == p \in spoilt \/ ((t[p] # NoEnt) <=> (rec[p] # <<>>))
Booked == /\ \A p \in Trashed : Matched(fs, info, faults.records, p) \/ \E j \in Slots : p \in InTheHandsOf(job[j])
          /\ \A j \in Slots : Tidy(fs, info, job[j])

AllAway == RecordsAway /\ (\A s \in Range(undo) : StepAway(s)) /\ \A j \in Slots : JobAway(job[j])
TInv == Core /\ AllAway /\ (~HalfDeleted => Booked)

-------------------------------------------------------------------------------
(* What a trash holds, and the steps that leave that alone.                *)

(* Records stay as they are, or go.                                        *)
LEMMA RecordsStay ==
  ASSUME Grows, RecordsAway, \A p \in Trashed : info'[p] \in {info[p], <<>>}
  PROVE  RecordsAway'
<1> SUFFICES ASSUME NEW p \in Trashed
             PROVE  /\ Restorable(p)' => Aside(info'[p]) /\ VolumeOf(info'[p]) = VolumeOf(p)
                    /\ info'[p] = Blank => p \in faults'.records
  BY DEF RecordsAway
<1>1. Blank # <<>>
  BY DEF Blank
<1>2. CASE info'[p] = <<>>
  BY <1>1, <1>2 DEF Restorable
<1>3. CASE info'[p] = info[p]
  BY <1>3 DEF RecordsAway, Restorable, Grows
<1> QED  BY <1>2, <1>3

(* Of two paths, one around the other, both are under the same top folder. *)
LEMMA SameTop ==
  ASSUME NEW s \in Words, NEW t \in Words, Len(s) # 0, IsPrefix(s, t)
  PROVE  Head(s) = Head(t) /\ Len(t) # 0
<1>1. Len(s) \in Nat /\ Len(t) \in Nat /\ Len(s) <= Len(t) /\ \A i \in 1 .. Len(s) : s[i] = t[i]
  BY PrefixIs DEF Words
<1>2. s[1] = t[1] /\ Len(t) # 0
  BY <1>1
<1> QED  BY <1>2

LEMMA TrashedAre == \A p \in Trashed : p \in Paths /\ p \in Words /\ p # <<>> /\ Len(p) = 2 /\ Head(p) \in TrashDirs
<1> TAKE p \in Trashed
<1> QED  BY PathsAreWords, PathsAssumption DEF Trashed

LEMMA AsideIs ==
  ASSUME NEW p \in Paths, Aside(p)
  PROVE  Head(p) \notin TrashDirs /\ Len(p) > 1 /\ NoTrash(p) /\ p \notin Trashed
BY TrashedAre, PathsAssumption DEF Aside, NoTrash

(* A path outside is not around anything trashed, nor below it.            *)
LEMMA OutsideTrash ==
  ASSUME NEW x \in Words, Len(x) # 0, Head(x) \notin TrashDirs, NEW p \in Trashed
  PROVE  ~IsPrefix(x, p) /\ ~IsPrefix(p, x)
<1>1. p \in Words /\ Len(p) = 2 /\ Head(p) \in TrashDirs
  BY TrashedAre
<1> QED  BY <1>1, SameTop

(* What is around something trashed, but is no trash, is the thing itself. *)
LEMMA AroundTrashed ==
  ASSUME NEW x \in Paths, NoTrash(x), NEW p \in Trashed, IsPrefix(x, p)
  PROVE  x = p
<1>1. x \in Words /\ Len(x) \in Nat \ {0} /\ p \in Words /\ Len(p) = 2
  BY PathsAreWords, TrashedAre
<1>2. Len(x) > 1
  BY <1>1, OutsideTrash DEF NoTrash
<1>3. Len(x) <= Len(p)
  BY <1>1, PrefixIs
<1>4. Len(x) = Len(p)
  BY <1>1, <1>2, <1>3
<1> QED  BY <1>1, <1>4, PrefixOrder

(* What is in each trash stays: nothing comes, nothing goes.               *)
TrashStays == \A p \in Trashed : fs'[p] # NoEnt <=> fs[p] # NoEnt

LEMMA StaysWorking ==
  ASSUME NEW b \in Words, Len(b) # 0, Head(b) \notin TrashDirs, WorksAt(b)
  PROVE  TrashStays
<1> SUFFICES ASSUME NEW p \in Trashed PROVE fs'[p] # NoEnt <=> fs[p] # NoEnt
  BY DEF TrashStays
<1>1. p \in Paths /\ p # b /\ ~IsPrefix(p, b)
  <2>1. p \in Paths /\ Head(p) \in TrashDirs
    BY TrashedAre
  <2> QED  BY <2>1, OutsideTrash
<1> QED  BY <1>1 DEF WorksAt

LEMMA StaysUnlinking ==
  ASSUME NEW q, Head(q) \notin TrashDirs, TreeOK(fs), fs' = Unlink(fs, q)
  PROVE  TrashStays
<1>1. \A p \in Trashed : p \in Paths /\ p # q
  BY TrashedAre
<1> QED  BY <1>1 DEF TrashStays, Unlink, TreeOK

(* Where something goes back to. *)
LEMMA StaysGoingBack ==
  ASSUME Core, NEW p \in Paths, Aside(p), fs' = IF CanMkPath(fs, Parent(p)) THEN MkPath(fs, Parent(p)) ELSE fs
  PROVE  TrashStays
<1> DEFINE d == Parent(p)
<1>1. d \in Words /\ IsPrefix(d, p) /\ Len(d) = Len(p) - 1 /\ p \in Words /\ Len(p) > 1
  BY ParentIs, AsideIs, PathsAreWords
<1>2. Len(d) # 0 /\ Head(d) = Head(p)
  BY <1>1, SameTop DEF Words
<1>3. Head(d) \notin TrashDirs
  BY <1>2, AsideIs
<1>4. TreeOK(fs) /\ (fs' = fs \/ (CanMkPath(fs, d) /\ fs' = MkPath(fs, d)))
  BY DEF Core
<1> HIDE DEF d
<1>5. CASE fs' = fs
  BY <1>5 DEF TrashStays
<1>6. CASE CanMkPath(fs, d) /\ fs' = MkPath(fs, d)
  <2>1. \A q \in Paths : fs'[q] # fs[q] => IsPrefix(q, d)
    BY <1>1, <1>4, <1>6, MkPathIs
  <2>2. \A q \in Trashed : q \in Paths /\ ~IsPrefix(q, d)
    BY <1>1, <1>2, <1>3, TrashedAre, OutsideTrash
  <2> QED  BY <2>1, <2>2 DEF TrashStays
<1> QED  BY <1>4, <1>5, <1>6

(* A rename of anything but a trash. *)
LEMMA TrashRenamed ==
  ASSUME Core, NEW a \in Paths, NEW b \in Paths, NoTrash(a), NoTrash(b), RenameErr(fs, a, b) = "ok", fs' = Renamed(fs, a, b), a # b
  PROVE  /\ \A p \in Trashed : p # a /\ p # b => fs'[p] = fs[p]
         /\ fs'[b] # NoEnt /\ (a \in Trashed => fs'[a] = NoEnt)
<1>1. /\ \A q \in Paths : ~IsPrefix(a, q) /\ ~IsPrefix(b, q) => fs'[q] = fs[q]
      /\ \A q \in Paths : IsPrefix(a, q) /\ fs[q] # NoEnt => fs'[Rebase(q, a, b)] = fs[q]
      /\ \A q \in Paths : IsPrefix(a, q) /\ ~IsPrefix(b, q) => fs'[q] = NoEnt
      /\ fs[a] # NoEnt
  BY RenamedIs DEF Core
<1>2. a \in Words /\ b \in Words
  BY PathsAreWords
<1>3. IsPrefix(a, a) /\ Rebase(a, a, b) = b
  BY <1>2, PrefixOrder, RebaseThere
<1>4. ASSUME NEW p \in Trashed, p # a, p # b PROVE fs'[p] = fs[p]
  <2>1. p \in Paths /\ ~IsPrefix(a, p) /\ ~IsPrefix(b, p)
    BY <1>4, TrashedAre, AroundTrashed
  <2> QED  BY <1>1, <2>1
<1>5. a \in Trashed => ~IsPrefix(b, a)
  BY AroundTrashed
<1> QED  BY <1>1, <1>3, <1>4, <1>5

LEMMA StaysRenaming ==
  ASSUME Core, NEW a \in Paths, NEW b \in Paths, Aside(a), Aside(b), RenameErr(fs, a, b) = "ok", fs' = Renamed(fs, a, b)
  PROVE  TrashStays
<1>1. NoTrash(a) /\ NoTrash(b) /\ a \notin Trashed /\ b \notin Trashed
  BY AsideIs
<1>2. \A q \in Paths : ~IsPrefix(a, q) /\ ~IsPrefix(b, q) => fs'[q] = fs[q]
  BY RenamedIs DEF Core
<1>3. \A p \in Trashed : p \in Paths /\ ~IsPrefix(a, p) /\ ~IsPrefix(b, p)
  BY <1>1, TrashedAre, AroundTrashed
<1> QED  BY <1>2, <1>3 DEF TrashStays

-------------------------------------------------------------------------------
(* A job goes on with its call.                                            *)

(* A job goes on with its call: what it is asked to do stays, and an error  *)
(* stays listed.                                                           *)
GoesOn(j) == /\ NoOther(j) /\ SameBut(job'[j], job[j], Moving)
             /\ job[j].errs => job'[j].errs
LEMMA PutGoesOn ==
  ASSUME Core, NEW j \in Slots, NEW r, job' = Put(j, r), DOMAIN r \subseteq Moving, "errs" \in DOMAIN r => (job[j].errs => r.errs)
  PROVE  GoesOn(j)
<1>1. DOMAIN r \subseteq Fields /\ Moving \subseteq Fields /\ "errs" \in Fields
  BY DEF Fields, Moving
<1>2. NoOther(j) /\ SameBut(job'[j], job[j], DOMAIN r) /\ \A x \in DOMAIN r : job'[j][x] = r[x]
  BY <1>1, PutCore
<1>3. SameBut(job'[j], job[j], Moving)
  BY <1>2 DEF SameBut
<1>4. job[j].errs => job'[j].errs
  <2>1. CASE "errs" \in DOMAIN r
    BY <1>2, <2>1
  <2>2. CASE "errs" \notin DOMAIN r
    BY <1>1, <1>2, <2>2 DEF SameBut
  <2> QED  BY <2>1, <2>2
<1> QED  BY <1>2, <1>3, <1>4 DEF GoesOn

(* The ways a step of a call puts its job.                                 *)
LEMMA WaysOn ==
  ASSUME Core, NEW j \in Slots
  PROVE  /\ \A stage : job' = Put(j, [at |-> stage]) \/ Error(j, stage) => GoesOn(j)
         /\ \A failed : Skip(j, failed) => GoesOn(j)
         /\ \A stage, st, a, b : Goes(j, stage, st, a, b) => GoesOn(j)
         /\ \A a, b : GoesToRename(j, a, b) => GoesOn(j)
         /\ \A stage, do : job' = Walk(j, stage, do) => GoesOn(j)
         /\ \A stage, tree : job' = Report(j, tree, stage) => GoesOn(j)
         /\ \A stage, todo : job' = Put(j, [at |-> stage, todo |-> todo]) => GoesOn(j)
         /\ \A stage, todo, later : job' = Put(j, [at |-> stage, todo |-> todo, later |-> later]) => GoesOn(j)
         /\ \A stage, later : job' = Put(j, [at |-> stage, later |-> later]) => GoesOn(j)
         /\ \A st : job' = Put(j, [stack |-> st]) => GoesOn(j)
         /\ Pop(j) \/ PopFailed(j) \/ SeeCancel(j) => GoesOn(j)
<1> DEFINE Ways == {"at", "stack", "todo", "later", "cur", "ok", "had", "out", "honest"}
<1>0. ASSUME NEW r, job' = Put(j, r), DOMAIN r \subseteq Ways PROVE GoesOn(j)
  <2>1. DOMAIN r \subseteq Moving /\ "errs" \notin DOMAIN r
    BY <1>0 DEF Moving
  <2> QED  BY <1>0, <2>1, PutGoesOn
<1>1. ASSUME NEW stage, job' = Put(j, [at |-> stage]) PROVE GoesOn(j)
  <2> DEFINE r == [at |-> stage]
  <2>1. DOMAIN r \subseteq Ways /\ job' = Put(j, r)
    BY <1>1
  <2> HIDE DEF r, Ways
  <2> QED  BY <1>0, <2>1
<1>2. ASSUME NEW stage, Error(j, stage) PROVE GoesOn(j)
  <2> DEFINE r == [at |-> stage, errs |-> TRUE]
  <2>1. DOMAIN r \subseteq Moving /\ job' = Put(j, r) /\ r.errs
    BY <1>2 DEF Error, Moving
  <2> HIDE DEF r
  <2> QED  BY <2>1, PutGoesOn
<1>3. ASSUME NEW failed, Skip(j, failed) PROVE GoesOn(j)
  <2> DEFINE r == [todo |-> Tail(job[j].todo), errs |-> job[j].errs \/ failed]
  <2>1. DOMAIN r \subseteq Moving /\ job' = Put(j, r) /\ (job[j].errs => r.errs)
    BY <1>3 DEF Skip, Moving
  <2> HIDE DEF r
  <2> QED  BY <2>1, PutGoesOn
<1>4. ASSUME NEW stage, NEW st, NEW a, NEW b, Goes(j, stage, st, a, b) PROVE GoesOn(j)
  <2> DEFINE r == Over([at |-> stage, stack |-> st], Taken(j, a, b))
  <2>1. DOMAIN r \subseteq Ways /\ job' = Put(j, r)
    BY <1>4 DEF Goes, Over, Taken
  <2> HIDE DEF r, Ways
  <2> QED  BY <1>0, <2>1
<1>5. ASSUME NEW a, NEW b, GoesToRename(j, a, b) PROVE GoesOn(j)
  <2> DEFINE r == Over([at |-> "rename"], Taken(j, a, b))
  <2>1. DOMAIN r \subseteq Ways /\ job' = Put(j, r)
    BY <1>5 DEF GoesToRename, Over, Taken
  <2> HIDE DEF r, Ways
  <2> QED  BY <1>0, <2>1
<1>6. ASSUME NEW stage, NEW do, job' = Walk(j, stage, do) PROVE GoesOn(j)
  <2> DEFINE r == [at |-> stage, ok |-> TRUE,
                   stack |-> <<Visit(do, IF stage \in {"clearing", "unwinding"} THEN job[j].cur.to ELSE job[j].cur.from, job[j].cur.to)>>]
  <2>1. DOMAIN r \subseteq Ways /\ job' = Put(j, r)
    BY <1>6 DEF Walk
  <2> HIDE DEF r, Ways
  <2> QED  BY <1>0, <2>1
<1>7. ASSUME NEW stage, NEW tree, job' = Report(j, tree, stage) PROVE GoesOn(j)
  <2> DEFINE r == [at |-> stage, out |-> Append(job[j].out, job[j].cur), honest |-> Told(j, tree)]
  <2>1. DOMAIN r \subseteq Ways /\ job' = Put(j, r)
    BY <1>7 DEF Report, Told
  <2> HIDE DEF r, Ways
  <2> QED  BY <1>0, <2>1
<1>8. ASSUME NEW stage, NEW todo, job' = Put(j, [at |-> stage, todo |-> todo]) PROVE GoesOn(j)
  <2> DEFINE r == [at |-> stage, todo |-> todo]
  <2>1. DOMAIN r \subseteq Ways /\ job' = Put(j, r)
    BY <1>8
  <2> HIDE DEF r, Ways
  <2> QED  BY <1>0, <2>1
<1>9. ASSUME NEW stage, NEW todo, NEW later, job' = Put(j, [at |-> stage, todo |-> todo, later |-> later]) PROVE GoesOn(j)
  <2> DEFINE r == [at |-> stage, todo |-> todo, later |-> later]
  <2>1. DOMAIN r \subseteq Ways /\ job' = Put(j, r)
    BY <1>9
  <2> HIDE DEF r, Ways
  <2> QED  BY <1>0, <2>1
<1>10. ASSUME NEW stage, NEW later, job' = Put(j, [at |-> stage, later |-> later]) PROVE GoesOn(j)
  <2> DEFINE r == [at |-> stage, later |-> later]
  <2>1. DOMAIN r \subseteq Ways /\ job' = Put(j, r)
    BY <1>10
  <2> HIDE DEF r, Ways
  <2> QED  BY <1>0, <2>1
<1>11. ASSUME NEW st, job' = Put(j, [stack |-> st]) PROVE GoesOn(j)
  <2> DEFINE r == [stack |-> st]
  <2>1. DOMAIN r \subseteq Ways /\ job' = Put(j, r)
    BY <1>11
  <2> HIDE DEF r, Ways
  <2> QED  BY <1>0, <2>1
<1>12. ASSUME PopFailed(j) PROVE GoesOn(j)
  <2> DEFINE r == [stack |-> Rest(j), ok |-> FALSE, errs |-> TRUE]
  <2>1. DOMAIN r \subseteq Moving /\ job' = Put(j, r) /\ r.errs
    BY <1>12 DEF PopFailed, Moving
  <2> HIDE DEF r
  <2> QED  BY <2>1, PutGoesOn
<1>13. ASSUME SeeCancel(j) PROVE GoesOn(j)
  <2> DEFINE r == [stack |-> <<>>, ok |-> FALSE]
  <2>1. DOMAIN r \subseteq Ways /\ job' = Put(j, r)
    BY <1>13 DEF SeeCancel
  <2> HIDE DEF r, Ways
  <2> QED  BY <1>0, <2>1
<1>14. Pop(j) => GoesOn(j)
  BY <1>11 DEF Pop
<1> QED  BY <1>1, <1>2, <1>3, <1>4, <1>5, <1>6, <1>7, <1>8, <1>9, <1>10, <1>11, <1>12, <1>13, <1>14

LEMMA TreeGoesOn == ASSUME Core, NEW j \in Slots, TreeStep(j) PROVE GoesOn(j)
<1>1. \/ Pop(j) \/ PopFailed(j) \/ SeeCancel(j)
      \/ \E s : job' = Put(j, [stack |-> s])
  BY Zenon DEF TreeStep, CopyDir, LeaveDir, OpenFile, CopyNothing, WriteChunk, EnterDir, RemoveEntry
<1> QED  BY <1>1, WaysOn

-------------------------------------------------------------------------------
(* What a step has to keep of the trash.                                   *)

LEMMA SameCall ==
  ASSUME NEW n, NEW r, SameBut(n, r, Moving)
  PROVE  n.op = r.op /\ n.dest = r.dest /\ n.args = r.args /\ n.step = r.step /\ n.cancel = r.cancel /\ n.policy = r.policy
         /\ Doomed(n) = Doomed(r) /\ (Deletes(n) <=> Deletes(r))
BY DEF SameBut, Fields, Moving, Doomed, Deletes

(* What was half deleted stays so. *)
LEMMA StaysHalf ==
  ASSUME NEW j \in Slots, GoesOn(j)
  PROVE  HalfDeleted => HalfDeleted'
<1>1. job'[j].op = job[j].op /\ job'[j].args = job[j].args /\ job'[j].cancel = job[j].cancel
  BY SameCall DEF GoesOn
<1>2. \A i \in Slots : i # j => job'[i] = job[i]
  BY DEF GoesOn, NoOther
<1> QED  BY <1>1, <1>2 DEF HalfDeleted, Clean, GoesOn

(* A deletion that is not through is clean, or nothing is asked of it.     *)
LEMMA DeletionClean ==
  ASSUME NEW j \in Slots, ~HalfDeleted, NEW p \in Trashed, p \in Doomed(job[j])
  PROVE  ~job[j].cancel /\ ~job[j].errs
<1>1. job[j].op = "empty" \/ (job[j].op = "remove" /\ p \in Range(job[j].args))
  BY DEF Doomed
<1> QED  BY <1>1 DEF HalfDeleted, Clean

LEMMA DeletionCleanAfter ==
  ASSUME NEW j \in Slots, ~HalfDeleted', NEW p \in Trashed, p \in Doomed(job'[j])
  PROVE  ~job'[j].cancel /\ ~job'[j].errs
<1>1. job'[j].op = "empty" \/ (job'[j].op = "remove" /\ p \in Range(job'[j].args))
  BY DEF Doomed
<1> QED  BY <1>1 DEF HalfDeleted, Clean

(* The lists get shorter, the item in hand goes into one or is a new one.  *)
LEMMA AwayKept ==
  ASSUME NEW r, NEW n, JobAway(r), SameBut(n, r, Moving),
         Range(n.todo) \subseteq Range(r.todo) \cup Range(r.later), Range(n.later) \subseteq Range(r.later) \cup {r.cur},
         n.cur = r.cur \/ (Away(r.op, n.cur) /\ (Deletes(r) => {n.cur.from, n.cur.to} \subseteq Doomed(r) \cup {<<>>})),
         r.op \in {"copy", "move", "trash"} => Range(n.out) \subseteq Range(r.out) \cup {r.cur},
         r.op \in {"trash", "restore"} => n.at \notin {"copying", "removing", "unwinding"}
                                          /\ (n.at = "rename" => VolumeOf(n.cur.from) = VolumeOf(n.cur.to))
  PROVE  JobAway(n)
<1>1. n.op = r.op /\ n.dest = r.dest /\ n.args = r.args /\ n.step = r.step /\ Doomed(n) = Doomed(r) /\ (Deletes(n) <=> Deletes(r))
  BY SameCall
<1>2. \A i \in Range(n.todo) \cup Range(n.later) \cup {n.cur} : Away(n.op, i) /\ (Deletes(n) => {i.from, i.to} \subseteq Doomed(n) \cup {<<>>})
  BY <1>1 DEF JobAway
<1>3. n.op \in {"copy", "move", "trash"} => \A i \in Range(n.out) : Away(n.op, i)
  BY <1>1 DEF JobAway
<1> QED  BY <1>1, <1>2, <1>3 DEF JobAway

(* Only the job that takes the step has anything in hand.                  *)
LEMMA OthersIdle ==
  ASSUME Core, NEW j \in Slots, Active(j), NoOther(j)
  PROVE  \A i \in Slots : i # j => job'[i] = job[i] /\ job[i].at \in {"unused", "ended"}
                                   /\ InTheHandsOf(job[i]) = {} /\ \A t, rec : Tidy(t, rec, job[i])
<1>1. \A i \in Slots : i # j => job'[i] = job[i] /\ job[i].at \in {"unused", "ended"}
  BY DEF Core, NoOther, Active
<1> QED  BY <1>1 DEF InTheHandsOf, Tidy, Filling, Emptying

Settled(n) == \A p \in Trashed : Matched(fs', info', faults'.records, p) \/ p \in InTheHandsOf(n)
LEMMA TrashKept ==
  ASSUME Grows, TInv, Core', NEW j \in Slots, Active(j), GoesOn(j), UNCHANGED undo, RecordsAway', JobAway(job'[j]),
         ~HalfDeleted' /\ ~HalfDeleted /\ Booked => Tidy(fs', info', job'[j]) /\ Settled(job'[j])
  PROVE  TInv'
<1>1. Core /\ NoOther(j) /\ AllAway
  BY DEF TInv, GoesOn
<1>2. \A i \in Slots : i # j => job'[i] = job[i] /\ \A t, rec : Tidy(t, rec, job[i])
  BY <1>1, OthersIdle
<1>3. AllAway'
  BY <1>1, <1>2 DEF AllAway
<1>4. ASSUME ~HalfDeleted' PROVE Booked'
  <2>1. ~HalfDeleted /\ Booked
    BY <1>4, StaysHalf DEF TInv
  <2>2. Tidy(fs', info', job'[j]) /\ Settled(job'[j])
    BY <1>4, <2>1
  <2>3. \A i \in Slots : Tidy(fs', info', job'[i])
    BY <1>2, <2>2
  <2> QED  BY <2>2, <2>3 DEF Booked, Settled, Matched, Grows
<1> QED  BY <1>3, <1>4 DEF TInv

(* A step of a job that has nothing trashed in hand, before it or after,    *)
(* and by which nothing comes into a trash or goes out.                    *)
HandsOff(r) == ~Filling(r) /\ ~Emptying(r)
LEMMA MatchedBefore ==
  ASSUME Core, Booked, NEW j \in Slots, Active(j), NoOther(j), NEW p \in Trashed, p \notin InTheHandsOf(job[j])
  PROVE  Matched(fs, info, faults.records, p)
<1>1. \A i \in Slots : p \notin InTheHandsOf(job[i])
  BY OthersIdle
<1> QED  BY <1>1 DEF Booked

LEMMA TrashUntouched ==
  ASSUME Grows, TInv, Core', NEW j \in Slots, Active(j), GoesOn(j), UNCHANGED <<undo, info>>, TrashStays, JobAway(job'[j]),
         HandsOff(job[j]), HandsOff(job'[j])
  PROVE  TInv'
<1>1. RecordsAway'
  BY DEF TInv, AllAway, RecordsAway, Restorable, Grows
<1>2. Tidy(fs', info', job'[j])
  BY DEF HandsOff, Tidy
<1>3. ASSUME Booked PROVE Settled(job'[j])
  <2>1. \A p \in Trashed : Matched(fs, info, faults.records, p)
    <3> TAKE p \in Trashed
    <3>1. p \notin InTheHandsOf(job[j])
      BY DEF HandsOff, InTheHandsOf
    <3> QED  BY <1>3, <3>1, MatchedBefore DEF TInv, GoesOn
  <2> QED  BY <2>1 DEF Matched, Grows, TrashStays, Settled
<1> QED  BY <1>1, <1>2, <1>3, TrashKept

(* What every step of a call starts from.                                  *)
LEMMA TrashFrom ==
  ASSUME TInv, NEW j \in Slots, job[j].at # "unused", job[j].at # "ended"
  PROVE  /\ Core /\ Active(j) /\ JobOK(job[j]) /\ JobAway(job[j]) /\ TreeOK(fs) /\ RecordsAway
         /\ job[j].todo \in Seq(AllPairs) /\ job[j].later \in Seq(FullPairs)
         /\ job[j].at \notin Walking => job[j].stack = <<>>
<1>1. Core /\ Active(j) /\ JobAway(job[j]) /\ RecordsAway
  BY DEF TInv, AllAway, Active
<1>2. JobOK(job[j]) /\ TreeOK(fs)
  BY <1>1 DEF Core
<1> QED  BY <1>1, <1>2 DEF JobOK, VisitsOK

(* A step that takes the first item off the list. *)
LEMMA ItemAway ==
  ASSUME NEW r, JobAway(r), r.todo \in Seq(AllPairs), r.todo # <<>>
  PROVE  /\ Away(r.op, Head(r.todo)) /\ (Deletes(r) => {Head(r.todo).from, Head(r.todo).to} \subseteq Doomed(r) \cup {<<>>})
         /\ Range(Tail(r.todo)) \subseteq Range(r.todo) /\ Range(r.todo) = {Head(r.todo)} \cup Range(Tail(r.todo))
<1>1. Head(r.todo) \in Range(r.todo) /\ Range(r.todo) = {Head(r.todo)} \cup Range(Tail(r.todo))
  BY SeqParts
<1> QED  BY <1>1 DEF JobAway

-------------------------------------------------------------------------------
(* The steps of a walk, and what they name.                                *)

(* The walks.                                                              *)
LEMMA WalkAway ==
  ASSUME TInv, NEW j \in Slots, TreeStep(j)
  PROVE  /\ Core /\ Active(j) /\ GoesOn(j) /\ JobAway(job'[j]) /\ UNCHANGED <<undo, info>>
         /\ SameBut(job'[j], job[j], {"stack", "ok", "errs"})
         /\ job[j].at \in Walking /\ JobOK(job[j]) /\ JobAway(job[j]) /\ job'[j].at = job[j].at /\ job'[j].cur = job[j].cur
<1>1. Core /\ JobAway(job[j])
  BY DEF TInv, AllAway
<1>2. /\ GoesOn(j) /\ Active(j) /\ SameBut(job'[j], job[j], {"stack", "ok", "errs"}) /\ job[j].at \in Walking /\ JobOK(job[j])
  BY <1>1, TreeGoesOn, TreeStepIs
<1>3. UNCHANGED <<undo, info>>
  BY Zenon DEF TreeStep, CopyDir, LeaveDir, OpenFile, CopyNothing, WriteChunk, EnterDir, RemoveEntry, SeeCancel
<1>4. /\ job'[j].at = job[j].at /\ job'[j].cur = job[j].cur /\ job'[j].todo = job[j].todo /\ job'[j].later = job[j].later
      /\ job'[j].out = job[j].out
  BY <1>2 DEF SameBut, Fields
<1>5. JobAway(job'[j])
  <2> DEFINE n == job'[j]
             r == job[j]
  <2>1. SameBut(n, r, Moving) /\ JobAway(r)
    BY <1>1, <1>2 DEF GoesOn
  <2>2. n.at = r.at /\ n.cur = r.cur /\ n.todo = r.todo /\ n.later = r.later /\ n.out = r.out
    BY <1>4
  <2> HIDE DEF n, r
  <2>3. r.op \in {"trash", "restore"} => n.at \notin {"copying", "removing", "unwinding"}
                                         /\ (n.at = "rename" => VolumeOf(n.cur.from) = VolumeOf(n.cur.to))
    BY <2>1, <2>2 DEF JobAway
  <2>4. JobAway(n)
    BY <2>1, <2>2, <2>3, AwayKept
  <2> QED  BY <2>4 DEF n
<1> QED  BY <1>1, <1>2, <1>3, <1>4, <1>5

LEMMA CopyTrash == ASSUME Grows, TInv, Core', NEW j \in Slots, TreeStep(j), job[j].at = "copying" PROVE TInv'
<1>1. /\ Core /\ Active(j) /\ GoesOn(j) /\ JobAway(job'[j]) /\ UNCHANGED <<undo, info>> /\ JobOK(job[j]) /\ JobAway(job[j])
      /\ job'[j].at = job[j].at
  BY WalkAway
<1>2. job[j].op \in {"copy", "move", "moveBack"} /\ job[j].stack # <<>>
  BY <1>1, TreeStepIs DEF JobOK, StagesOf, JobAway
<1>3. Aside(job[j].cur.to) /\ job[j].cur.to \in Paths /\ Top(j).b \in Words /\ IsPrefix(job[j].cur.to, Top(j).b)
  BY <1>1, <1>2, CopyVisit DEF JobAway, Away, PutsAside
<1>4. Head(Top(j).b) \notin TrashDirs /\ Len(Top(j).b) # 0
  BY <1>3, AsideIs, PathsAreWords, SameTop
<1>5. TrashStays
  BY <1>1, <1>3, <1>4, CopyWorks, StaysWorking
<1>6. HandsOff(job[j]) /\ HandsOff(job'[j])
  BY <1>1 DEF HandsOff, Filling, Emptying
<1> QED  BY <1>1, <1>5, <1>6, TrashUntouched

(* A removal of something outside. *)
LEMMA ClearTrash ==
  ASSUME Grows, TInv, Core', NEW j \in Slots, TreeStep(j), job[j].at # "copying", ~Deletes(job[j])
  PROVE  TInv'
<1>1. /\ Core /\ Active(j) /\ GoesOn(j) /\ JobAway(job'[j]) /\ UNCHANGED <<undo, info>> /\ JobOK(job[j]) /\ JobAway(job[j])
      /\ job'[j].at = job[j].at /\ job[j].at \in Walking
  BY WalkAway
<1>2. job[j].op \in {"move", "moveBack"}
  BY <1>1 DEF JobOK, StagesOf, JobAway, Walking, Deletes
<1>3. Site(job[j]) \in Paths /\ (fs' = fs \/ \E p \in Paths : IsPrefix(Site(job[j]), p) /\ fs' = Unlink(fs, p))
  BY <1>1, RemovalWorks
<1>4. Aside(Site(job[j]))
  BY <1>1, <1>2 DEF JobAway, Away, PutsAside, TakesAside, Site
<1>5. TrashStays
  <2>1. CASE fs' = fs
    BY <2>1 DEF TrashStays
  <2>2. ASSUME NEW p \in Paths, IsPrefix(Site(job[j]), p), fs' = Unlink(fs, p) PROVE TrashStays
    <3>1. Head(p) \notin TrashDirs
      BY <1>3, <1>4, <2>2, AsideIs, PathsAreWords, SameTop
    <3> QED  BY <1>1, <2>2, <3>1, StaysUnlinking DEF Core
  <2> QED  BY <1>3, <2>1, <2>2
<1>6. job'[j].op = job[j].op
  BY <1>1, SameCall DEF GoesOn
<1>7. HandsOff(job[j]) /\ HandsOff(job'[j])
  BY <1>2, <1>6 DEF HandsOff, Filling, Emptying, Deletes
<1> QED  BY <1>1, <1>5, <1>7, TrashUntouched

(* What a removal has still to visit: the folder it is in, and what is     *)
(* listed, but for what has gone.                                          *)
LEMMA StillToVisit ==
  ASSUME Core, NEW j \in Slots, TreeStep(j), job[j].at = "removing", ~job'[j].errs, ~job'[j].cancel
  PROVE  \A v \in Range(job[j].stack) : fs'[v.a] # NoEnt => \E w \in Range(job'[j].stack) : w.a = v.a
<1>1. /\ job[j].stack # <<>> /\ Top(j) \in Visiting /\ Top(j).a \in Paths /\ Rest(j) \in Seq(Visiting)
      /\ Range(job[j].stack) = {Top(j)} \cup Range(Rest(j)) /\ Top(j).do \in {"rm", "rmdir"}
  <2>1. job[j].stack # <<>>
    BY TreeStepIs
  <2>2. Top(j).do \notin {"copy", "leave", "write"} /\ Top(j) \in Visiting
    BY <2>1, TopVisit
  <2> QED  BY <2>1, <2>2, TopVisit DEF Visiting
<1>2. ~job[j].cancel
  BY TreeGoesOn, SameCall DEF GoesOn
<1>3. CASE EnterDir(j)
  <2> DEFINE kids == KidsIn(fs, Top(j).a)
             st == Visits("rm", kids, <<>>, <<>>) \o <<Visit("rmdir", Top(j).a, <<>>)>> \o Rest(j)
  <2>1. job' = Put(j, [stack |-> st])
    BY <1>3 DEF EnterDir
  <2>2. job'[j].stack = st
    <3> HIDE DEF st
    <3> QED  BY <2>1, StackPut
  <2>3. Visit("rmdir", Top(j).a, <<>>) \in Visiting /\ Visit("rmdir", Top(j).a, <<>>).a = Top(j).a
    <3>1. <<>> \in Words
      BY DEF Words
    <3> QED  BY <1>1, <3>1, VisitIs
  <2>4. Visits("rm", kids, <<>>, <<>>) \in Seq(Visiting)
    <3>1. kids \in Seq(Paths) /\ <<>> \in Words
      BY <1>1, KidsInAre DEF Words
    <3> HIDE DEF kids
    <3> QED  BY <3>1, VisitsAre
  <2>5. Range(st) = Range(Visits("rm", kids, <<>>, <<>>)) \cup {Visit("rmdir", Top(j).a, <<>>)} \cup Range(Rest(j))
    BY <1>1, <2>3, <2>4, ThreeParts
  <2> QED  BY <1>1, <2>2, <2>3, <2>5
<1>4. CASE RemoveEntry(j)
  <2>1. Pop(j) /\ fs' = Unlink(fs, Top(j).a)
    <3>1. ~PopFailed(j)
      <4> DEFINE r == [stack |-> Rest(j), ok |-> FALSE, errs |-> TRUE]
      <4>1. DOMAIN r \subseteq Fields /\ r.errs = TRUE /\ "errs" \in DOMAIN r
        BY DEF Fields
      <4>2. PopFailed(j) <=> job' = Put(j, r)
        BY DEF PopFailed
      <4> HIDE DEF r
      <4>3. PopFailed(j) => job'[j].errs = TRUE
        BY <4>1, <4>2, PutCore
      <4> QED  BY <4>3
    <3> QED  BY <1>4, <3>1 DEF RemoveEntry
  <2>2. job'[j].stack = Rest(j)
    BY <2>1, PopIs
  <2>3. fs'[Top(j).a] = NoEnt
    BY <1>1, <2>1 DEF Unlink, Core, TreeOK
  <2> QED  BY <1>1, <2>2, <2>3
<1>5. ~SeeCancel(j)
  BY <1>2 DEF SeeCancel
<1>6. ~CopyDir(j) /\ ~LeaveDir(j) /\ ~OpenFile(j) /\ ~CopyNothing(j) /\ ~WriteChunk(j)
  BY <1>1, Zenon DEF CopyDir, LeaveDir, OpenFile, CopyNothing, WriteChunk, Doing
<1> QED  BY <1>3, <1>4, <1>5, <1>6 DEF TreeStep

-------------------------------------------------------------------------------
(* A walk that deletes, and all steps of the walks.                        *)

(* A deletion has in hand all it is to delete, and nothing else is touched. *)
LEMMA DeletionKept ==
  ASSUME Grows, TInv, Core', NEW j \in Slots, Active(j), GoesOn(j), UNCHANGED undo, JobAway(job'[j]), Emptying(job[j]), Emptying(job'[j]),
         RecordsAway',
         \A p \in Trashed \ Doomed(job[j]) : fs'[p] = fs[p] /\ info'[p] = info[p],
         ASSUME ~HalfDeleted', Booked, NEW p \in Trashed, p \in Doomed(job[j]), ~job[j].cancel, ~job[j].errs,
                ~job'[j].cancel, ~job'[j].errs
         PROVE  /\ fs'[p] # NoEnt => ToGo(job'[j], p)
                /\ job[j].op = "empty" /\ info'[p] # <<>> => Pair(<<>>, p) \in Range(job'[j].todo)
  PROVE  TInv'
<1> DEFINE n == job'[j]
<1>1. n.op = job[j].op /\ Doomed(n) = Doomed(job[j])
  BY SameCall DEF GoesOn
<1>2. ~Filling(n) /\ InTheHandsOf(n) = Doomed(n) /\ ~Filling(job[j]) /\ InTheHandsOf(job[j]) = Doomed(job[j])
  BY <1>1 DEF Filling, Emptying, Deletes, InTheHandsOf
<1>3. ASSUME ~HalfDeleted', ~HalfDeleted, Booked PROVE Tidy(fs', info', n)
  <2>1. ASSUME NEW p \in Trashed, p \in Doomed(n)
        PROVE  /\ fs'[p] # NoEnt => ToGo(n, p)
               /\ n.op = "empty" /\ info'[p] # <<>> => Pair(<<>>, p) \in Range(n.todo)
    <3>1. ~n.cancel /\ ~n.errs
      BY <1>3, <2>1, DeletionCleanAfter
    <3>2. ~job[j].cancel /\ ~job[j].errs
      BY <1>1, <1>3, <2>1, DeletionClean
    <3> QED  BY <1>1, <1>3, <2>1, <3>1, <3>2
  <2> HIDE DEF n
  <2> QED  BY <1>2, <2>1 DEF Tidy
<1>4. ASSUME Booked PROVE Settled(n)
  <2>1. ASSUME NEW p \in Trashed, p \notin Doomed(job[j]) PROVE Matched(fs', info', faults'.records, p)
    <3>1. Matched(fs, info, faults.records, p)
      BY <1>2, <1>4, <2>1, MatchedBefore DEF TInv, GoesOn
    <3> QED  BY <2>1, <3>1 DEF Matched, Grows
  <2> QED  BY <1>1, <1>2, <2>1 DEF Settled
<1> QED  BY <1>3, <1>4, TrashKept

LEMMA RemoveTrash ==
  ASSUME Grows, TInv, Core', NEW j \in Slots, TreeStep(j), job[j].at # "copying", Deletes(job[j])
  PROVE  TInv'
<1> DEFINE r == job[j]
           n == job'[j]
<1>1. /\ Core /\ Active(j) /\ GoesOn(j) /\ JobAway(n) /\ undo' = undo /\ info' = info /\ JobOK(r) /\ JobAway(r)
      /\ n.at = r.at /\ r.at \in Walking /\ SameBut(n, r, {"stack", "ok", "errs"})
  BY WalkAway
<1>2. r.at = "removing" /\ r.op \in {"remove", "empty"}
  BY <1>1 DEF JobOK, StagesOf, Walking, Deletes
<1>3. n.todo = r.todo /\ n.op = r.op /\ (Deletes(n) <=> Deletes(r)) /\ n.cancel = r.cancel
  BY <1>1, SameCall DEF SameBut, Fields, GoesOn
<1>4. Emptying(r) /\ Emptying(n)
  BY <1>1, <1>2, <1>3 DEF Emptying
<1>5. r.cur.from \in Paths /\ r.cur.from \in Doomed(r) /\ NoTrash(r.cur.from)
  <2>1. r.cur.from \in Paths /\ r.cur.from # <<>>
    BY <1>1, <1>2, PathsAssumption DEF JobOK, CurOK
  <2> QED  BY <1>1, <2>1 DEF JobAway
<1>6. fs' = fs \/ \E p \in Paths : IsPrefix(r.cur.from, p) /\ fs' = Unlink(fs, p)
  BY <1>1, <1>2, RemovalWorks DEF Site
<1>7. \A q \in Trashed : q # r.cur.from => fs'[q] = fs[q]
  <2> TAKE q \in Trashed
  <2> HAVE q # r.cur.from
  <2>1. ~IsPrefix(r.cur.from, q) /\ q \in Paths
    BY <1>5, AroundTrashed, TrashedAre
  <2> QED  BY <1>1, <1>6, <2>1 DEF Unlink, Core, TreeOK
<1>8. \A q \in Paths : fs'[q] # NoEnt => fs[q] # NoEnt
  BY <1>1, <1>6 DEF Unlink, Core, TreeOK
<1>9. RecordsAway'
  BY <1>1 DEF TInv, AllAway, RecordsAway, Restorable, Grows
<1>10. ASSUME ~HalfDeleted', Booked, NEW p \in Trashed, p \in Doomed(r), ~r.cancel, ~r.errs, ~n.cancel, ~n.errs
       PROVE  /\ fs'[p] # NoEnt => ToGo(n, p)
              /\ r.op = "empty" /\ info'[p] # <<>> => Pair(<<>>, p) \in Range(n.todo)
  <2>1. /\ fs[p] # NoEnt => ToGo(r, p)
        /\ r.op = "empty" /\ info[p] # <<>> => Pair(<<>>, p) \in Range(r.todo)
    <3>1. Tidy(fs, info, r)
      BY <1>10 DEF Booked
    <3> QED  BY <1>4, <1>10, <3>1 DEF Tidy
  <2>2. ASSUME fs'[p] # NoEnt PROVE ToGo(n, p)
    <3>1. ToGo(r, p)
      BY <1>8, <1>10, <2>1, <2>2, TrashedAre
    <3>2. CASE \E i \in Range(r.todo) : i.from = p
      BY <1>1, <1>2, <1>3, <3>2 DEF ToGo
    <3>3. CASE \E v \in Range(r.stack) : v.a = p
      <4>1. \E w \in Range(n.stack) : w.a = p
        BY <1>1, <1>2, <1>10, <2>2, <3>3, StillToVisit
      <4> QED  BY <1>1, <1>2, <4>1 DEF ToGo
    <3> QED  BY <3>1, <3>2, <3>3 DEF ToGo
  <2> QED  BY <1>1, <1>3, <2>1, <2>2
<1>11. \A p \in Trashed \ Doomed(r) : fs'[p] = fs[p] /\ info'[p] = info[p]
  BY <1>1, <1>5, <1>7
<1> QED  BY <1>1, <1>4, <1>9, <1>10, <1>11, DeletionKept, Zenon

LEMMA TreeTrash == ASSUME Grows, TInv, Core', NEW j \in Slots, TreeStep(j) PROVE TInv'
BY CopyTrash, ClearTrash, RemoveTrash

-------------------------------------------------------------------------------
(* A deletion that is through, and the loops of a call.                    *)

(* A deletion that is through. *)
LEMMA DeletionDone ==
  ASSUME Grows, TInv, Core', NEW j \in Slots, Active(j), GoesOn(j), UNCHANGED undo, JobAway(job'[j]), Emptying(job[j]), ~Emptying(job'[j]),
         RecordsAway',
         \A p \in Trashed \ Doomed(job[j]) : fs'[p] = fs[p] /\ info'[p] = info[p],
         ASSUME ~HalfDeleted', Booked, NEW p \in Trashed, p \in Doomed(job[j]), ~job[j].cancel, ~job[j].errs
         PROVE  Matched(fs', info', faults'.records, p)
  PROVE  TInv'
<1> DEFINE n == job'[j]
<1>1. n.op = job[j].op
  BY SameCall DEF GoesOn
<1>2. ~Filling(n) /\ ~Filling(job[j]) /\ InTheHandsOf(job[j]) = Doomed(job[j])
  BY <1>1 DEF Filling, Emptying, Deletes, InTheHandsOf
<1>3. Tidy(fs', info', n)
  BY <1>2 DEF Tidy
<1>4. ASSUME ~HalfDeleted', ~HalfDeleted, Booked PROVE Settled(n)
  <2>1. ASSUME NEW p \in Trashed, p \notin Doomed(job[j]) PROVE Matched(fs', info', faults'.records, p)
    <3>1. Matched(fs, info, faults.records, p)
      BY <1>2, <1>4, <2>1, MatchedBefore DEF TInv, GoesOn
    <3> QED  BY <2>1, <3>1 DEF Matched, Grows
  <2>2. ASSUME NEW p \in Trashed, p \in Doomed(job[j]) PROVE Matched(fs', info', faults'.records, p)
    <3>1. ~job[j].cancel /\ ~job[j].errs
      BY <1>4, <2>2, DeletionClean
    <3> QED  BY <1>4, <2>2, <3>1
  <2> QED  BY <2>1, <2>2 DEF Settled
<1> QED  BY <1>3, <1>4, TrashKept

(* A step from one stage to the next. *)
LEMMA StageAway ==
  ASSUME TInv, NEW j \in Slots, job[j].at # "unused", job[j].at # "ended", NEW stage, ToStage(j, stage),
         stage \notin {"copying", "removing", "unwinding", "rename"} \/ job[j].op \notin {"trash", "restore"}
  PROVE  /\ Active(j) /\ GoesOn(j) /\ JobAway(job'[j]) /\ job'[j].at = stage
         /\ SameBut(job'[j], job[j], {"at", "errs"})
<1> DEFINE n == job'[j]
           r == job[j]
<1>1. Core /\ Active(j) /\ JobAway(r)
  BY TrashFrom
<1>2. GoesOn(j) /\ SameBut(n, r, {"at", "errs"}) /\ n.at = stage
  BY <1>1, WaysOn, StageIs DEF ToStage
<1>3. n.todo = r.todo /\ n.later = r.later /\ n.cur = r.cur /\ n.out = r.out /\ SameBut(n, r, Moving)
  BY <1>2 DEF SameBut, Fields, GoesOn
<1> HIDE DEF n, r
<1>4. r.op \in {"trash", "restore"} => n.at \notin {"copying", "removing", "unwinding"}
                                       /\ (n.at = "rename" => VolumeOf(n.cur.from) = VolumeOf(n.cur.to))
  BY <1>2 DEF r
<1>5. JobAway(n)
  BY <1>1, <1>3, <1>4, AwayKept
<1> QED  BY <1>1, <1>2, <1>5 DEF n, r

LEMMA StageTrash ==
  ASSUME Grows, TInv, Core', NEW j \in Slots, job[j].at # "unused", job[j].at # "ended", NEW stage, ToStage(j, stage),
         UNCHANGED <<fs, info, undo>>, job[j].op \in {"copy", "move", "moveBack"}
  PROVE  TInv'
<1>1. Active(j) /\ GoesOn(j) /\ JobAway(job'[j]) /\ job'[j].op = job[j].op
  BY StageAway, SameCall DEF GoesOn
<1>2. HandsOff(job[j]) /\ HandsOff(job'[j])
  BY <1>1 DEF HandsOff, Filling, Emptying, Deletes
<1>3. TrashStays
  BY DEF TrashStays
<1> QED  BY <1>1, <1>2, <1>3, TrashUntouched

LEMMA MeasureTrash == ASSUME Grows, TInv, Core', NEW j \in Slots, Measure(j) PROVE TInv'
<1> DEFINE n == job'[j]
           o == job[j]
<1>1. job[j].at \in {"space", "measure"} /\ UNCHANGED <<fs, info, undo>>
  BY DEF Measure, At
<1>2. Core /\ Active(j) /\ JobOK(o) /\ JobAway(o)
  BY <1>1, TrashFrom
<1>3. o.op \in {"copy", "move"}
  BY <1>1, <1>2 DEF JobOK, StagesOf
<1>4. ASSUME NEW stage, ToStage(j, stage) PROVE TInv'
  BY <1>1, <1>3, <1>4, StageTrash
<1>5. CASE job' = Put(j, [at |-> "next2", todo |-> job[j].later, later |-> <<>>])
  <2> DEFINE r == [at |-> "next2", todo |-> job[j].later, later |-> <<>>]
  <2>1. DOMAIN r = {"at", "todo", "later"} /\ r.at = "next2" /\ r.todo = o.later /\ r.later = <<>> /\ job' = Put(j, r)
    BY <1>5
  <2> HIDE DEF r
  <2>2. SameBut(n, o, DOMAIN r) /\ \A x \in DOMAIN r : n[x] = r[x]
    BY <1>2, <2>1, PutCore DEF Fields
  <2>3. n.todo = o.later /\ n.later = <<>> /\ n.at = "next2" /\ n.cur = o.cur /\ n.out = o.out /\ n.op = o.op
    BY <2>1, <2>2 DEF SameBut, Fields
  <2>4. GoesOn(j)
    BY <1>2, <1>5, WaysOn
  <2>5. SameBut(n, o, Moving)
    BY <2>4 DEF GoesOn
  <2> HIDE DEF n, o
  <2>6. JobAway(n)
    BY <1>2, <1>3, <2>3, <2>5, EmptyRange, AwayKept
  <2>7. HandsOff(o) /\ HandsOff(n) /\ TrashStays
    BY <1>1, <1>3, <2>3 DEF HandsOff, Filling, Emptying, Deletes, TrashStays
  <2> QED  BY <1>1, <1>2, <2>4, <2>6, <2>7, TrashUntouched DEF n, o
<1> QED  BY <1>4, <1>5 DEF Measure, ToStage

LEMMA LoopOverTrash == ASSUME Grows, TInv, Core', NEW j \in Slots, LoopOver(j) PROVE TInv'
<1> DEFINE n == job'[j]
           r == job[j]
           stage == IF At(j, "next") /\ job[j].later # <<>> THEN "measure"
                    ELSE IF job[j].op = "remove" THEN "forget" ELSE "returned"
<1>1. UNCHANGED <<fs, info, undo>> /\ r.at \in {"next", "next2"} /\ job' = Put(j, [at |-> stage]) /\ (r.todo = <<>> \/ r.cancel)
  BY DEF LoopOver, At
<1>2. Core /\ Active(j) /\ JobOK(r) /\ JobAway(r)
  BY <1>1, TrashFrom
<1>3. stage \in {"measure", "forget", "returned"} /\ (Deletes(r) => stage = IF r.op = "remove" THEN "forget" ELSE "returned")
      /\ (~Deletes(r) => stage # "forget")
  BY <1>2 DEF JobOK, Deletes
<1> HIDE DEF stage
<1>4. ToStage(j, stage)
  BY <1>1 DEF ToStage
<1>5. GoesOn(j) /\ JobAway(n) /\ n.at = stage /\ SameBut(n, r, {"at", "errs"})
  BY <1>1, <1>3, <1>4, StageAway
<1>6. n.op = r.op /\ n.todo = r.todo /\ (Deletes(n) <=> Deletes(r))
  BY <1>5, SameCall DEF SameBut, Fields, GoesOn
<1>7. RecordsAway' /\ TrashStays
  BY <1>1 DEF TInv, AllAway, RecordsAway, Restorable, TrashStays, Grows
<1>8. CASE ~Deletes(r)
  <2>1. HandsOff(r) /\ HandsOff(n)
    BY <1>1, <1>3, <1>5, <1>6, <1>8 DEF HandsOff, Filling, Emptying
  <2> QED  BY <1>1, <1>2, <1>5, <1>7, <2>1, TrashUntouched
<1>9. CASE Deletes(r)
  <2>1. r.at = "next" /\ Emptying(r)
    BY <1>1, <1>2, <1>9 DEF JobOK, StagesOf, Deletes, Emptying
  <2>2. ASSUME Booked, NEW p \in Trashed, p \in Doomed(r), ~r.cancel
        PROVE  fs[p] = NoEnt /\ (r.op = "empty" => info[p] = <<>>)
    <3>1. /\ fs[p] # NoEnt => ToGo(r, p)
          /\ r.op = "empty" /\ info[p] # <<>> => Pair(<<>>, p) \in Range(r.todo)
      <4>1. Tidy(fs, info, r)
        BY <2>2 DEF Booked
      <4> QED  BY <2>1, <2>2, <4>1 DEF Tidy
    <3>2. Range(r.todo) = {}
      BY <1>1, <2>2, EmptyRange
    <3> QED  BY <2>1, <3>1, <3>2 DEF ToGo
  <2>3. CASE r.op = "remove"
    <3>1. Emptying(n)
      BY <1>3, <1>5, <1>6, <1>9, <2>3 DEF Emptying
    <3>2. ASSUME ~HalfDeleted', Booked, NEW p \in Trashed, p \in Doomed(r), ~r.cancel, ~r.errs, ~n.cancel, ~n.errs
          PROVE  /\ fs'[p] # NoEnt => ToGo(n, p)
                 /\ r.op = "empty" /\ info'[p] # <<>> => Pair(<<>>, p) \in Range(n.todo)
      BY <1>1, <2>2, <2>3, <3>2
    <3> QED  BY <1>1, <1>2, <1>5, <1>7, <2>1, <3>1, <3>2, DeletionKept, Zenon
  <2>4. CASE r.op = "empty"
    <3>1. ~Emptying(n)
      BY <1>3, <1>5, <1>9, <2>4 DEF Emptying
    <3>2. ASSUME ~HalfDeleted', Booked, NEW p \in Trashed, p \in Doomed(r), ~r.cancel, ~r.errs
          PROVE  Matched(fs', info', faults'.records, p)
      BY <1>1, <2>2, <2>4, <3>2 DEF Matched, Grows
    <3> QED  BY <1>1, <1>2, <1>5, <1>7, <2>1, <3>1, <3>2, DeletionDone, Zenon
  <2> QED  BY <1>9, <2>3, <2>4 DEF Deletes
<1> QED  BY <1>8, <1>9

-------------------------------------------------------------------------------
(* Items taken up: copy, move and copyAcross.                              *)

(* A step that takes an item up. *)
LEMMA TakenAway ==
  ASSUME TInv, NEW j \in Slots, job[j].at \in {"next", "next2"}, job[j].todo # <<>>,
         NoOther(j), SameBut(job'[j], job[j], TakenFields), job'[j].todo = Tail(job[j].todo),
         Away(job[j].op, job'[j].cur), Deletes(job[j]) => {job'[j].cur.from, job'[j].cur.to} \subseteq Doomed(job[j]) \cup {<<>>},
         job[j].op \in {"trash", "restore"} => /\ job'[j].at \notin {"copying", "removing", "unwinding"}
                                               /\ VolumeOf(job'[j].cur.from) = VolumeOf(job'[j].cur.to)
  PROVE  Active(j) /\ GoesOn(j) /\ JobAway(job'[j]) /\ job'[j].op = job[j].op
<1> DEFINE n == job'[j]
           r == job[j]
<1>1. Core /\ Active(j) /\ JobAway(r) /\ r.todo \in Seq(AllPairs)
  BY TrashFrom
<1>2. GoesOn(j) /\ SameBut(n, r, Moving) /\ n.later = r.later /\ n.out = r.out
  BY DEF GoesOn, SameBut, Fields, Moving, TakenFields
<1>3. n.op = r.op
  BY <1>2, SameCall
<1>4. Range(n.todo) \subseteq Range(r.todo)
  BY <1>1, ItemAway
<1>5. /\ Away(r.op, n.cur) /\ (Deletes(r) => {n.cur.from, n.cur.to} \subseteq Doomed(r) \cup {<<>>})
      /\ r.op \in {"trash", "restore"} => n.at \notin {"copying", "removing", "unwinding"} /\ VolumeOf(n.cur.from) = VolumeOf(n.cur.to)
  OBVIOUS
<1> HIDE DEF n, r
<1>6. JobAway(n)
  BY <1>1, <1>2, <1>4, <1>5, AwayKept
<1> QED  BY <1>1, <1>2, <1>3, <1>6 DEF n, r

(* A step that leaves an item out. *)
LEMMA SkipAway ==
  ASSUME TInv, NEW j \in Slots, job[j].at = "next", job[j].todo # <<>>, NEW failed, Skip(j, failed)
  PROVE  /\ Core /\ Active(j) /\ GoesOn(j) /\ JobAway(job'[j]) /\ job'[j].op = job[j].op /\ job'[j].at = job[j].at
         /\ job'[j].todo = Tail(job[j].todo) /\ SameBut(job'[j], job[j], {"todo", "errs"})
<1> DEFINE n == job'[j]
           r == job[j]
<1>1. Core /\ Active(j) /\ JobAway(r) /\ r.todo \in Seq(AllPairs)
  BY TrashFrom
<1>2. GoesOn(j) /\ SameBut(n, r, {"todo", "errs"}) /\ n.todo = Tail(r.todo)
  BY <1>1, WaysOn, SkipIs
<1>3. n.later = r.later /\ n.out = r.out /\ n.cur = r.cur /\ n.at = r.at /\ n.op = r.op
  BY <1>2 DEF SameBut, Fields
<1>4. Range(n.todo) \subseteq Range(r.todo) /\ SameBut(n, r, Moving)
  BY <1>1, <1>2, ItemAway DEF GoesOn
<1>5. r.at = "next"
  OBVIOUS
<1> HIDE DEF n, r
<1>6. JobAway(n)
  BY <1>1, <1>3, <1>4, <1>5, AwayKept
<1> QED  BY <1>1, <1>2, <1>3, <1>6 DEF n, r

LEMMA SkipTrash ==
  ASSUME Grows, TInv, Core', NEW j \in Slots, job[j].at = "next", job[j].todo # <<>>, NEW failed, Skip(j, failed),
         UNCHANGED <<fs, info, undo>>, ~Deletes(job[j])
  PROVE  TInv'
<1>1. Active(j) /\ GoesOn(j) /\ JobAway(job'[j]) /\ job'[j].op = job[j].op /\ job'[j].at = job[j].at
  BY SkipAway
<1>2. HandsOff(job[j]) /\ HandsOff(job'[j]) /\ TrashStays
  BY <1>1 DEF HandsOff, Filling, Emptying, Deletes, TrashStays
<1> QED  BY <1>1, <1>2, TrashUntouched

(* An item taken up, with nothing trashed in hand. *)
LEMMA TakenTrash ==
  ASSUME Grows, TInv, Core', NEW j \in Slots, job[j].at \in {"next", "next2"}, job[j].todo # <<>>,
         NoOther(j), SameBut(job'[j], job[j], TakenFields), job'[j].todo = Tail(job[j].todo),
         Away(job[j].op, job'[j].cur), UNCHANGED <<info, undo>>, TrashStays,
         job[j].op \in {"copy", "move", "moveBack", "restore"},
         job[j].op = "restore" => job'[j].at = "rename" /\ VolumeOf(job'[j].cur.from) = VolumeOf(job'[j].cur.to)
  PROVE  TInv'
<1>1. Active(j) /\ GoesOn(j) /\ JobAway(job'[j]) /\ job'[j].op = job[j].op
  BY TakenAway DEF Deletes
<1>2. HandsOff(job[j]) /\ HandsOff(job'[j])
  BY <1>1 DEF HandsOff, Filling, Emptying, Deletes
<1> QED  BY <1>1, <1>2, TrashUntouched

(* Where a name beside another is. *)
LEMMA InFolderAside ==
  ASSUME NEW q \in Paths, NEW d \in Paths, Parent(q) = d, Head(d) \notin TrashDirs
  PROVE  Aside(q)
<1>1. d \in Words /\ q \in Words /\ Len(d) \in Nat \ {0} /\ Len(q) \in Nat /\ IsPrefix(d, q) /\ Len(d) = Len(q) - 1
  BY PathsAreWords, ParentIs
<1>2. Head(d) = Head(q)
  BY <1>1, SameTop
<1> QED  BY <1>1, <1>2 DEF Aside

LEMMA BesideIs ==
  ASSUME NEW p \in Paths, Aside(p), NEW S, NEW q \in FirstOpen(p, S)
  PROVE  Aside(q) /\ VolumeOf(q) = VolumeOf(p)
<1> DEFINE d == Parent(p)
<1>1. Len(p) > 1 /\ Head(p) \notin TrashDirs /\ p \in Words
  BY AsideIs, PathsAreWords
<1>2. d \in Words /\ Len(d) = Len(p) - 1 /\ IsPrefix(d, p)
  BY ParentIs
<1>3. Len(d) \in Nat \ {0} /\ Head(d) = Head(p)
  BY <1>1, <1>2, SameTop DEF Words
<1>4. PICK i \in DOMAIN Numbered(p) : q = Numbered(p)[i]
  BY DEF FirstOpen
<1>5. q = p \/ \E y : q = Append(d, y)
  BY <1>4 DEF Numbered
<1> HIDE DEF d
<1>6. \A y : Head(Append(d, y)) = Head(d) /\ Len(Append(d, y)) = Len(d) + 1
  BY <1>2, <1>3 DEF Words
<1>7. Head(q) = Head(p) /\ Len(q) > 1
  BY <1>1, <1>3, <1>5, <1>6
<1> QED  BY <1>1, <1>7 DEF Aside, VolumeOf

LEMMA TransferItemTrash == ASSUME Grows, TInv, Core', NEW j \in Slots, TransferItem(j) PROVE TInv'
<1> DEFINE src == Item(j).from
<1>1. job[j].at = "next" /\ job[j].op \in {"copy", "move"} /\ job[j].todo # <<>> /\ UNCHANGED <<info, undo>>
  BY DEF TransferItem, Taking, At
<1>2. Core /\ JobOK(job[j]) /\ JobAway(job[j]) /\ TreeOK(fs) /\ job[j].todo \in Seq(AllPairs)
  BY <1>1, TrashFrom
<1>3. job[j].dest \in Paths /\ Head(job[j].dest) \notin TrashDirs /\ src \in Paths /\ (job[j].op = "move" => Aside(src))
  <2>1. job[j].dest \in Paths /\ Head(job[j].dest) \notin TrashDirs
    BY <1>1, <1>2 DEF JobOK, JobAway
  <2>2. Away(job[j].op, Item(j))
    BY <1>1, <1>2, ItemAway DEF Item
  <2> QED  BY <1>1, <1>2, <2>1, <2>2, ItemIs DEF Away, TakesAside
<1>4. CASE Skip(j, FALSE) /\ UNCHANGED fs
  BY <1>1, <1>4, SkipTrash DEF Deletes
<1>5. ASSUME NEW dst \in Destinations(j, src), NEW stage, NEW st, Goes(j, stage, st, src, dst),
             UNCHANGED fs \/ fs' = Unlink(fs, dst)
      PROVE  TInv'
  <2>1. dst \in Paths /\ Parent(dst) = job[j].dest
    BY <1>1, <1>2, NamedIs
  <2>2. Aside(dst)
    BY <1>3, <2>1, InFolderAside
  <2> HIDE DEF src
  <2>3. TakenUp(j, stage, st, src, dst)
    BY ONLY <1>2, <1>5, TakenIs
  <2>4. /\ NoOther(j) /\ SameBut(job'[j], job[j], TakenFields) /\ job'[j].todo = Tail(job[j].todo)
        /\ job'[j].cur.from = src /\ job'[j].cur.to = dst
    BY <2>3, PairIs DEF TakenUp
  <2>5. Away(job[j].op, job'[j].cur)
    BY <1>1, <1>3, <2>2, <2>4 DEF Away, TakesAside
  <2>6. TrashStays
    <3>1. Head(dst) \notin TrashDirs
      BY <2>1, <2>2, AsideIs
    <3> QED  BY <1>2, <1>5, <3>1, StaysUnlinking DEF TrashStays
  <2> QED  BY <1>1, <2>4, <2>5, <2>6, TakenTrash
<1> QED  BY <1>1, <1>4, <1>5 DEF TransferItem, Goes

LEMMA CopyAcrossTrash == ASSUME Grows, TInv, Core', NEW j \in Slots, CopyAcross(j) PROVE TInv'
<1>1. job[j].at = "next2" /\ job[j].todo # <<>> /\ UNCHANGED <<fs, info, undo>>
  BY DEF CopyAcross, At
<1>2. Core /\ JobOK(job[j]) /\ JobAway(job[j]) /\ job[j].todo \in Seq(AllPairs)
  BY <1>1, TrashFrom
<1>3. job[j].op = "move"
  BY <1>1, <1>2 DEF JobOK, StagesOf
<1> DEFINE a == Item(j).from
           b == Item(j).to
           st == <<Visit("copy", a, b)>>
<1>4. Away(job[j].op, Item(j))
  BY <1>1, <1>2, ItemAway DEF Item
<1>5. Goes(j, "copying", st, a, b)
  BY DEF CopyAcross, Goes
<1>6. Away(job[j].op, Pair(a, b))
  BY <1>4 DEF Away, Pair
<1> HIDE DEF a, b, st
<1>7. TakenUp(j, "copying", st, a, b)
  BY ONLY <1>2, <1>5, TakenIs
<1>8. /\ NoOther(j) /\ SameBut(job'[j], job[j], TakenFields) /\ job'[j].todo = Tail(job[j].todo) /\ Away(job[j].op, job'[j].cur)
  BY <1>6, <1>7 DEF TakenUp
<1>9. TrashStays
  BY <1>1 DEF TrashStays
<1> QED  BY <1>1, <1>3, <1>8, <1>9, TakenTrash

-------------------------------------------------------------------------------
(* moveBack, restore and the deletions take an item up.                    *)

LEMMA MoveBackItemTrash == ASSUME Grows, TInv, Core', NEW j \in Slots, MoveBackItem(j) PROVE TInv'
<1> DEFINE a == Item(j).to
           p == Item(j).from
<1>1. job[j].at = "next" /\ job[j].op = "moveBack" /\ job[j].todo # <<>> /\ UNCHANGED <<info, undo>>
  BY DEF MoveBackItem, Taking, At
<1>2. Core /\ JobOK(job[j]) /\ JobAway(job[j]) /\ job[j].todo \in Seq(AllPairs) /\ job[j].stack = <<>>
  BY <1>1, TrashFrom DEF Walking
<1>3. p \in Paths /\ a \in Paths
  BY <1>1, <1>2, ItemIs DEF ItemOK
<1>4. Aside(p) /\ Aside(a)
  <2>1. Away(job[j].op, Item(j))
    BY <1>1, <1>2, ItemAway DEF Item
  <2> QED  BY <1>1, <2>1 DEF Away, TakesAside, PutsAside
<1>5. CASE Skip(j, TRUE) /\ UNCHANGED fs
  BY <1>1, <1>5, SkipTrash DEF Deletes
<1>6. ASSUME NEW back \in FreeNames(fs, p), GoesToRename(j, a, back),
             fs' = IF CanMkPath(fs, Parent(p)) THEN MkPath(fs, Parent(p)) ELSE fs
      PROVE  TInv'
  <2> HIDE DEF a, p
  <2>1. Aside(back)
    BY <1>3, <1>4, <1>6, BesideIs DEF FreeNames
  <2>2. TrashStays
    BY <1>2, <1>3, <1>4, <1>6, StaysGoingBack
  <2>3. /\ NoOther(j) /\ SameBut(job'[j], job[j], TakenFields) /\ job'[j].todo = Tail(job[j].todo)
        /\ job'[j].cur = Pair(a, back)
    BY ONLY <1>2, <1>6, TakenRename
  <2>4. Away(job[j].op, job'[j].cur)
    BY <1>1, <1>4, <2>1, <2>3, PairIs DEF Away
  <2> QED  BY <1>1, <2>2, <2>3, <2>4, TakenTrash
<1> QED  BY <1>1, <1>5, <1>6 DEF MoveBackItem, GoesToRename

LEMMA RestoreItemTrash == ASSUME Grows, TInv, Core', NEW j \in Slots, RestoreItem(j) PROVE TInv'
<1> DEFINE a == Item(j).from
           p == info[a]
<1>1. job[j].at = "next" /\ job[j].op = "restore" /\ job[j].todo # <<>> /\ UNCHANGED <<info, undo>>
  BY DEF RestoreItem, Taking, At
<1>2. Core /\ JobOK(job[j]) /\ JobAway(job[j]) /\ job[j].todo \in Seq(AllPairs) /\ job[j].stack = <<>> /\ RecordsAway
  BY <1>1, TrashFrom DEF Walking
<1>3. a \in Paths /\ a \in Trashed
  BY <1>1, <1>2, ItemIs DEF ItemOK
<1>4. CASE Skip(j, TRUE) /\ UNCHANGED fs
  BY <1>1, <1>4, SkipTrash DEF Deletes
<1>5. ASSUME Restorable(a), NEW back \in FreeNames(fs, p), GoesToRename(j, a, back),
             fs' = IF CanMkPath(fs, Parent(p)) THEN MkPath(fs, Parent(p)) ELSE fs
      PROVE  TInv'
  <2>1. p \in Paths /\ Aside(p) /\ VolumeOf(p) = VolumeOf(a)
    <3>1. p \in Records
      BY <1>2, <1>3 DEF Core
    <3>2. p \in Paths
      BY <1>5, <3>1 DEF Records, MaybePaths, Restorable
    <3> QED  BY <1>2, <1>3, <1>5, <3>2 DEF RecordsAway
  <2> HIDE DEF a, p
  <2>2. Aside(back) /\ VolumeOf(back) = VolumeOf(a)
    BY <1>5, <2>1, BesideIs DEF FreeNames
  <2>3. TrashStays
    BY <1>2, <1>5, <2>1, StaysGoingBack
  <2>4. /\ NoOther(j) /\ SameBut(job'[j], job[j], TakenFields) /\ job'[j].todo = Tail(job[j].todo)
        /\ job'[j].cur = Pair(a, back) /\ job'[j].at = "rename"
    BY ONLY <1>2, <1>5, TakenRename
  <2>5. Away(job[j].op, job'[j].cur) /\ VolumeOf(job'[j].cur.from) = VolumeOf(job'[j].cur.to)
    BY <1>1, <2>2, <2>4, PairIs DEF Away, TakesAside
  <2> QED  BY <1>1, <2>3, <2>4, <2>5, TakenTrash
<1> QED  BY <1>1, <1>4, <1>5 DEF RestoreItem, GoesToRename

(* What is known of a deletion between two items. *)
LEMMA DeletionSoFar ==
  ASSUME Booked, NEW j \in Slots, Emptying(job[j]), job[j].at = "next", NEW p \in Trashed, p \in Doomed(job[j])
  PROVE  /\ fs[p] # NoEnt => \E i \in Range(job[j].todo) : i.from = p
         /\ job[j].op = "empty" /\ info[p] # <<>> => Pair(<<>>, p) \in Range(job[j].todo)
<1>1. Tidy(fs, info, job[j])
  BY DEF Booked
<1> QED  BY <1>1 DEF Tidy, ToGo

LEMMA RemoveItemTrash == ASSUME Grows, TInv, Core', NEW j \in Slots, RemoveItem(j) PROVE TInv'
<1> DEFINE a == Item(j).from
           b == <<>>
           st == <<Visit("rm", a, b)>>
           n == job'[j]
           r == job[j]
<1>1. r.at = "next" /\ Deletes(r) /\ r.todo # <<>> /\ UNCHANGED <<fs, info, undo>> /\ a # <<>>
  BY DEF RemoveItem, Taking, At, Deletes
<1>2. Core /\ JobAway(r) /\ r.todo \in Seq(AllPairs) /\ RecordsAway
  BY <1>1, TrashFrom
<1>3. /\ a \in Doomed(r) /\ Range(r.todo) = {Item(j)} \cup Range(Tail(r.todo)) /\ a \in Paths
  <2>1. a \in Doomed(r) /\ Range(r.todo) = {Item(j)} \cup Range(Tail(r.todo))
    BY <1>1, <1>2, ItemAway DEF Item
  <2> QED  BY <1>1, <1>2, <2>1, ItemIs DEF AllPairs, MaybePaths
<1>4. Goes(j, "removing", st, a, b)
  BY DEF RemoveItem, Goes
<1>5. Range(st) = {Visit("rm", a, b)} /\ Visit("rm", a, b).a = a
  <2>1. b \in Words
    BY DEF Words
  <2> HIDE DEF a, b
  <2>2. Visit("rm", a, b) \in Visiting /\ Visit("rm", a, b).a = a
    BY <1>3, <2>1, VisitIs
  <2>3. <<>> \in Seq(Visiting)
    OBVIOUS
  <2> QED  BY <2>2, <2>3, Pushing
<1>6. a # <<>> /\ a = Item(j).from
  BY <1>1
<1> HIDE DEF a, st
<1>7. TakenUp(j, "removing", st, a, b)
  BY ONLY <1>2, <1>4, TakenIs
<1>8. /\ NoOther(j) /\ SameBut(n, r, TakenFields) /\ n.todo = Tail(r.todo) /\ n.cur = Pair(a, b) /\ n.at = "removing" /\ n.stack = st
  BY <1>7 DEF TakenUp
<1>9. Active(j) /\ GoesOn(j) /\ JobAway(n) /\ n.op = r.op
  <2>1. /\ Away(r.op, n.cur) /\ {n.cur.from, n.cur.to} \subseteq Doomed(r) \cup {<<>>}
        /\ r.op \notin {"trash", "restore"}
    BY <1>1, <1>3, <1>8, PairIs DEF Away, TakesAside, PutsAside, Deletes
  <2> QED  BY <1>1, <1>8, <2>1, TakenAway
<1>10. Emptying(r) /\ Emptying(n)
  BY <1>1, <1>8, <1>9 DEF Emptying, Deletes
<1>11. ASSUME ~HalfDeleted', Booked, NEW p \in Trashed, p \in Doomed(r), ~r.cancel, ~r.errs, ~n.cancel, ~n.errs
       PROVE  /\ fs'[p] # NoEnt => ToGo(n, p)
              /\ r.op = "empty" /\ info'[p] # <<>> => Pair(<<>>, p) \in Range(n.todo)
  <2>1. /\ fs[p] # NoEnt => \E i \in Range(r.todo) : i.from = p
        /\ r.op = "empty" /\ info[p] # <<>> => Pair(<<>>, p) \in Range(r.todo)
    BY <1>1, <1>10, <1>11, DeletionSoFar
  <2>2. Pair(<<>>, p) # Item(j)
    BY <1>6, PairIs
  <2>3. ASSUME fs'[p] # NoEnt PROVE ToGo(n, p)
    BY <1>1, <1>3, <1>5, <1>6, <1>8, <2>1, <2>3 DEF ToGo
  <2> QED  BY <1>1, <1>3, <1>8, <2>1, <2>2, <2>3
<1>12. RecordsAway' /\ \A p \in Trashed \ Doomed(r) : fs'[p] = fs[p] /\ info'[p] = info[p]
  BY <1>1, <1>2 DEF RecordsAway, Restorable, Grows
<1> HIDE DEF n, r
<1> QED  BY <1>1, <1>9, <1>10, <1>11, <1>12, DeletionKept, Zenon DEF n, r

LEMMA RemoveRecordTrash == ASSUME Grows, TInv, Core', NEW j \in Slots, RemoveRecord(j) PROVE TInv'
<1> DEFINE q == Item(j).to
           n == job'[j]
           r == job[j]
<1>1. r.at = "next" /\ r.op = "empty" /\ Deletes(r) /\ r.todo # <<>> /\ UNCHANGED <<fs, undo>> /\ Item(j).from = <<>>
  BY DEF RemoveRecord, Taking, At, Deletes
<1>2. Core /\ JobAway(r) /\ r.todo \in Seq(AllPairs) /\ RecordsAway
  BY <1>1, TrashFrom
<1>3. q \in Trashed /\ q \in Doomed(r) /\ Range(r.todo) = {Item(j)} \cup Range(Tail(r.todo))
  <2>1. q \in Trashed
    BY <1>1, <1>2, ItemIs DEF ItemOK
  <2>2. q \in Doomed(r) \cup {<<>>} /\ Range(r.todo) = {Item(j)} \cup Range(Tail(r.todo))
    BY <1>1, <1>2, ItemAway DEF Item
  <2> QED  BY <2>1, <2>2, TrashedAre
<1>4. ASSUME NEW failed \in BOOLEAN, Skip(j, failed), IF failed THEN info' = info ELSE info' = [info EXCEPT ![q] = <<>>]
      PROVE  TInv'
  <2>1. /\ Active(j) /\ GoesOn(j) /\ JobAway(n) /\ n.op = r.op /\ n.at = r.at /\ n.todo = Tail(r.todo)
    BY <1>1, <1>4, SkipAway
  <2>2. failed => n.errs
    <3> DEFINE s == [todo |-> Tail(job[j].todo), errs |-> job[j].errs \/ failed]
    <3>1. DOMAIN s = {"todo", "errs"} /\ (failed => s.errs) /\ job' = Put(j, s)
      BY <1>4 DEF Skip
    <3> HIDE DEF s
    <3>2. job'[j].errs = s.errs
      BY <1>2, <3>1, PutCore DEF Fields
    <3> QED  BY <3>1, <3>2
  <2>3. Emptying(r) /\ Emptying(n)
    BY <1>1, <2>1 DEF Emptying, Deletes
  <2>4. \A p \in Trashed : (p # q => info'[p] = info[p]) /\ (~failed => info'[q] = <<>>)
    BY <1>2, <1>3, <1>4 DEF Core
  <2>5. ASSUME ~HalfDeleted', Booked, NEW p \in Trashed, p \in Doomed(r), ~r.cancel, ~r.errs, ~n.cancel, ~n.errs
        PROVE  /\ fs'[p] # NoEnt => ToGo(n, p)
               /\ r.op = "empty" /\ info'[p] # <<>> => Pair(<<>>, p) \in Range(n.todo)
    <3>1. /\ fs[p] # NoEnt => \E i \in Range(r.todo) : i.from = p
          /\ r.op = "empty" /\ info[p] # <<>> => Pair(<<>>, p) \in Range(r.todo)
      BY <1>1, <2>3, <2>5, DeletionSoFar
    <3>2. p # <<>>
      BY TrashedAre
    <3>3. fs'[p] # NoEnt => ToGo(n, p)
      BY <1>1, <1>3, <2>1, <3>1, <3>2 DEF ToGo
    <3>4. ASSUME info'[p] # <<>> PROVE Pair(<<>>, p) \in Range(n.todo)
      <4>1. p # q /\ info[p] # <<>>
        BY <2>2, <2>4, <2>5, <3>4, <1>3
      <4>2. Pair(<<>>, p) # Item(j)
        BY <4>1, PairIs
      <4> QED  BY <1>1, <1>3, <2>1, <3>1, <4>1, <4>2
    <3> QED  BY <3>3, <3>4
  <2>6. RecordsAway'
    <3>1. info \in [Trashed -> Records]
      BY <1>2 DEF Core
    <3>2. \A p \in Trashed : info'[p] \in {info[p], <<>>}
      BY <1>3, <1>4, <3>1
    <3> QED  BY <1>2, <3>2, RecordsStay
  <2>7. \A p \in Trashed \ Doomed(r) : fs'[p] = fs[p] /\ info'[p] = info[p]
    BY <1>1, <1>3, <2>4
  <2> HIDE DEF n, r
  <2> QED  BY <1>1, <2>1, <2>3, <2>5, <2>6, <2>7, DeletionKept, Zenon DEF n, r
<1> QED  BY <1>4 DEF RemoveRecord

-------------------------------------------------------------------------------
(* The trash is listed; a name in it is reserved; records are forgotten.   *)

(* A list of files and of records has all of them. *)
LEMMA ListsAll ==
  ASSUME NEW s \in Seq(MaybePaths), NEW t \in Seq(MaybePaths)
  PROVE  /\ \A p \in Range(s) : \E x \in Range(Listing(s, t)) : x.from = p
         /\ \A p \in Range(t) : Pair(<<>>, p) \in Range(Listing(s, t))
<1> DEFINE u == [i \in DOMAIN s |-> Pair(s[i], <<>>)]
           v == [i \in DOMAIN t |-> Pair(<<>>, t[i])]
<1>1. Len(s) \in Nat /\ DOMAIN s = 1 .. Len(s) /\ Len(t) \in Nat /\ DOMAIN t = 1 .. Len(t)
  OBVIOUS
<1>2. \A p \in Range(s) : \E x \in Range(u) : x.from = p
  BY PairIs DEF Range
<1>3. \A p \in Range(t) : Pair(<<>>, p) \in Range(v)
  BY DEF Range
<1>4. u \in Seq(AllPairs) /\ v \in Seq(AllPairs)
  <2>1. \A p \in MaybePaths : Pair(p, <<>>) \in AllPairs /\ Pair(<<>>, p) \in AllPairs
    BY PairIs DEF MaybePaths
  <2>2. \A i \in 1 .. Len(s) : s[i] \in MaybePaths
    OBVIOUS
  <2>3. \A i \in 1 .. Len(t) : t[i] \in MaybePaths
    OBVIOUS
  <2>4. u \in [1 .. Len(s) -> AllPairs]
    BY <1>1, <2>1, <2>2
  <2>5. v \in [1 .. Len(t) -> AllPairs]
    BY <1>1, <2>1, <2>3
  <2> HIDE DEF u, v
  <2> QED  BY <1>1, <2>4, <2>5
<1>5. Listing(s, t) = u \o v
  BY DEF Listing
<1> HIDE DEF u, v
<1>6. Range(u \o v) = Range(u) \cup Range(v)
  BY <1>4, Joined
<1> QED  BY <1>2, <1>3, <1>5, <1>6

LEMMA ListTrashTrash == ASSUME Grows, TInv, Core', NEW j \in Slots, ListTrash(j) PROVE TInv'
<1> DEFINE d == job[j].dest
           kids == KidsIn(fs, d)
           S == {p \in Kids[d] : info[p] # <<>>}
           records == SetToSeq(S)
           list == Listing(kids, records)
           n == job'[j]
           o == job[j]
<1>1. job[j].at = "list" /\ UNCHANGED <<fs, info, undo>> /\ job' = Put(j, [at |-> "next", todo |-> list])
  BY DEF ListTrash, At, Listing
<1>2. Core /\ Active(j) /\ JobOK(o) /\ JobAway(o) /\ RecordsAway
  BY <1>1, TrashFrom
<1>3. o.op = "empty" /\ o.later = <<>> /\ Deletes(o)
  BY <1>1, <1>2 DEF JobOK, StagesOf, Deletes
<1>4. d \in Paths /\ Doomed(o) = Kids[d]
  BY <1>2, <1>3, PlacesAssumption DEF JobOK, Doomed
<1>5. kids \in Seq(Paths) /\ Range(kids) = {q \in Kids[d] : fs[q] # NoEnt} /\ Kids[d] \subseteq Paths
  BY <1>4, KidsInAre, KidsAre
<1>6. records \in Seq(S) /\ Range(records) = S /\ S \subseteq Kids[d]
  <2>1. IsFiniteSet(S)
    BY <1>5, FS_Subset, PlacesAssumption
  <2> QED  BY <2>1, SetToSeqLists
<1>7. kids \in Seq(MaybePaths) /\ records \in Seq(MaybePaths)
  <2>1. Paths \subseteq MaybePaths /\ S \subseteq MaybePaths
    BY <1>5, <1>6 DEF MaybePaths
  <2> HIDE DEF kids, records, S
  <2> QED  BY <1>5, <1>6, <2>1
<1>8. /\ \A p \in Trashed : p \in Kids[d] /\ fs[p] # NoEnt => p \in Range(kids)
      /\ \A p \in Trashed : p \in Kids[d] /\ info[p] # <<>> => p \in Range(records)
  BY <1>5, <1>6
<1> HIDE DEF kids, records, S
<1>9. /\ \A x \in Range(list) : (x.from \in Range(kids) /\ x.to = <<>>) \/ (x.from = <<>> /\ x.to \in Range(records))
      /\ \A p \in Range(kids) : \E x \in Range(list) : x.from = p
      /\ \A p \in Range(records) : Pair(<<>>, p) \in Range(list)
  BY <1>7, PairsOf, ListsAll
<1> HIDE DEF list
<1> DEFINE r == [at |-> "next", todo |-> list]
<1>10. DOMAIN r = {"at", "todo"} /\ r.at = "next" /\ r.todo = list /\ job' = Put(j, r)
  BY <1>1
<1>11. GoesOn(j)
  BY <1>1, <1>2, WaysOn
<1> HIDE DEF r
<1>12. SameBut(n, o, DOMAIN r) /\ \A x \in DOMAIN r : n[x] = r[x]
  BY <1>2, <1>10, PutCore DEF Fields
<1>13. n.at = "next" /\ n.todo = list /\ n.op = "empty" /\ n.later = <<>> /\ n.cur = o.cur /\ n.dest = o.dest /\ n.step = o.step
       /\ Doomed(n) = Doomed(o) /\ Deletes(n)
  BY <1>3, <1>10, <1>12 DEF SameBut, Fields, Doomed, Deletes
<1> HIDE DEF n, o
<1>14. JobAway(n)
  <2>1. \A i \in Range(n.todo) \cup Range(n.later) \cup {n.cur} : {i.from, i.to} \subseteq Doomed(n) \cup {<<>>}
    BY <1>2, <1>3, <1>4, <1>5, <1>6, <1>9, <1>13, EmptyRange DEF JobAway
  <2>2. (\A p \in Doomed(n) : NoTrash(p)) /\ StepAway(n.step)
    BY <1>2, <1>13 DEF JobAway
  <2> QED  BY <1>13, <2>1, <2>2 DEF JobAway, Away, TakesAside, PutsAside
<1>15. Emptying(n) /\ ~Filling(n) /\ InTheHandsOf(n) = Doomed(o) /\ HandsOff(o)
  BY <1>1, <1>3, <1>13 DEF Emptying, Filling, InTheHandsOf, HandsOff, o
<1>16. Tidy(fs', info', n)
  <2>1. ASSUME NEW p \in Doomed(n) \cap Trashed
        PROVE  /\ fs'[p] # NoEnt => ToGo(n, p)
               /\ n.op = "empty" /\ info'[p] # <<>> => Pair(<<>>, p) \in Range(n.todo)
    BY <1>1, <1>4, <1>8, <1>9, <1>13 DEF ToGo
  <2> QED  BY <1>15, <2>1 DEF Tidy
<1>17. ASSUME Booked PROVE Settled(n)
  <2>1. ASSUME NEW p \in Trashed, p \notin Doomed(o) PROVE Matched(fs', info', faults'.records, p)
    <3>1. p \notin InTheHandsOf(job[j])
      BY <1>15 DEF HandsOff, InTheHandsOf, o
    <3>2. Matched(fs, info, faults.records, p)
      BY <1>2, <1>11, <1>17, <3>1, MatchedBefore DEF GoesOn
    <3> QED  BY <1>1, <3>2 DEF Matched, Grows
  <2> QED  BY <1>15, <2>1 DEF Settled
<1>18. RecordsAway' /\ undo' = undo
  BY <1>1, <1>2 DEF RecordsAway, Restorable, Grows
<1> QED  BY <1>2, <1>11, <1>14, <1>16, <1>17, <1>18, TrashKept DEF n

LEMMA TrashItemTrash == ASSUME Grows, TInv, Core', TrashNearby, NEW j \in Slots, TrashItem(j) PROVE TInv'
<1> DEFINE a == Item(j).from
           r == job[j]
           n == job'[j]
<1>1. job[j].at = "next" /\ job[j].op = "trash" /\ job[j].todo # <<>> /\ UNCHANGED <<fs, undo>>
  BY DEF TrashItem, Taking, At
<1>2. Core /\ JobOK(job[j]) /\ JobAway(job[j]) /\ job[j].todo \in Seq(AllPairs) /\ job[j].stack = <<>> /\ RecordsAway /\ Active(j)
  BY <1>1, TrashFrom DEF Walking
<1>3. a \in Paths /\ Aside(a)
  <2>1. Away(job[j].op, Item(j))
    BY <1>1, <1>2, ItemAway DEF Item
  <2> QED  BY <1>1, <1>2, <2>1, ItemIs DEF Away, TakesAside
<1>4. CASE Skip(j, TRUE) /\ UNCHANGED info
  BY <1>1, <1>4, SkipTrash DEF Deletes
<1>5. ASSUME NEW q \in FirstOpen(<<TrashOf[Head(a)], Last(a)>>, {t \in Trashed : fs[t] = NoEnt /\ info[t] = <<>>}),
             GoesToRename(j, a, q), NEW note \in {a, Blank}, info' = [info EXCEPT ![q] = note],
             note = Blank => q \in faults'.records
      PROVE  TInv'
  <2>1. q \in Trashed /\ q \in Paths /\ fs[q] = NoEnt
    BY FirstOpenIn DEF Trashed
  <2>2. VolumeOf(a) = VolumeOf(q)
    <3>1. Head(q) = TrashOf[Head(a)]
      BY <1>5, InThatTrash
    <3>2. VolumeOf(<<TrashOf[Head(a)]>>) = VolumeOf(a)
      BY <1>3 DEF TrashNearby
    <3> QED  BY <3>1, <3>2 DEF VolumeOf
  <2>3. \A p \in Trashed : (p # q => info'[p] = info[p]) /\ info'[q] = note
    BY <1>2, <1>5, <2>1 DEF Core
  <2>4. a # <<>> /\ note # <<>>
    <3>1. a # <<>>
      BY <1>3, PathsAssumption
    <3>2. Blank # <<>>
      BY DEF Blank
    <3> QED  BY <1>5, <3>1, <3>2
  <2> HIDE DEF a
  <2>5. /\ NoOther(j) /\ SameBut(job'[j], job[j], TakenFields) /\ job'[j].todo = Tail(job[j].todo)
        /\ job'[j].cur = Pair(a, q) /\ job'[j].at = "rename"
    BY ONLY <1>2, <1>5, TakenRename
  <2>6. job'[j].cur.from = a /\ job'[j].cur.to = q
    BY <2>5, PairIs
  <2>7. Away(job[j].op, job'[j].cur)
    BY <1>1, <1>3, <2>6 DEF Away, PutsAside
  <2>8. Active(j) /\ GoesOn(j) /\ JobAway(n) /\ n.op = "trash"
    BY <1>1, <2>2, <2>5, <2>6, <2>7, TakenAway DEF Deletes
  <2>9. Filling(n) /\ ~Emptying(n) /\ InTheHandsOf(n) = {q} /\ HandsOff(r)
    BY <1>1, <2>5, <2>6, <2>8 DEF Filling, Emptying, Deletes, InTheHandsOf, HandsOff
  <2>10. Tidy(fs', info', n)
    BY <1>1, <2>1, <2>3, <2>4, <2>6, <2>9 DEF Tidy
  <2>11. ASSUME Booked PROVE Settled(n)
    <3>1. ASSUME NEW p \in Trashed, p # q PROVE Matched(fs', info', faults'.records, p)
      <4>1. p \notin InTheHandsOf(job[j])
        BY <2>9 DEF HandsOff, InTheHandsOf
      <4>2. Matched(fs, info, faults.records, p)
        BY <1>2, <2>8, <2>11, <4>1, MatchedBefore DEF GoesOn
      <4> QED  BY <1>1, <2>3, <3>1, <4>2 DEF Matched, Grows
    <3> QED  BY <2>9, <3>1 DEF Settled
  <2>12. RecordsAway' /\ undo' = undo
    <3>1. \A p \in Trashed : p # q => info'[p] = info[p]
      BY <2>3
    <3>2. info'[q] = note /\ (note = Blank => q \in faults'.records) /\ (note # Blank => note = a)
      BY <1>5, <2>1, <2>3
    <3> HIDE DEF n, r
    <3> QED  BY <1>1, <1>2, <1>3, <2>2, <3>1, <3>2 DEF RecordsAway, Restorable, Grows
  <2> QED  BY <2>8, <2>10, <2>11, <2>12, TrashKept
<1>6. \/ Skip(j, TRUE) /\ UNCHANGED info
      \/ \E q \in FirstOpen(<<TrashOf[Head(a)], Last(a)>>, {t \in Trashed : fs[t] = NoEnt /\ info[t] = <<>>}) :
           \E note \in {a, Blank} : /\ GoesToRename(j, a, q) /\ info' = [info EXCEPT ![q] = note]
                                    /\ note = Blank => q \in faults'.records
  <2>1. a # Blank
    BY <1>3, PlacesAssumption DEF Blank
  <2>2. \A q : FaultLeaving("record", {}, {q}) => q \in faults'.records
    BY DEF FaultLeaving
  <2> QED  BY <2>1, <2>2 DEF TrashItem, GoesToRename
<1> HIDE DEF a
<1> QED  BY <1>4, <1>5, <1>6

LEMMA ForgetDeletedTrash == ASSUME Grows, TInv, Core', NEW j \in Slots, ForgetDeleted(j) PROVE TInv'
<1> DEFINE r == job[j]
           n == job'[j]
<1>1. r.at = "forget" /\ UNCHANGED <<fs, undo>> /\ ToStage(j, "returned")
  BY DEF ForgetDeleted, At, ToStage
<1>0. PICK stays \in SUBSET Trashed :
        /\ stays \subseteq faults'.records
        /\ info' = [p \in Trashed |-> IF p \in Range(r.args) \ stays THEN <<>> ELSE info[p]]
  <2>1. PICK stays \in SUBSET {p \in Trashed : info[p] # <<>> /\ p \in Range(r.args)} :
          /\ IF stays = {} THEN UNCHANGED faults ELSE FaultLeaving("unlink", {}, stays)
          /\ info' = [p \in Trashed |-> IF p \in Range(r.args) \ stays THEN <<>> ELSE info[p]]
    BY DEF ForgetDeleted
  <2>2. stays \subseteq faults'.records
    BY <2>1 DEF FaultLeaving
  <2>3. stays \in SUBSET Trashed
    OBVIOUS
  <2> HIDE DEF r
  <2> QED  BY <2>1, <2>2, <2>3
<1>2. Core /\ Active(j) /\ JobOK(r) /\ JobAway(r) /\ RecordsAway
  BY <1>1, TrashFrom
<1>3. r.op = "remove"
  BY <1>1, <1>2 DEF JobOK, StagesOf
<1>4. Active(j) /\ GoesOn(j) /\ JobAway(n) /\ n.at = "returned"
  BY <1>1, StageAway
<1>5. Emptying(r) /\ ~Emptying(n) /\ Doomed(r) = Range(r.args)
  BY <1>1, <1>3, <1>4 DEF Emptying, Deletes, Doomed
<1>6. ASSUME ~HalfDeleted', Booked, NEW p \in Trashed, p \in Doomed(r), ~r.cancel, ~r.errs PROVE Matched(fs', info', faults'.records, p)
  <2>1. Tidy(fs, info, r)
    BY <1>6 DEF Booked
  <2>2. fs[p] = NoEnt
    BY <1>1, <1>5, <1>6, <2>1 DEF Tidy, ToGo
  <2> QED  BY <1>1, <1>0, <1>5, <1>6, <2>2 DEF Matched, Grows
<1>7. RecordsAway' /\ \A p \in Trashed \ Doomed(r) : fs'[p] = fs[p] /\ info'[p] = info[p]
  <2>1. \A p \in Trashed : info'[p] \in {info[p], <<>>}
    BY <1>0
  <2>2. RecordsAway'
    BY <1>2, <2>1, RecordsStay
  <2>3. \A p \in Trashed \ Doomed(r) : fs'[p] = fs[p] /\ info'[p] = info[p]
    BY <1>0, <1>1, <1>5
  <2> QED  BY <2>2, <2>3
<1> HIDE DEF r, n
<1> QED  BY <1>1, <1>4, <1>5, <1>6, <1>7, DeletionDone, Zenon DEF r, n

-------------------------------------------------------------------------------
(* An item is reported, or undone.                                         *)

(* An item is reported. *)
LEMMA ReportAway ==
  ASSUME TInv, NEW j \in Slots, job[j].at \in {"rename", "copying", "removing"}, NEW tree, NEW stage \in {"next", "next2"},
         job' = Report(j, tree, stage)
  PROVE  /\ Active(j) /\ GoesOn(j) /\ JobAway(job'[j]) /\ job'[j].op = job[j].op /\ job'[j].at = stage
         /\ job'[j].todo = job[j].todo
<1> DEFINE n == job'[j]
           o == job[j]
           r == [at |-> stage, out |-> Append(job[j].out, job[j].cur), honest |-> Told(j, tree)]
<1>1. Core /\ Active(j) /\ JobAway(o) /\ JobOK(o)
  BY TrashFrom
<1>2. GoesOn(j) /\ SameBut(n, o, {"at", "out", "honest"}) /\ n.at = stage
  BY <1>1, WaysOn, ReportIs
<1>3. DOMAIN r = {"at", "out", "honest"} /\ r.out = Append(o.out, o.cur) /\ job' = Put(j, r)
  BY DEF Report, Told
<1> HIDE DEF r
<1>4. n.out = Append(o.out, o.cur)
  BY <1>1, <1>3, PutCore DEF Fields
<1>5. n.todo = o.todo /\ n.later = o.later /\ n.cur = o.cur /\ n.op = o.op /\ SameBut(n, o, Moving)
  BY <1>2 DEF SameBut, Fields, GoesOn
<1>6. o.op \in {"copy", "move", "trash"} => Range(n.out) \subseteq Range(o.out) \cup {o.cur}
  <2>1. SUFFICES ASSUME o.op \in {"copy", "move", "trash"} PROVE Range(n.out) \subseteq Range(o.out) \cup {o.cur}
    OBVIOUS
  <2>2. o.out \in Seq(FullPairs) /\ o.cur \in FullPairs
    BY <1>1, <2>1, OnItsWay DEF JobOK, OutOK
  <2> HIDE DEF n, o
  <2> QED  BY <1>4, <2>2, Appending
<1> HIDE DEF n, o
<1>7. JobAway(n)
  BY <1>1, <1>2, <1>5, <1>6, AwayKept
<1> QED  BY <1>1, <1>2, <1>5, <1>7 DEF n, o

LEMMA ReportTrash ==
  ASSUME Grows, TInv, Core', NEW j \in Slots, job[j].at \in {"rename", "copying", "removing"}, NEW tree, NEW stage \in {"next", "next2"},
         job' = Report(j, tree, stage), job[j].op \in {"copy", "move", "moveBack"}, UNCHANGED <<info, undo>>, TrashStays
  PROVE  TInv'
<1>1. Active(j) /\ GoesOn(j) /\ JobAway(job'[j]) /\ job'[j].op = job[j].op
  BY ReportAway
<1>2. HandsOff(job[j]) /\ HandsOff(job'[j])
  BY <1>1 DEF HandsOff, Filling, Emptying, Deletes
<1> QED  BY <1>1, <1>2, TrashUntouched

(* A copy or a removal begins. *)
LEMMA WalkTrash ==
  ASSUME Grows, TInv, Core', NEW j \in Slots, job[j].at \in {"rename", "copying"}, NEW stage, NEW do,
         job' = Walk(j, stage, do), job[j].op \in {"copy", "move", "moveBack"}, UNCHANGED <<fs, info, undo>>
  PROVE  TInv'
<1> DEFINE n == job'[j]
           o == job[j]
<1>1. Core /\ Active(j) /\ JobAway(o)
  BY TrashFrom
<1>2. GoesOn(j) /\ SameBut(n, o, {"at", "ok", "stack"})
  BY <1>1, WaysOn, WalkIs
<1>3. n.todo = o.todo /\ n.later = o.later /\ n.cur = o.cur /\ n.op = o.op /\ n.out = o.out /\ SameBut(n, o, Moving)
  BY <1>2 DEF SameBut, Fields, GoesOn
<1>4. o.op \in {"copy", "move", "moveBack"}
  OBVIOUS
<1> HIDE DEF n, o
<1>5. JobAway(n)
  BY <1>1, <1>3, <1>4, AwayKept
<1>6. HandsOff(o) /\ HandsOff(n) /\ TrashStays
  BY <1>3, <1>4 DEF HandsOff, Filling, Emptying, Deletes, TrashStays
<1> QED  BY <1>1, <1>2, <1>5, <1>6, TrashUntouched DEF n, o

LEMMA ClearedTrash == ASSUME Grows, TInv, Core', NEW j \in Slots, Cleared(j) PROVE TInv'
<1>1. job[j].at = "clearing" /\ ToStage(j, "rename") /\ UNCHANGED <<fs, info, undo>>
  BY WalkedIdle DEF Cleared, ToStage
<1>2. job[j].op = "move"
  BY <1>1, TrashFrom DEF JobOK, StagesOf
<1> QED  BY <1>1, <1>2, StageTrash

LEMMA UnwoundTrash == ASSUME Grows, TInv, Core', NEW j \in Slots, Unwound(j) PROVE TInv'
<1>1. job[j].at = "unwinding"
  BY WalkedIdle DEF Unwound
<1>2. job[j].op = "trash" /\ JobAway(job[j])
  BY <1>1, TrashFrom DEF JobOK, StagesOf
<1> QED  BY <1>1, <1>2 DEF JobAway

(* Within a drive nothing is copied into a trash or out of it. *)
LEMMA AcrossDrives ==
  ASSUME TInv, NEW j \in Slots, job[j].at = "copying"
  PROVE  job[j].op \in {"copy", "move", "moveBack"}
<1>1. JobOK(job[j]) /\ JobAway(job[j])
  BY TrashFrom
<1> QED  BY <1>1 DEF JobOK, StagesOf, JobAway

LEMMA CopiedTrash == ASSUME Grows, TInv, Core', NEW j \in Slots, Copied(j) PROVE TInv'
<1>1. job[j].at = "copying" /\ UNCHANGED <<fs, info, undo>>
  BY WalkedIdle DEF Copied
<1>2. job[j].op \in {"copy", "move", "moveBack"}
  BY <1>1, AcrossDrives
<1>3. \/ \E tree : \E stage \in {"next", "next2"} : job' = Report(j, tree, stage)
      \/ \E stage : ToStage(j, stage)
      \/ \E stage, do : job' = Walk(j, stage, do)
  BY <1>2 DEF Copied, ToStage
<1>4. TrashStays
  BY <1>1 DEF TrashStays
<1>5. CASE \E tree : \E stage \in {"next", "next2"} : job' = Report(j, tree, stage)
  BY <1>1, <1>2, <1>4, <1>5, ReportTrash
<1>6. CASE \E stage : ToStage(j, stage)
  BY <1>1, <1>2, <1>6, StageTrash
<1>7. CASE \E stage, do : job' = Walk(j, stage, do)
  BY <1>1, <1>2, <1>7, WalkTrash
<1> QED  BY <1>3, <1>5, <1>6, <1>7

LEMMA RemovedTrash == ASSUME Grows, TInv, Core', NEW j \in Slots, Removed(j) PROVE TInv'
<1> DEFINE r == job[j]
           n == job'[j]
<1>1. job[j].at = "removing" /\ UNCHANGED <<fs, undo>> /\ job[j].stack = <<>>
  BY WalkedIdle DEF Removed
<1>2. Core /\ JobOK(r) /\ JobAway(r) /\ RecordsAway
  BY <1>1, TrashFrom
<1>3. r.op \in {"move", "moveBack"} \/ Deletes(r)
  BY <1>1, <1>2 DEF JobOK, StagesOf, JobAway, Deletes
<1>4. UNCHANGED info
  BY <1>3 DEF Removed, Deletes
<1>5. TrashStays
  BY <1>1 DEF TrashStays
<1>6. CASE r.op \in {"move", "moveBack"}
  <2>1. \E stage \in {"next", "next2"} : job' = Report(j, fs, stage)
    BY <1>6 DEF Removed
  <2> QED  BY <1>1, <1>4, <1>5, <1>6, <2>1, ReportTrash
<1>7. CASE Deletes(r)
  <2>1. job' = Report(j, fs, "next") \/ ToStage(j, "next")
    BY <1>7 DEF Removed, ToStage, Deletes
  <2>2. Active(j) /\ GoesOn(j) /\ JobAway(n) /\ n.op = r.op /\ n.at = "next" /\ n.todo = r.todo
    <3>1. CASE job' = Report(j, fs, "next")
      BY <1>1, <3>1, ReportAway
    <3>2. CASE ToStage(j, "next")
      <4>1. Active(j) /\ GoesOn(j) /\ JobAway(n) /\ n.at = "next" /\ SameBut(n, r, {"at", "errs"})
        BY <1>1, <3>2, StageAway
      <4> QED  BY <4>1 DEF SameBut, Fields
    <3> QED  BY <2>1, <3>1, <3>2
  <2>3. Emptying(r) /\ Emptying(n)
    BY <1>1, <1>7, <2>2 DEF Emptying, Deletes
  <2>4. ASSUME ~HalfDeleted', Booked, NEW p \in Trashed, p \in Doomed(r), ~r.cancel, ~r.errs, ~n.cancel, ~n.errs
        PROVE  /\ fs'[p] # NoEnt => ToGo(n, p)
               /\ r.op = "empty" /\ info'[p] # <<>> => Pair(<<>>, p) \in Range(n.todo)
    <3>1. Tidy(fs, info, r)
      BY <2>4 DEF Booked
    <3>2. /\ fs[p] # NoEnt => ToGo(r, p)
          /\ r.op = "empty" /\ info[p] # <<>> => Pair(<<>>, p) \in Range(r.todo)
      BY <2>3, <2>4, <3>1 DEF Tidy
    <3>3. ToGo(r, p) => ToGo(n, p)
      BY <1>1, <2>2, EmptyRange DEF ToGo
    <3> QED  BY <1>1, <1>4, <2>2, <3>2, <3>3
  <2>5. RecordsAway' /\ \A p \in Trashed \ Doomed(r) : fs'[p] = fs[p] /\ info'[p] = info[p]
    BY <1>1, <1>2, <1>4 DEF RecordsAway, Restorable, Grows
  <2> HIDE DEF r, n
  <2> QED  BY <1>1, <2>2, <2>3, <2>4, <2>5, DeletionKept, Zenon DEF r, n
<1> QED  BY <1>3, <1>6, <1>7

(* A record is removed, or known to be left.                               *)
ForgottenOnly(q) == /\ \A p \in Trashed : p # q => info'[p] = info[p]
                    /\ info'[q] = <<>> \/ (info'[q] = info[q] /\ q \in faults'.records)
LEMMA RecordForgotten == ASSUME info \in [Trashed -> Records], NEW q \in Trashed, Forget(q) PROVE ForgottenOnly(q)
<1>1. (info' = [info EXCEPT ![q] = <<>>]) \/ (info' = info /\ q \in faults'.records)
  BY DEF Forget, FaultLeaving
<1> QED  BY <1>1 DEF ForgottenOnly

LEMMA UnrecordTrash == ASSUME Grows, TInv, Core', NEW j \in Slots, Unrecord(j) PROVE TInv'
<1> DEFINE r == job[j]
           n == job'[j]
           q == job[j].cur.to
<1>1. r.at = "unrecord" /\ UNCHANGED <<fs, undo>> /\ ToStage(j, "next") /\ Forget(q)
  BY DEF Unrecord, At, ToStage
<1>2. Core /\ JobOK(r) /\ RecordsAway /\ Active(j)
  BY <1>1, TrashFrom
<1>3. r.op = "trash" /\ q \in Trashed
  BY <1>1, <1>2, OnItsWay DEF JobOK, StagesOf
<1>4. GoesOn(j) /\ JobAway(n) /\ n.at = "next" /\ n.op = r.op
  <2>1. GoesOn(j) /\ JobAway(n) /\ n.at = "next" /\ SameBut(n, r, {"at", "errs"})
    BY <1>1, StageAway
  <2> QED  BY <2>1 DEF SameBut, Fields
<1>5. HandsOff(n) /\ Filling(r) /\ InTheHandsOf(r) = {q}
  BY <1>1, <1>3, <1>4 DEF HandsOff, Filling, Emptying, Deletes, InTheHandsOf
<1>6. ForgottenOnly(q)
  <2>1. info \in [Trashed -> Records] /\ Forget(q)
    BY <1>1, <1>2 DEF Core
  <2> HIDE DEF q
  <2> QED  BY <1>3, <2>1, RecordForgotten
<1>7. Tidy(fs', info', n)
  BY <1>5 DEF Tidy, HandsOff
<1>8. ASSUME Booked PROVE Settled(n)
  <2>1. ASSUME NEW p \in Trashed, p # q PROVE Matched(fs', info', faults'.records, p)
    <3>1. Matched(fs, info, faults.records, p)
      BY <1>2, <1>4, <1>5, <1>8, <2>1, MatchedBefore DEF GoesOn
    <3> QED  BY <1>1, <1>6, <2>1, <3>1 DEF ForgottenOnly, Matched, Grows
  <2>2. Matched(fs', info', faults'.records, q)
    <3>1. Tidy(fs, info, r)
      BY <1>8 DEF Booked
    <3> QED  BY <1>1, <1>3, <1>5, <1>6, <3>1 DEF ForgottenOnly, Tidy, Matched, Grows
  <2> QED  BY <2>1, <2>2 DEF Settled
<1>9. RecordsAway' /\ undo' = undo
  <2>1. \A p \in Trashed : info'[p] \in {info[p], <<>>}
    BY <1>6 DEF ForgottenOnly
  <2> QED  BY <1>1, <1>2, <2>1, RecordsStay
<1> QED  BY <1>2, <1>4, <1>7, <1>8, <1>9, TrashKept

-------------------------------------------------------------------------------
(* The rename, and all steps of a call.                                    *)

LEMMA RenamedTrash ==
  ASSUME Grows, TInv, Core', NEW j \in Slots, job[j].at = "rename", RenameErr(fs, job[j].cur.from, job[j].cur.to) = "ok",
         fs' = Renamed(fs, job[j].cur.from, job[j].cur.to), job' = Report(j, fs', "next"), undo' = undo,
         IF job[j].op = "restore" THEN Forget(job[j].cur.from) ELSE UNCHANGED info
  PROVE  TInv'
<1> DEFINE r == job[j]
           n == job'[j]
           a == job[j].cur.from
           b == job[j].cur.to
<1>1. Core /\ JobOK(r) /\ JobAway(r) /\ RecordsAway /\ Active(j)
  BY TrashFrom
<1>2. a \in Paths /\ b \in Paths /\ r.op \in {"move", "moveBack", "trash", "restore"}
  <2>1. r.cur \in FullPairs
    BY OnItsWay, <1>1
  <2>2. r.op \in {"move", "moveBack", "trash", "restore"}
    BY <1>1 DEF JobOK, StagesOf
  <2> QED  BY <2>1, <2>2 DEF FullPairs
<1>3. Away(r.op, r.cur) /\ (r.op = "trash" => b \in Trashed) /\ (r.op = "restore" => a \in Trashed)
  BY <1>1, OnItsWay DEF JobAway
<1>4. Active(j) /\ GoesOn(j) /\ JobAway(n) /\ n.op = r.op /\ n.at = "next"
  BY ReportAway
<1>5. CASE r.op \in {"move", "moveBack"}
  <2>1. Aside(a) /\ Aside(b)
    BY <1>3, <1>5 DEF Away, TakesAside, PutsAside
  <2>2. TrashStays
    BY <1>1, <1>2, <2>1, StaysRenaming
  <2> QED  BY <1>5, <2>2, ReportTrash
<1>6. CASE r.op = "trash"
  <2>1. Aside(a) /\ b \in Trashed
    BY <1>3, <1>6 DEF Away, TakesAside
  <2>2. NoTrash(a) /\ NoTrash(b) /\ a \notin Trashed /\ a # b
    <3>1. Len(b) = 2
      BY <2>1, TrashedAre
    <3>2. NoTrash(a) /\ a \notin Trashed
      BY <1>2, <2>1, AsideIs
    <3> QED  BY <2>1, <3>1, <3>2 DEF NoTrash
  <2>3. (\A p \in Trashed : p # b => fs'[p] = fs[p]) /\ fs'[b] # NoEnt
    BY <1>1, <1>2, <2>2, TrashRenamed
  <2>4. UNCHANGED info
    BY <1>6
  <2>5. Filling(r) /\ InTheHandsOf(r) = {b} /\ HandsOff(n)
    BY <1>4, <1>6 DEF Filling, InTheHandsOf, HandsOff, Emptying, Deletes
  <2>6. Tidy(fs', info', n)
    BY <2>5 DEF HandsOff, Tidy
  <2>7. ASSUME Booked PROVE Settled(n)
    <3>1. ASSUME NEW p \in Trashed, p # b PROVE Matched(fs', info', faults'.records, p)
      <4>1. Matched(fs, info, faults.records, p)
        BY <1>1, <1>4, <2>5, <2>7, <3>1, MatchedBefore DEF GoesOn
      <4> QED  BY <2>3, <2>4, <3>1, <4>1 DEF Matched, Grows
    <3>2. Matched(fs', info', faults'.records, b)
      <4>1. Tidy(fs, info, r)
        BY <2>7 DEF Booked
      <4> QED  BY <2>3, <2>4, <2>5, <4>1 DEF Tidy, Matched, Grows
    <3> QED  BY <3>1, <3>2 DEF Settled
  <2>8. RecordsAway'
    BY <1>1, <2>4 DEF RecordsAway, Restorable, Grows
  <2> QED  BY <1>1, <1>4, <2>6, <2>7, <2>8, TrashKept
<1>7. CASE r.op = "restore"
  <2>1. Aside(b) /\ a \in Trashed
    BY <1>3, <1>7 DEF Away, PutsAside
  <2>2. NoTrash(a) /\ NoTrash(b) /\ b \notin Trashed /\ a # b
    <3>1. Len(a) = 2
      BY <2>1, TrashedAre
    <3>2. NoTrash(b) /\ b \notin Trashed
      BY <1>2, <2>1, AsideIs
    <3> QED  BY <2>1, <3>1, <3>2 DEF NoTrash
  <2>3. (\A p \in Trashed : p # a => fs'[p] = fs[p]) /\ fs'[a] = NoEnt
    BY <1>1, <1>2, <2>1, <2>2, TrashRenamed
  <2>4. ForgottenOnly(a)
    <3>1. info \in [Trashed -> Records] /\ Forget(a)
      BY <1>1, <1>7 DEF Core
    <3> HIDE DEF a
    <3> QED  BY <2>1, <3>1, RecordForgotten
  <2>5. HandsOff(r) /\ HandsOff(n)
    BY <1>4, <1>7 DEF Filling, HandsOff, Emptying, Deletes
  <2>6. Tidy(fs', info', n)
    BY <2>5 DEF HandsOff, Tidy
  <2>7. ASSUME Booked PROVE Settled(n)
    <3>1. ASSUME NEW p \in Trashed, p # a PROVE Matched(fs', info', faults'.records, p)
      <4>1. p \notin InTheHandsOf(job[j])
        BY <2>5 DEF HandsOff, InTheHandsOf
      <4>2. Matched(fs, info, faults.records, p)
        BY <1>1, <1>4, <2>7, <3>1, <4>1, MatchedBefore DEF GoesOn
      <4> QED  BY <2>3, <2>4, <3>1, <4>2 DEF ForgottenOnly, Matched, Grows
    <3>2. Matched(fs', info', faults'.records, a)
      BY <2>1, <2>3, <2>4 DEF ForgottenOnly, Matched, Grows
    <3> QED  BY <3>1, <3>2 DEF Settled
  <2>8. RecordsAway'
    <3>1. \A p \in Trashed : info'[p] \in {info[p], <<>>}
      BY <2>4 DEF ForgottenOnly
    <3> QED  BY <1>1, <3>1, RecordsStay
  <2> QED  BY <1>1, <1>4, <2>6, <2>7, <2>8, TrashKept
<1> QED  BY <1>2, <1>5, <1>6, <1>7

(* A rename that fails. *)
LEMMA NotRenamedTrash ==
  ASSUME Grows, TInv, Core', NEW j \in Slots, job[j].at = "rename", UNCHANGED <<fs, info, undo>>,
         Error(j, IF job[j].op = "trash" THEN "unrecord" ELSE "next")
  PROVE  TInv'
<1> DEFINE r == job[j]
           n == job'[j]
           stage == IF job[j].op = "trash" THEN "unrecord" ELSE "next"
<1>1. Core /\ JobOK(r) /\ JobAway(r) /\ RecordsAway /\ Active(j)
  BY TrashFrom
<1>2. r.op \in {"move", "moveBack", "trash", "restore"}
  BY <1>1 DEF JobOK, StagesOf
<1>3. ToStage(j, stage) /\ stage \in {"unrecord", "next"} /\ (stage = "unrecord" <=> r.op = "trash")
  BY DEF ToStage
<1> HIDE DEF stage
<1>4. Active(j) /\ GoesOn(j) /\ JobAway(n) /\ n.at = stage /\ n.op = r.op /\ n.cur = r.cur
  <2>1. GoesOn(j) /\ JobAway(n) /\ n.at = stage /\ SameBut(n, r, {"at", "errs"})
    BY <1>3, StageAway
  <2> QED  BY <1>1, <2>1 DEF SameBut, Fields
<1>5. TrashStays /\ RecordsAway' /\ undo' = undo
  BY <1>1 DEF TrashStays, RecordsAway, Restorable, Grows
<1>6. CASE r.op # "trash"
  <2>1. HandsOff(r) /\ HandsOff(n)
    BY <1>2, <1>4, <1>6 DEF HandsOff, Filling, Emptying, Deletes
  <2> QED  BY <1>4, <1>5, <2>1, TrashUntouched
<1>7. CASE r.op = "trash"
  <2>1. Filling(r) /\ Filling(n) /\ ~Emptying(n) /\ InTheHandsOf(r) = {r.cur.to} /\ InTheHandsOf(n) = {r.cur.to}
    BY <1>3, <1>4, <1>7 DEF Filling, Emptying, Deletes, InTheHandsOf
  <2>2. ASSUME Booked PROVE Tidy(fs', info', n) /\ Settled(n)
    <3>1. Tidy(fs, info, r)
      BY <2>2 DEF Booked
    <3>2. Tidy(fs', info', n)
      BY <1>4, <2>1, <3>1 DEF Tidy
    <3>3. ASSUME NEW p \in Trashed, p # r.cur.to PROVE Matched(fs', info', faults'.records, p)
      <4>1. Matched(fs, info, faults.records, p)
        BY <1>1, <1>4, <2>1, <2>2, <3>3, MatchedBefore DEF GoesOn
      <4> QED  BY <4>1 DEF Matched, Grows
    <3> QED  BY <2>1, <3>2, <3>3 DEF Settled
  <2> QED  BY <1>1, <1>4, <1>5, <2>2, TrashKept
<1> QED  BY <1>6, <1>7

(* What move cannot rename goes on its second list. *)
LEMMA PutOffTrash ==
  ASSUME Grows, TInv, Core', NEW j \in Slots, job[j].at = "rename", job[j].op = "move", UNCHANGED <<fs, info, undo>>,
         job' = Put(j, [at |-> "next", later |-> Append(job[j].later, job[j].cur)])
  PROVE  TInv'
<1> DEFINE n == job'[j]
           o == job[j]
           r == [at |-> "next", later |-> Append(job[j].later, job[j].cur)]
<1>1. Core /\ Active(j) /\ JobAway(o) /\ JobOK(o) /\ o.op = "move" /\ o.cur \in FullPairs /\ o.later \in Seq(FullPairs)
  BY TrashFrom, OnItsWay
<1>2. DOMAIN r = {"at", "later"} /\ r.at = "next" /\ r.later = Append(o.later, o.cur) /\ job' = Put(j, r)
  OBVIOUS
<1>3. GoesOn(j)
  BY <1>1, WaysOn
<1> HIDE DEF r
<1>4. SameBut(n, o, DOMAIN r) /\ \A x \in DOMAIN r : n[x] = r[x]
  BY <1>1, <1>2, PutCore DEF Fields
<1>5. n.todo = o.todo /\ n.later = Append(o.later, o.cur) /\ n.at = "next" /\ n.cur = o.cur /\ n.out = o.out /\ n.op = o.op
      /\ SameBut(n, o, Moving)
  BY <1>2, <1>3, <1>4 DEF SameBut, Fields, GoesOn
<1> HIDE DEF n, o
<1>6. Range(n.later) \subseteq Range(o.later) \cup {o.cur}
  BY <1>1, <1>5, Appending
<1>7. JobAway(n)
  BY <1>1, <1>5, <1>6, AwayKept
<1>8. HandsOff(o) /\ HandsOff(n) /\ TrashStays
  BY <1>1, <1>5 DEF HandsOff, Filling, Emptying, Deletes, TrashStays
<1> QED  BY <1>1, <1>3, <1>7, <1>8, TrashUntouched DEF n, o

LEMMA RenameTrash == ASSUME Grows, TInv, Core', NEW j \in Slots, Rename(j) PROVE TInv'
<1> DEFINE a == job[j].cur.from
           b == job[j].cur.to
           err == RenameErr(fs, a, b)
<1>1. job[j].at = "rename" /\ undo' = undo
  BY DEF Rename, At
<1>2. JobAway(job[j]) /\ job[j].op \in {"move", "moveBack", "trash", "restore"}
  BY <1>1, TrashFrom DEF JobOK, StagesOf
<1>3. CrossesOver(j, err) => job[j].op \in {"move", "moveBack"}
  BY <1>1, <1>2, ErrnoSays DEF CrossesOver, JobAway
<1>4. \/ /\ err = "ok"
         /\ fs' = Renamed(fs, a, b)
         /\ job' = Report(j, fs', "next")
         /\ IF job[j].op = "restore" THEN Forget(a) ELSE UNCHANGED info
      \/ /\ CrossesOver(j, err)
         /\ job' = IF job[j].op = "move"
                   THEN Put(j, [at |-> "next", later |-> Append(job[j].later, job[j].cur)])
                   ELSE Walk(j, "copying", "copy")
         /\ UNCHANGED <<fs, info>>
      \/ /\ Error(j, IF job[j].op = "trash" THEN "unrecord" ELSE "next")
         /\ UNCHANGED <<fs, info>>
  BY DEF Rename
<1> HIDE DEF err
<1>5. CASE /\ err = "ok"
           /\ fs' = Renamed(fs, a, b)
           /\ job' = Report(j, fs', "next")
           /\ IF job[j].op = "restore" THEN Forget(a) ELSE UNCHANGED info
  BY <1>1, <1>5, RenamedTrash DEF err
<1>6. CASE /\ CrossesOver(j, err)
           /\ job' = IF job[j].op = "move"
                     THEN Put(j, [at |-> "next", later |-> Append(job[j].later, job[j].cur)])
                     ELSE Walk(j, "copying", "copy")
           /\ UNCHANGED <<fs, info>>
  <2>1. CASE job[j].op = "move"
    BY <1>1, <1>6, <2>1, PutOffTrash
  <2>2. CASE job[j].op = "moveBack"
    BY <1>1, <1>6, <2>2, WalkTrash
  <2> QED  BY <1>3, <1>6, <2>1, <2>2
<1>7. CASE Error(j, IF job[j].op = "trash" THEN "unrecord" ELSE "next") /\ UNCHANGED <<fs, info>>
  BY <1>1, <1>7, NotRenamedTrash
<1> QED  BY <1>4, <1>5, <1>6, <1>7

LEMMA CallTrash == ASSUME Grows, TInv, Core', TrashNearby, NEW j \in Slots, CallStep(j) PROVE TInv'
BY MeasureTrash, LoopOverTrash, TransferItemTrash, MoveBackItemTrash, RemoveItemTrash, ListTrashTrash, RemoveRecordTrash,
   TrashItemTrash, RestoreItemTrash, RenameTrash, CopyAcrossTrash, ClearedTrash, CopiedTrash, RemovedTrash, UnwoundTrash,
   UnrecordTrash, ForgetDeletedTrash DEF CallStep

-------------------------------------------------------------------------------
(* A command is given.                                                     *)

(* Nobody has anything in hand. *)
LEMMA AllMatched ==
  ASSUME Core, Booked, \A i \in Slots : ~Active(i)
  PROVE  \A p \in Trashed : Matched(fs, info, faults.records, p)
<1>1. \A i \in Slots : InTheHandsOf(job[i]) = {}
  BY DEF Active, InTheHandsOf, Filling, Emptying
<1> QED  BY <1>1 DEF Booked

(* A call begins. *)
LEMMA StartTrash ==
  ASSUME Grows, TInv, Core', NEW j \in Slots, job[j].at = "unused", \A i \in Slots : ~Active(i), NoOther(j), UNCHANGED <<fs, info>>,
         JobAway(job'[j]), \A s \in Range(undo') : StepAway(s),
         job'[j].at \in {"space", "next", "list"},
         Emptying(job'[j]) => /\ job'[j].op = "remove" /\ job'[j].at = "next"
                              /\ \A p \in Doomed(job'[j]) : \E i \in Range(job'[j].todo) : i.from = p
  PROVE  TInv'
<1> DEFINE n == job'[j]
<1>1. Core /\ RecordsAway /\ \A i \in Slots : JobAway(job[i])
  BY DEF TInv, AllAway
<1>2. \A i \in Slots : i # j => job'[i] = job[i]
  BY DEF NoOther
<1>3. AllAway'
  BY <1>1, <1>2 DEF AllAway, RecordsAway, Restorable, Grows
<1>4. HalfDeleted => HalfDeleted'
  <2>1. job[j] = Fresh
    BY <1>1 DEF Core, JobOK
  <2>2. Clean(j)
    BY <2>1 DEF Clean, Fresh
  <2> QED  BY <1>2, <2>2 DEF HalfDeleted, Clean
<1>5. ASSUME ~HalfDeleted' PROVE Booked'
  <2>1. Booked
    BY <1>4, <1>5 DEF TInv
  <2>2. \A p \in Trashed : Matched(fs', info', faults'.records, p)
    BY <1>1, <2>1, AllMatched DEF Matched, Grows
  <2>3. \A i \in Slots : i # j => Tidy(fs', info', job'[i])
    <3>1. \A i \in Slots : Tidy(fs, info, job[i])
      BY <2>1 DEF Booked
    <3> QED  BY <1>2, <3>1
  <2>4. Tidy(fs', info', n)
    <3>1. ~Filling(n)
      BY DEF Filling
    <3>2. Emptying(n) => n.op # "empty" /\ \A p \in Doomed(n) : ToGo(n, p)
      BY DEF ToGo
    <3> HIDE DEF n
    <3> QED  BY <3>1, <3>2 DEF Tidy
  <2> QED  BY <2>2, <2>3, <2>4 DEF Booked, Matched, Grows
<1> QED  BY <1>3, <1>5 DEF TInv

LEMMA CommandTrash ==
  ASSUME Grows, TInv, Core', Together = {}, TrashLeftAlone, NEW j \in Slots, NEW c \in Commands, Command(j, c)
  PROVE  TInv'
<1>1. Core /\ job[j].at = "unused" /\ (\A i \in Slots : ~Active(i)) /\ UNCHANGED <<fs, info, undo>>
  BY DEF Command, Free, Beside, TInv
<1> DEFINE items == [i \in DOMAIN c.args |-> Pair(c.args[i], <<>>)]
           n == job'[j]
<1>2. PICK policy \in Policies(c) :
        job' = Put(j, [op |-> c.op, at |-> FirstStage(c.op), args |-> c.args, dest |-> c.dest, policy |-> policy, was |-> View, todo |-> items])
  BY DEF Command
<1> DEFINE r == [op |-> c.op, at |-> FirstStage(c.op), args |-> c.args, dest |-> c.dest, policy |-> policy, was |-> View, todo |-> items]
<1>3. DOMAIN r = {"op", "at", "args", "dest", "policy", "was", "todo"} /\ r.op = c.op /\ r.at = FirstStage(c.op) /\ r.dest = c.dest
      /\ r.args = c.args /\ r.todo = items /\ job' = Put(j, r)
  BY <1>2
<1> HIDE DEF r
<1>4. c.args \in Seq(Paths) /\ c.op \in {"copy", "move", "trash", "remove", "restore", "empty"}
      /\ (c.op = "empty" => c.args = <<>> /\ c.dest \in {<<t>> : t \in TrashDirs})
  BY CommandsAssumption
<1>5. DOMAIN r \subseteq Starting /\ job' = Put(j, r) /\ job[j].at = "unused"
  BY <1>1, <1>3 DEF Starting
<1>6. NoOther(j) /\ (\A x \in DOMAIN r : n[x] = r[x]) /\ \A x \in Fields \ DOMAIN r : n[x] = Fresh[x]
  BY ONLY <1>1, <1>5, Starts
<1>7. /\ n.op = c.op /\ n.at = FirstStage(c.op) /\ n.dest = c.dest /\ n.args = c.args /\ n.todo = items
      /\ n.later = <<>> /\ n.cur = Pair(<<>>, <<>>) /\ n.out = <<>> /\ n.step = NoStep
  BY <1>3, <1>6 DEF Fields, Fresh
<1>8. /\ \A x \in Range(items) : x.to = <<>> /\ x.from \in Range(c.args)
      /\ \A p \in Range(c.args) : \E x \in Range(items) : x.from = p
      /\ c.args = <<>> => Range(items) = {} /\ Range(c.args) = {}
  <2>1. DOMAIN items = DOMAIN c.args /\ \A i \in DOMAIN c.args : items[i] = Pair(c.args[i], <<>>)
    OBVIOUS
  <2>2. \A i \in DOMAIN c.args : items[i].from = c.args[i] /\ items[i].to = <<>>
    BY <2>1, PairIs
  <2> HIDE DEF items
  <2>3. Range(items) = {items[i] : i \in DOMAIN c.args} /\ Range(c.args) = {c.args[i] : i \in DOMAIN c.args}
    BY <2>1 DEF Range
  <2>4. c.args = <<>> => DOMAIN c.args = {}
    OBVIOUS
  <2> QED  BY <2>2, <2>3, <2>4
<1>9. /\ c.op \in {"copy", "move"} => Head(c.dest) \notin TrashDirs
      /\ c.op \in {"move", "trash"} => \A p \in Range(c.args) : Aside(p)
      /\ c.op = "remove" => \A p \in Range(c.args) : NoTrash(p)
  BY DEF TrashLeftAlone
<1> HIDE DEF n, items
<1>10. /\ n.op = "remove" => Doomed(n) = Range(c.args)
       /\ n.op = "empty" => Doomed(n) = Kids[c.dest] /\ Range(items) = {}
       /\ ~Deletes(n) => Doomed(n) = {}
  BY <1>4, <1>7, <1>8 DEF Doomed, Deletes
<1>11. \A p \in Doomed(n) : NoTrash(p)
  <2>1. ASSUME n.op = "empty", NEW p \in Doomed(n) PROVE NoTrash(p)
    <3>1. PICK t \in TrashDirs : c.dest = <<t>>
      BY <1>4, <1>7, <2>1
    <3>2. <<t>> \in Paths /\ Len(<<t>>) = 1 /\ p \in Kids[<<t>>]
      BY <1>10, <2>1, <3>1, PlacesAssumption
    <3>3. Len(p) = 2
      BY <3>2 DEF Kids
    <3> QED  BY <3>3 DEF NoTrash
  <2> QED  BY <1>7, <1>9, <1>10, <2>1 DEF Deletes
<1>12. \A i \in Range(n.todo) \cup Range(n.later) \cup {n.cur} : /\ Away(n.op, i)
                                                                 /\ Deletes(n) => {i.from, i.to} \subseteq Doomed(n) \cup {<<>>}
  <2>1. \A i \in Range(items) \cup {Pair(<<>>, <<>>)} : i.to = <<>> /\ (i.from = <<>> \/ i.from \in Range(c.args))
    BY <1>8, PairIs
  <2>2. \A i \in Range(items) \cup {Pair(<<>>, <<>>)} : Away(n.op, i)
    <3>1. Aside(<<>>)
      BY DEF Aside
    <3>2. n.op \in TakesAside => n.op \in {"move", "trash"}
      BY <1>4, <1>7 DEF TakesAside
    <3>3. n.op \in TakesAside => \A i \in Range(items) \cup {Pair(<<>>, <<>>)} : Aside(i.from)
      BY <1>7, <1>9, <2>1, <3>1, <3>2
    <3> QED  BY <2>1, <3>1, <3>3 DEF Away
  <2>3. ASSUME Deletes(n), NEW i \in Range(items) \cup {Pair(<<>>, <<>>)} PROVE {i.from, i.to} \subseteq Doomed(n) \cup {<<>>}
    <3>1. CASE n.op = "remove"
      BY <1>10, <2>1, <3>1
    <3>2. CASE n.op = "empty"
      BY <1>10, <2>1, <3>2, PairIs
    <3> QED  BY <2>3, <3>1, <3>2 DEF Deletes
  <2> QED  BY <1>7, <2>2, <2>3, EmptyRange
<1>13. JobAway(n)
  <2>1. \A i \in Range(n.out) : Away(n.op, i)
    BY <1>7, EmptyRange
  <2>2. StepAway(n.step)
    BY <1>7 DEF StepAway, NoStep
  <2>3. n.at \notin {"copying", "removing", "unwinding", "rename"}
    BY <1>7 DEF FirstStage
  <2>4. n.op \in {"copy", "move"} => Head(n.dest) \notin TrashDirs
    BY <1>7, <1>9
  <2>5. n.op \in {"trash", "restore"} => n.at \notin {"copying", "removing", "unwinding"} /\ n.at # "rename"
    BY <2>3
  <2> QED  BY ONLY <1>11, <1>12, <2>1, <2>2, <2>4, <2>5 DEF JobAway
<1>14. n.at \in {"space", "next", "list"} /\ (n.op = "empty" => n.at = "list") /\ (n.op = "remove" => n.at = "next")
  BY <1>7 DEF FirstStage
<1>15. Emptying(n) => n.op = "remove" /\ n.at = "next" /\ \A p \in Doomed(n) : \E i \in Range(n.todo) : i.from = p
  BY <1>7, <1>8, <1>10, <1>14 DEF Emptying, Deletes
<1>16. \A s \in Range(undo') : StepAway(s)
  BY <1>1 DEF TInv, AllAway
<1> QED  BY <1>1, <1>6, <1>13, <1>14, <1>15, <1>16, StartTrash DEF n

-------------------------------------------------------------------------------
(* Undo, and cancel.                                                       *)

LEMMA UndoTrash ==
  ASSUME Grows, TInv, Core', Together = {}, NEW j \in Slots, Undo(j)
  PROVE  TInv'
<1> DEFINE step == Last(undo)
           op == UndoOp(step.kind)
           arg(p) == IF op = "moveBack" THEN p ELSE Pair(p.to, <<>>)
           items == [i \in DOMAIN step.pairs |-> arg(step.pairs[i])]
           n == job'[j]
<1>1. /\ Core /\ AllAway
      /\ job[j].at = "unused" /\ (\A i \in Slots : ~Active(i)) /\ UNCHANGED <<fs, info>> /\ undo # <<>> /\ undo' = Front(undo)
  BY DEF Undo, Free, Beside, TInv
<1>2. StepAway(step) /\ StepOK(step) /\ \A s \in Range(undo') : StepAway(s)
  <2>1. undo \in Seq(Range(undo)) /\ \A s \in Range(undo) : StepOK(s) /\ StepAway(s)
    BY <1>1 DEF Core, UndoOK, AllAway
  <2>2. step \in Range(undo) /\ Range(undo') \subseteq Range(undo)
    <3>1. undo \in Seq(Range(undo)) /\ Len(undo) \in Nat \ {0} /\ DOMAIN undo = 1 .. Len(undo)
      BY <1>1, <2>1
    <3>2. step = undo[Len(undo)] /\ undo' = [i \in 1 .. Len(undo) - 1 |-> undo[i]]
      BY <1>1, <3>1 DEF Last, Front, SubSeq
    <3> HIDE DEF step
    <3>3. DOMAIN undo' = 1 .. Len(undo) - 1 /\ \A i \in 1 .. Len(undo) - 1 : undo'[i] = undo[i]
      BY <3>2
    <3> QED  BY <3>1, <3>2, <3>3 DEF Range
  <2> QED  BY <2>1, <2>2
<1> DEFINE r == [op |-> op, at |-> "next", step |-> step, todo |-> items]
<1>3. DOMAIN r = {"op", "at", "step", "todo"} /\ r.op = op /\ r.at = "next" /\ r.step = step /\ r.todo = items /\ job' = Put(j, r)
  BY DEF Undo
<1> HIDE DEF r
<1>4. /\ op \in {"trash", "restore", "moveBack"}
      /\ op = "moveBack" => step.kind = "move"
      /\ op = "trash" => step.kind = "copy"
  BY <1>2 DEF UndoOp, StepOK
<1>5. /\ DOMAIN items = DOMAIN step.pairs
      /\ \A i \in DOMAIN step.pairs : items[i] = arg(step.pairs[i])
  OBVIOUS
<1> HIDE DEF items, step, op
<1>6. \A i \in DOMAIN step.pairs : Away(op, items[i])
  <2> TAKE i \in DOMAIN step.pairs
  <2>1. Away(step.kind, step.pairs[i])
    BY <1>2 DEF StepAway
  <2>2. Aside(<<>>) /\ Pair(step.pairs[i].to, <<>>).from = step.pairs[i].to /\ Pair(step.pairs[i].to, <<>>).to = <<>>
    BY PairIs DEF Aside
  <2>3. CASE op = "moveBack"
    BY <1>4, <1>5, <2>1, <2>3 DEF Away, TakesAside, PutsAside
  <2>4. CASE op = "trash"
    BY <1>4, <1>5, <2>1, <2>2, <2>4 DEF Away, TakesAside, PutsAside
  <2>5. CASE op = "restore"
    BY <1>5, <2>2, <2>5 DEF Away, TakesAside, PutsAside
  <2> QED  BY <1>4, <2>3, <2>4, <2>5
<1>7. \A x \in Range(items) : Away(op, x)
  BY <1>5, <1>6 DEF Range
<1>8. DOMAIN r \subseteq Starting /\ job' = Put(j, r) /\ job[j].at = "unused"
  BY <1>1, <1>3 DEF Starting
<1>9. NoOther(j) /\ (\A x \in DOMAIN r : n[x] = r[x]) /\ \A x \in Fields \ DOMAIN r : n[x] = Fresh[x]
  BY ONLY <1>1, <1>8, Starts
<1>10. /\ n.op = op /\ n.at = "next" /\ n.todo = items /\ n.step = step
       /\ n.later = <<>> /\ n.cur = Pair(<<>>, <<>>) /\ n.out = <<>>
  BY <1>3, <1>9 DEF Fields, Fresh
<1> HIDE DEF n
<1>11. ~Deletes(n) /\ Doomed(n) = {}
  BY <1>4, <1>10 DEF Deletes, Doomed
<1>12. \A i \in Range(n.todo) \cup Range(n.later) \cup {n.cur} : Away(n.op, i)
  <2>1. Away(n.op, n.cur)
    BY <1>10, PairIs DEF Away, Aside
  <2> QED  BY <1>7, <1>10, <2>1, EmptyRange
<1>13. JobAway(n)
  <2>1. \A i \in Range(n.out) : Away(n.op, i)
    BY <1>10, EmptyRange
  <2>2. StepAway(n.step) /\ n.op \notin {"copy", "move"} /\ n.at \notin {"copying", "removing", "unwinding", "rename"}
    BY <1>2, <1>4, <1>10
  <2> QED  BY ONLY <1>11, <1>12, <2>1, <2>2 DEF JobAway
<1>14. n.at \in {"space", "next", "list"} /\ ~Emptying(n)
  BY <1>10, <1>11 DEF Emptying
<1> QED  BY <1>1, <1>2, <1>9, <1>13, <1>14, StartTrash DEF n

LEMMA CancelTrash ==
  ASSUME Grows, TInv, Core', NEW j \in Slots, Cancel(j)
  PROVE  TInv'
<1> DEFINE n == job'[j]
           o == job[j]
           r == [cancel |-> TRUE]
<1>1. Core /\ AllAway /\ UNCHANGED <<fs, info, undo>> /\ job' = Put(j, r) /\ DOMAIN r = {"cancel"} /\ r.cancel = TRUE
  BY DEF Cancel, TInv
<1> HIDE DEF r
<1>2. DOMAIN r \subseteq Fields /\ job' = Put(j, r)
  BY <1>1 DEF Fields
<1>3. NoOther(j) /\ SameBut(n, o, DOMAIN r) /\ \A x \in DOMAIN r : n[x] = r[x]
  BY ONLY <1>1, <1>2, PutCore
<1>4. /\ DOMAIN n = Fields /\ n.cancel = TRUE /\ \A x \in Fields \ {"cancel"} : n[x] = o[x]
  BY <1>1, <1>3 DEF SameBut
<1>5. /\ n.op = o.op /\ n.at = o.at /\ n.todo = o.todo /\ n.later = o.later /\ n.dest = o.dest /\ n.cur = o.cur /\ n.args = o.args
      /\ n.stack = o.stack /\ n.out = o.out /\ n.step = o.step /\ n.errs = o.errs
  BY <1>4 DEF Fields
<1>6. job'[j] = n /\ job[j] = o
  OBVIOUS
<1> HIDE DEF n, o
<1>7. \A i \in Slots : i # j => job'[i] = job[i]
  BY <1>3 DEF NoOther
<1>8. Doomed(n) = Doomed(o) /\ (Deletes(n) <=> Deletes(o)) /\ (Emptying(n) <=> Emptying(o)) /\ (Filling(n) <=> Filling(o))
  BY <1>5 DEF Doomed, Deletes, Emptying, Filling
<1>9. JobAway(o) => JobAway(n)
  BY <1>5, <1>8 DEF JobAway
<1>10. InTheHandsOf(n) = InTheHandsOf(o)
  BY <1>5, <1>8 DEF InTheHandsOf
<1>11. Tidy(fs, info, o) => Tidy(fs, info, n)
  <2>1. \A p : ToGo(n, p) <=> ToGo(o, p)
    BY <1>5 DEF ToGo
  <2> QED  BY <1>5, <1>8, <2>1 DEF Tidy
<1>12. AllAway'
  BY <1>1, <1>6, <1>7, <1>9 DEF AllAway, RecordsAway, Restorable, Grows
<1>13. HalfDeleted => HalfDeleted'
  <2> SUFFICES ASSUME NEW i \in Slots, ~Clean(i),
                             job[i].op = "empty" \/ (job[i].op = "remove" /\ Range(job[i].args) \cap Trashed # {})
               PROVE  HalfDeleted'
    BY DEF HalfDeleted
  <2>1. ~Clean(i)'
    BY <1>4, <1>6, <1>7 DEF Clean
  <2>2. job'[i].op = job[i].op /\ job'[i].args = job[i].args
    BY <1>5, <1>6, <1>7
  <2> QED  BY <2>1, <2>2 DEF HalfDeleted
<1>14. Booked => Booked'
  BY <1>1, <1>6, <1>7, <1>10, <1>11 DEF Booked, Matched, Grows
<1> QED  BY <1>12, <1>13, <1>14 DEF TInv

-------------------------------------------------------------------------------
(* The done callback, and the start.                                       *)

LEMMA CallbackTrash ==
  ASSUME Grows, TInv, Core', NEW j \in Slots, Callback(j)
  PROVE  TInv'
<1> DEFINE n == job'[j]
           o == job[j]
           r == [at |-> "ended"]
<1>1. /\ Core /\ AllAway
      /\ o.at = "returned" /\ UNCHANGED <<fs, info>> /\ job' = Put(j, r) /\ DOMAIN r = {"at"} /\ r.at = "ended"
  BY DEF Callback, At, TInv
<1> HIDE DEF r
<1>2. DOMAIN r \subseteq Fields /\ job' = Put(j, r)
  BY <1>1 DEF Fields
<1>3. NoOther(j) /\ SameBut(n, o, DOMAIN r) /\ \A x \in DOMAIN r : n[x] = r[x]
  BY ONLY <1>1, <1>2, PutCore
<1>4. /\ DOMAIN n = Fields /\ n.at = "ended" /\ \A x \in Fields \ {"at"} : n[x] = o[x]
  BY <1>1, <1>3 DEF SameBut
<1>5. /\ n.op = o.op /\ n.todo = o.todo /\ n.later = o.later /\ n.dest = o.dest /\ n.cur = o.cur /\ n.args = o.args
      /\ n.out = o.out /\ n.step = o.step /\ n.errs = o.errs /\ n.cancel = o.cancel
  BY <1>4 DEF Fields
<1>6. JobAway(o)
  BY <1>1 DEF AllAway
<1>7. \A s \in Range(undo') : StepAway(s)
  <2> DEFINE s == [kind |-> o.op, pairs |-> o.out, was |-> o.was, clean |-> Clean(j)]
  <2>1. undo \in Seq(Range(undo)) /\ \A x \in Range(undo) : StepAway(x)
    BY <1>1 DEF Core, UndoOK, AllAway
  <2>2. ASSUME NEW x, NEW t, StepAway(x), t = undo \/ (undo # <<>> /\ t = Tail(undo)), undo' = Append(t, x)
        PROVE  \A y \in Range(undo') : StepAway(y)
    <3> DEFINE S == Range(undo) \cup {x}
    <3>1. undo \in Seq(S) /\ x \in S
      BY <2>1
    <3>2. Range(undo) \subseteq S
      OBVIOUS
    <3> HIDE DEF S
    <3>3. t \in Seq(S) /\ Range(t) \subseteq Range(undo)
      <4>1. undo # <<>> => Tail(undo) \in Seq(S) /\ Range(Tail(undo)) \subseteq Range(undo)
        BY <3>1, SeqParts
      <4> QED  BY <2>2, <3>1, <4>1
    <3>4. Range(undo') = Range(t) \cup {x}
      BY <2>2, <3>1, <3>3, Appending
    <3> QED  BY <2>1, <2>2, <3>3, <3>4
  <2>3. CASE undo' = undo
    BY <2>1, <2>3
  <2>4. CASE o.op \in {"copy", "move", "trash"} /\ undo' = Pushed(s)
    <3>1. s.kind = o.op /\ s.pairs = o.out
      OBVIOUS
    <3> HIDE DEF s
    <3>2. \A i \in DOMAIN o.out : Away(o.op, o.out[i])
      BY <1>6, <2>4 DEF JobAway, Range
    <3>3. StepAway(s)
      BY <3>1, <3>2 DEF StepAway
    <3>4. Len(undo) >= MaxUndo => undo # <<>>
      BY <2>1 DEF MaxUndo
    <3>5. undo' = Append(undo, s) \/ (undo # <<>> /\ undo' = Append(Tail(undo), s))
      BY <2>1, <2>4, <3>4 DEF Pushed, MaxUndo
    <3> QED  BY <2>2, <3>3, <3>5
  <2>5. CASE o.step.kind # "none" /\ undo' = Append(undo, o.step)
    <3>1. StepAway(o.step)
      BY <1>6 DEF JobAway
    <3> QED  BY <2>2, <2>5, <3>1
  <2> QED  BY <2>3, <2>4, <2>5 DEF Callback
<1>8. job'[j] = n /\ job[j] = o
  OBVIOUS
<1> HIDE DEF n, o
<1>9. \A i \in Slots : i # j => job'[i] = job[i]
  BY <1>3 DEF NoOther
<1>10. Doomed(n) = Doomed(o) /\ (Deletes(n) <=> Deletes(o)) /\ ~Emptying(n) /\ ~Emptying(o) /\ ~Filling(n) /\ ~Filling(o)
  BY <1>1, <1>4, <1>5 DEF Doomed, Deletes, Emptying, Filling
<1>11. JobAway(n)
  BY <1>4, <1>5, <1>6, <1>10 DEF JobAway
<1>12. InTheHandsOf(n) = InTheHandsOf(o) /\ Tidy(fs, info, n)
  BY <1>10 DEF InTheHandsOf, Tidy
<1>13. AllAway'
  BY <1>1, <1>7, <1>8, <1>9, <1>11 DEF AllAway, RecordsAway, Restorable, Grows
<1>14. HalfDeleted => HalfDeleted'
  <2> SUFFICES ASSUME NEW i \in Slots, ~Clean(i),
                      job[i].op = "empty" \/ (job[i].op = "remove" /\ Range(job[i].args) \cap Trashed # {})
               PROVE  HalfDeleted'
    BY DEF HalfDeleted
  <2>1. ~Clean(i)'
    BY <1>5, <1>8, <1>9 DEF Clean
  <2>2. job'[i].op = job[i].op /\ job'[i].args = job[i].args
    BY <1>5, <1>8, <1>9
  <2> QED  BY <2>1, <2>2 DEF HalfDeleted
<1>15. Booked => Booked'
  BY <1>1, <1>8, <1>9, <1>12 DEF Booked, Matched, Grows
<1> QED  BY <1>13, <1>14, <1>15 DEF TInv

(* The start: the trash empty, nothing recorded, nothing running.          *)
LEMMA TrashAtFirst == ASSUME FilesInit, TrashLeftAlone PROVE TInv
<1>1. Core
  BY FilesAtFirst DEF BInv
<1>2. fs = Tree /\ (\A p \in Trashed : info[p] = <<>>) /\ undo = <<>> /\ \A j \in Slots : job[j] = Fresh
  BY DEF FilesInit
<1> DEFINE r == Fresh
<1>3. /\ r.op = "none" /\ r.at = "unused" /\ r.todo = <<>> /\ r.later = <<>> /\ r.cur = Pair(<<>>, <<>>)
      /\ r.out = <<>> /\ r.step = NoStep
  BY DEF Fresh
<1>4. r = Fresh
  OBVIOUS
<1> HIDE DEF r
<1>5. ~Deletes(r) /\ Doomed(r) = {} /\ ~Filling(r) /\ ~Emptying(r)
  BY <1>3 DEF Deletes, Doomed, Filling, Emptying
<1>6. JobAway(r)
  <2>1. \A i \in Range(r.todo) \cup Range(r.later) \cup {r.cur} : Away(r.op, i)
    BY <1>3 DEF Away, TakesAside, PutsAside
  <2>2. StepAway(r.step)
    BY <1>3 DEF StepAway, NoStep
  <2> QED  BY ONLY <1>3, <1>5, <2>1, <2>2 DEF JobAway
<1>7. Tidy(fs, info, r)
  BY <1>5 DEF Tidy
<1>8. AllAway
  <2>1. RecordsAway
    <3>1. Blank # <<>>
      BY DEF Blank
    <3> QED  BY <1>2, <3>1 DEF RecordsAway, Restorable
  <2> QED  BY <1>2, <1>4, <1>6, <2>1, EmptyRange DEF AllAway
<1>9. Booked
  BY <1>2, <1>4, <1>7 DEF Booked, Matched, Grows, TrashLeftAlone
<1> QED  BY <1>1, <1>8, <1>9 DEF TInv

-------------------------------------------------------------------------------
(* The invariant, and what follows from it.                                *)

LEMMA KeepsTrash ==
  ASSUME Together = {}, "flush" \notin FaultKinds, TrashNearby, TrashLeftAlone, BInv, TInv, [FilesNext]_filesVars
  PROVE  TInv'
<1>1. Core'
  BY KeepsFilesNext DEF BInv
<1>2. CASE UNCHANGED filesVars
  <2>1. UNCHANGED <<fs, info, job, undo, faults>>
    BY <1>2 DEF filesVars
  <2>2. AllAway' = AllAway /\ Booked' = Booked
    BY <2>1 DEF AllAway, RecordsAway, Restorable, Booked, Grows
  <2>3. HalfDeleted' = HalfDeleted
    BY <2>1 DEF HalfDeleted, Clean
  <2> QED  BY <1>1, <2>2, <2>3 DEF TInv
<1>3. ASSUME Grows, NEW j \in Slots, WorkerStep(j) PROVE TInv'
  <2>1. TreeStep(j) \/ CallStep(j)
    BY <1>3 DEF WorkerStep
  <2> QED  BY <1>1, <1>3, <2>1, TreeTrash, CallTrash
<1>4. ASSUME Grows, NEW j \in Slots, Callback(j) \/ Cancel(j) \/ Undo(j) \/ \E c \in Commands : Command(j, c) PROVE TInv'
  BY <1>1, <1>4, CallbackTrash, CancelTrash, UndoTrash, CommandTrash
<1>5. CASE FilesNext
  <2>1. Grows
    BY <1>5, FaultCount DEF BInv, FilesNext, Noted
  <2> QED  BY <1>3, <1>4, <1>5, <2>1 DEF FilesNext
<1> QED  BY <1>2, <1>5

(* The trash and its records go together: with nothing running, and every  *)
(* deletion from the trash come to its end, what is in a trash has a       *)
(* .trashinfo that says where it came from and every .trashinfo has its    *)
(* file, whatever failed, was cancelled or undone in between, but under    *)
(* the names whose record itself could not be written or removed, which    *)
(* the code does not notice: they spoil no other.  trash() drops the record it reserved   *)
(* when the file cannot follow (FileJobs.cpp:646), restore() takes the     *)
(* record away with the file (FileJobs.cpp:684), and deletePermanently and *)
(* emptyTrash take both (MainWindowFiles.cpp:370, FileJobs.cpp:697).       *)
THEOREM TrashKeepsItsRecords ==
  ASSUME Together = {}, "flush" \notin FaultKinds, TrashNearby, TrashLeftAlone
  PROVE  FilesSpec => []TrashHasRecords
<1>1. FilesInit => BInv /\ TInv
  BY FilesAtFirst, TrashAtFirst
<1>2. BInv /\ TInv /\ [FilesNext]_filesVars => BInv' /\ TInv'
  BY KeepsFilesNext, KeepsTrash
<1>3. TInv => TrashHasRecords
  BY AllMatched, Zenon DEF TInv, AllAway, TrashHasRecords, Quiet, Matched, RecordsAway, Restorable
<1> QED  BY <1>1, <1>2, <1>3, PTL DEF FilesSpec

===============================================================================
