------------------------------ MODULE Jobs_proofs ------------------------------
(***************************************************************************)
(* Proofs about syn-shell's jobs: about what they do to the files, for any *)
(* tree, drives, commands and number of jobs (FileJobs), and about how the *)
(* manager keeps them, for any number of jobs and threads (ShellJobs).     *)
(*                                                                         *)
(* FileJobs.  That no half file stays is not inductive alone: a file in    *)
(* the making is half, so the invariant says who is making it and how far  *)
(* that job has come (WriteOK), that a copy never has its source for its   *)
(* target (CopyOK), which rests on what a job may have in hand and on its  *)
(* list at each stage (JobOK), on the names taken from the undo stack      *)
(* (StepOK), and on the tree being one: every folder there, no inode under *)
(* two names (TreeOK).  One command at a time is assumed (Together = {}):  *)
(* a copy that runs beside a job writing its source may well be half.  A   *)
(* flush that fails at close() leaves a short file, which the code cannot  *)
(* see, so "flush" is not among the failures.                              *)
(***************************************************************************)
EXTENDS FileJobs, ShellJobs, FiniteSetTheorems, SequenceTheorems, TLAPS


(***************************************************************************)
(* The inductive invariant, BInv.                                          *)
(***************************************************************************)
PathNames == UNION {Range(q) : q \in Paths}

Fields == {"op", "at", "todo", "later", "dest", "policy", "cur", "stack", "ok", "errs", "cancel", "out",
           "step", "args", "had", "honest", "was"}
MaybePaths == Paths \cup {<<>>}
Records == MaybePaths \cup {Blank}   \* what a .trashinfo may say, or that there is none
AllPairs == [from : MaybePaths, to : MaybePaths]
FullPairs == [from : Paths, to : Paths]
(* A tree: whatever is there is in a folder, no inode has two names.       *)
TreeOK(t) == /\ t \in [Paths -> {NoEnt, Dir} \cup Inodes]
             /\ \A p, q \in Paths : IsPrefix(p, q) /\ p # q /\ t[q] # NoEnt => t[p] = Dir
             /\ \A p, q \in Paths : t[p] \in Inodes /\ t[p] = t[q] => p = q

(* A step that can be undone: what was trashed is in a trash.              *)
StepOK(s) == /\ s.kind \in {"copy", "move", "trash"} /\ s.pairs \in Seq(FullPairs)
             /\ s.kind = "trash" => \A i \in DOMAIN s.pairs : s.pairs[i].to \in Trashed
(* The stages of each call.                                                *)
StagesOf(op) == CASE op = "none" -> {"unused"}
                  [] op = "copy" -> {"space", "next", "copying", "returned", "ended"}
                  [] op = "move" -> {"next", "clearing", "rename", "measure", "next2", "copying", "removing",
                                     "returned", "ended"}
                  [] op \in {"moveBack", "restore"} -> {"next", "rename", "copying", "removing", "returned", "ended"}
                  [] op = "trash" -> {"next", "rename", "copying", "removing", "unwinding", "unrecord",
                                      "returned", "ended"}
                  [] op = "remove" -> {"next", "removing", "forget", "returned", "ended"}
                  [] op = "empty" -> {"list", "next", "removing", "returned", "ended"}
                  [] OTHER -> {}
Walking == {"clearing", "copying", "removing", "unwinding"}
Visiting == [do : {"copy", "leave", "write", "rm", "rmdir"}, a : Paths, b : Seq(PathNames), in : Nat, out : Nat, k : Nat]

(* The two loops of move: what is left to do is not in the folder it goes   *)
(* to, and in the second it has its destination.                            *)
FirstLoop(r) == r.op = "move" /\ r.at \in {"next", "clearing", "rename"}
SecondLoop(r) == r.op = "move" /\ r.at \in {"next2", "copying", "removing"}
ItemOK(r, i) == /\ i.from = <<>> => r.op = "empty" /\ i.to \in Trashed
                /\ r.op = "moveBack" \/ SecondLoop(r) => i.to \in Paths
                /\ r.op = "restore" => i.from \in Trashed
                /\ FirstLoop(r) => Parent(i.from) # r.dest
                /\ SecondLoop(r) => i.from # i.to
(* The item in hand.                                                       *)
CurOK(r) == /\ r.at \in {"rename", "clearing", "copying", "removing", "unwinding", "unrecord"} => r.cur.from \in Paths
            /\ r.at \in {"rename", "clearing", "copying", "unwinding", "unrecord"} => r.cur.to \in Paths
            /\ r.at = "removing" /\ r.op \notin {"remove", "empty"} => r.cur.to \in Paths
            /\ r.at \in {"rename", "copying", "removing", "unwinding", "unrecord"}
                 => (r.op = "trash" => r.cur.to \in Trashed) /\ (r.op = "restore" => r.cur.from \in Trashed)
            /\ r.op = "move" /\ r.at \in {"rename", "clearing"} => r.cur.from # r.cur.to
(* What is reported, where it can be undone.                               *)
OutOK(r) == r.op \in {"copy", "move", "trash"} =>
              /\ r.out \in Seq(FullPairs)
              /\ r.op = "trash" => \A i \in DOMAIN r.out : r.out[i].to \in Trashed
(* The visits: those of a copy go to the place under "to" that is theirs   *)
(* under "from", and only the first may be a file in the making.           *)
VisitsOK(r) ==
  /\ r.stack \in Seq(Visiting)
  /\ r.at \notin Walking => r.stack = <<>>
  /\ r.at = "copying" => /\ \A v \in Range(r.stack) : /\ v.do \in {"copy", "leave", "write"} /\ v.a \in Below[r.cur.from]
                                                      /\ v.b = Rebase(v.a, r.cur.from, r.cur.to)
                         /\ r.stack # <<>> => \A v \in Range(Tail(r.stack)) : v.do # "write"
  /\ r.at \in {"clearing", "unwinding"} => \A v \in Range(r.stack) : v.do \in {"rm", "rmdir"} /\ v.a \in Below[r.cur.to]
  /\ r.at = "removing" => \A v \in Range(r.stack) : v.do \in {"rm", "rmdir"} /\ v.a \in Below[r.cur.from]
JobOK(r) ==
  /\ DOMAIN r = Fields
  /\ r.at \in StagesOf(r.op)
  /\ r.at = "unused" => r = Fresh
  /\ r.policy \in {"KeepBoth", "Replace", "Skip"} /\ (r.op \notin {"copy", "move"} => r.policy = "KeepBoth")
  /\ r.ok \in BOOLEAN /\ r.cancel \in BOOLEAN
  /\ r.dest \in MaybePaths /\ (r.op \in {"copy", "move"} => r.dest \in Paths)
  /\ r.op = "empty" => r.dest \in {<<t>> : t \in TrashDirs}
  /\ r.cur \in AllPairs /\ CurOK(r)
  /\ r.todo \in Seq(AllPairs) /\ \A i \in Range(r.todo) : ItemOK(r, i)
  /\ r.later \in Seq(FullPairs) /\ (r.op # "move" => r.later = <<>>) /\ \A l \in Range(r.later) : l.from # l.to
  /\ OutOK(r)
  /\ r.step.kind = "none" \/ StepOK(r.step)
  /\ VisitsOK(r)

(* A file in the making: both ends are still there, and the data is across *)
(* as far as the job has come.                                             *)
Writing(r) == r.stack # <<>> /\ Head(r.stack).do = "write"
WriteOK(t, data, r) ==
  Writing(r) => LET v == Head(r.stack)
                IN /\ v.b \in Paths /\ v.a # v.b /\ v.k \in 1 .. Chunks
                   /\ v.in \in Inodes /\ t[v.a] = v.in /\ v.out \in Inodes /\ t[v.b] = v.out
                   /\ \A i \in 1 .. v.k - 1 : data[v.out][i] = data[v.in][i]
(* A source that is not there makes one visit, which fails. *)
Hollow(t, r) == t[r.cur.from] = NoEnt /\ \A v \in Range(r.stack) : v.do = "copy" /\ v.a = r.cur.from
CopyOK(t, r) == r.at = "copying" => r.cur.from # r.cur.to \/ Hollow(t, r)

(* Every file is whole, or like one that could not be removed when its copy *)
(* stopped, but for the one in the making.                                  *)
AllOf(f) == [k \in 1 .. Chunks |-> f]
Fine(data) == (\E f \in Files : data = AllOf(f)) \/ data \in faults.half
HalfOK == \A p \in Paths : fs[p] \in Inodes =>
            \/ Fine(disk[fs[p]])
            \/ \E j \in Slots : Writing(job[j]) /\ Head(job[j].stack).b = p

(* Together, with one job at a time.                                       *)
Core == /\ TreeOK(fs)
        /\ disk \in [Inodes -> [1 .. Chunks -> Files \cup {0}]]
        /\ info \in [Trashed -> Records]
        /\ undo \in Seq(Range(undo)) /\ \A s \in Range(undo) : StepOK(s)
        /\ DOMAIN job = Slots /\ \A j \in Slots : JobOK(job[j]) /\ WriteOK(fs, disk, job[j]) /\ CopyOK(fs, job[j])
        /\ \A i, j \in Slots : Active(i) /\ Active(j) => i = j
        /\ HalfOK
Tally == [n : 0 .. MaxFaults, half : SUBSET [1 .. Chunks -> Files \cup {0}], records : SUBSET Trashed]
BInv == Core /\ faults \in Tally /\ spent \subseteq Files

(* What is known to be left of failed clean-ups is never forgotten.        *)
Grows == faults.half \subseteq faults'.half /\ faults.records \subseteq faults'.records

-------------------------------------------------------------------------------
(* Paths are sequences of names; prefixes of them, and Rebase.             *)

(* Paths are non-empty sequences of names. *)
Words == Seq(PathNames)

LEMMA PathsAreWords == \A p \in Paths : p \in Words /\ Len(p) \in Nat \ {0}
<1> TAKE p \in Paths
<1>1. p \in Words /\ p # <<>>
  BY PathsAssumption DEF Words, PathNames
<1> QED  BY <1>1 DEF Words

LEMMA PrefixIs == ASSUME NEW s \in Words, NEW t \in Words
                  PROVE  IsPrefix(s, t) <=> Len(s) <= Len(t) /\ \A i \in 1 .. Len(s) : s[i] = t[i]
<1>1. CASE Len(s) <= Len(t)
  <2>1. SubSeq(s, 1, Len(s)) = s
    BY DEF Words
  <2>2. SubSeq(t, 1, Len(s)) \in Words /\ Len(SubSeq(t, 1, Len(s))) = Len(s)
        /\ \A i \in 1 .. Len(s) : SubSeq(t, 1, Len(s))[i] = t[i]
    BY <1>1 DEF Words
  <2>3. SubSeq(t, 1, Len(s)) = s <=> \A i \in 1 .. Len(s) : s[i] = t[i]
    BY <2>2, SeqEqual DEF Words
  <2> QED  BY <1>1, <2>1, <2>3 DEF IsPrefix
<1>2. CASE ~(Len(s) <= Len(t))
  BY <1>2 DEF IsPrefix
<1> QED  BY <1>1, <1>2

LEMMA PrefixOrder ==
  /\ \A s \in Words : IsPrefix(s, s)
  /\ \A s, t \in Words : IsPrefix(s, t) /\ IsPrefix(t, s) => s = t
  /\ \A s, t, u \in Words : IsPrefix(s, t) /\ IsPrefix(t, u) => IsPrefix(s, u)
  /\ \A s, t, u \in Words : IsPrefix(s, u) /\ IsPrefix(t, u) => IsPrefix(s, t) \/ IsPrefix(t, s)
  /\ \A s, t \in Words : IsPrefix(s, t) /\ Len(s) = Len(t) => s = t
<1>1. \A s, t \in Words : IsPrefix(s, t) /\ Len(s) = Len(t) => s = t
  <2> TAKE s, t \in Words
  <2> HAVE IsPrefix(s, t) /\ Len(s) = Len(t)
  <2> QED  BY PrefixIs, SeqEqual DEF Words
<1>2. \A s, t \in Words : IsPrefix(s, t) => Len(s) <= Len(t) /\ Len(s) \in Nat /\ Len(t) \in Nat
  BY DEF IsPrefix, Words
<1>3. \A s, t \in Words : IsPrefix(s, t) /\ IsPrefix(t, s) => s = t
  BY <1>1, <1>2
<1>4. \A s, t, u \in Words : IsPrefix(s, t) /\ IsPrefix(t, u) => IsPrefix(s, u)
  <2> TAKE s, t, u \in Words
  <2> HAVE IsPrefix(s, t) /\ IsPrefix(t, u)
  <2>1. Len(s) \in Nat /\ Len(t) \in Nat /\ Len(u) \in Nat
    BY DEF Words
  <2>2. Len(s) <= Len(t) /\ (\A i \in 1 .. Len(s) : s[i] = t[i]) /\ Len(t) <= Len(u) /\ \A i \in 1 .. Len(t) : t[i] = u[i]
    BY PrefixIs
  <2> QED  BY <2>1, <2>2, PrefixIs
<1>5. \A s, t, u \in Words : IsPrefix(s, u) /\ IsPrefix(t, u) => IsPrefix(s, t) \/ IsPrefix(t, s)
  <2> TAKE s, t, u \in Words
  <2> HAVE IsPrefix(s, u) /\ IsPrefix(t, u)
  <2>1. Len(s) \in Nat /\ Len(t) \in Nat /\ Len(u) \in Nat
    BY DEF Words
  <2>2. Len(s) <= Len(u) /\ (\A i \in 1 .. Len(s) : s[i] = u[i]) /\ Len(t) <= Len(u) /\ \A i \in 1 .. Len(t) : t[i] = u[i]
    BY PrefixIs
  <2> QED  BY <2>1, <2>2, PrefixIs
<1>6. \A s \in Words : IsPrefix(s, s)
  BY PrefixIs DEF Words
<1> QED  BY <1>1, <1>3, <1>4, <1>5, <1>6

(* The place under b that q has under a. *)
LEMMA RebaseIs ==
  ASSUME NEW q \in Words, NEW a \in Words, NEW b \in Words, IsPrefix(a, q)
  PROVE  /\ Rebase(q, a, b) \in Words
         /\ Len(Rebase(q, a, b)) = Len(b) + Len(q) - Len(a)
         /\ \A i \in 1 .. Len(b) : Rebase(q, a, b)[i] = b[i]
         /\ \A i \in Len(b) + 1 .. Len(b) + Len(q) - Len(a) : Rebase(q, a, b)[i] = q[i - Len(b) + Len(a)]
<1> DEFINE u == SubSeq(q, Len(a) + 1, Len(q))
<1>1. Len(a) \in Nat /\ Len(q) \in Nat /\ Len(b) \in Nat /\ Len(a) <= Len(q)
  BY PrefixIs DEF Words
<1>2. u \in Words /\ Len(u) = Len(q) - Len(a) /\ \A i \in 1 .. Len(q) - Len(a) : u[i] = q[i + Len(a)]
  BY <1>1 DEF Words
<1> HIDE DEF u
<1>3. b \o u \in Words /\ Len(b \o u) = Len(b) + Len(u)
      /\ \A i \in 1 .. Len(b) + Len(u) : (b \o u)[i] = IF i <= Len(b) THEN b[i] ELSE u[i - Len(b)]
  <2>1. u \in Words /\ b \in Words
    BY <1>2
  <2>2. \A i \in 1 .. Len(b) + Len(u) : (b \o u)[i] = IF i <= Len(b) THEN b[i] ELSE u[i - Len(b)]
    BY <2>1, ConcatProperties DEF Words
  <2> QED  BY <2>1, <2>2, ConcatProperties DEF Words
<1>4. Rebase(q, a, b) = b \o u
  BY DEF Rebase, u
<1>5. \A i \in Len(b) + 1 .. Len(b) + Len(q) - Len(a) : (b \o u)[i] = q[i - Len(b) + Len(a)]
  <2> TAKE i \in Len(b) + 1 .. Len(b) + Len(q) - Len(a)
  <2>1. i \in 1 .. Len(b) + Len(u) /\ ~(i <= Len(b)) /\ i - Len(b) \in 1 .. Len(q) - Len(a)
    BY <1>1, <1>2
  <2>2. (b \o u)[i] = u[i - Len(b)] /\ u[i - Len(b)] = q[(i - Len(b)) + Len(a)]
    BY <1>2, <1>3, <2>1
  <2> QED  BY <1>1, <2>2
<1>6. \A i \in 1 .. Len(b) : (b \o u)[i] = b[i]
  <2> TAKE i \in 1 .. Len(b)
  <2>1. i \in 1 .. Len(b) + Len(u) /\ i <= Len(b)
    BY <1>1, <1>2
  <2> QED  BY <1>3, <2>1
<1> QED  BY <1>1, <1>2, <1>3, <1>4, <1>5, <1>6

LEMMA RebaseThere ==
  ASSUME NEW q \in Words, NEW a \in Words, NEW b \in Words, IsPrefix(a, q)
  PROVE  /\ Rebase(q, a, b) \in Words /\ IsPrefix(b, Rebase(q, a, b))
         /\ Rebase(Rebase(q, a, b), b, a) = q
         /\ Rebase(a, a, b) = b
         /\ Rebase(q, a, a) = q
<1>1. Len(a) \in Nat /\ Len(q) \in Nat /\ Len(b) \in Nat /\ Len(a) <= Len(q) /\ IsPrefix(a, a)
  BY PrefixIs, PrefixOrder DEF Words
<1> DEFINE r == Rebase(q, a, b)
<1>2. /\ r \in Words /\ Len(r) = Len(b) + Len(q) - Len(a)
      /\ \A i \in 1 .. Len(b) : r[i] = b[i]
      /\ \A i \in Len(b) + 1 .. Len(b) + Len(q) - Len(a) : r[i] = q[i - Len(b) + Len(a)]
  BY RebaseIs
<1>3. IsPrefix(b, r)
  BY <1>1, <1>2, PrefixIs
<1>7. r \in Words
  BY <1>2
<1> HIDE DEF r
<1>4. Rebase(r, b, a) = q
  <2> DEFINE w == Rebase(r, b, a)
  <2>1. /\ w \in Words /\ Len(w) = Len(a) + Len(r) - Len(b)
        /\ \A i \in 1 .. Len(a) : w[i] = a[i]
        /\ \A i \in Len(a) + 1 .. Len(a) + Len(r) - Len(b) : w[i] = r[i - Len(a) + Len(b)]
    BY <1>3, <1>7, RebaseIs
  <2> HIDE DEF w
  <2>2. Len(w) = Len(q)
    BY <1>1, <1>2, <2>1
  <2>3. ASSUME NEW i \in 1 .. Len(q) PROVE w[i] = q[i]
    <3>1. CASE i <= Len(a)
      <4>1. i \in 1 .. Len(a)
        BY <1>1, <3>1
      <4>2. \A k \in 1 .. Len(a) : a[k] = q[k]
        BY PrefixIs
      <4> QED  BY <2>1, <4>1, <4>2
    <3>2. CASE ~(i <= Len(a))
      <4>1. i \in Len(a) + 1 .. Len(a) + Len(r) - Len(b) /\ i - Len(a) + Len(b) \in Len(b) + 1 .. Len(b) + Len(q) - Len(a)
            /\ (i - Len(a) + Len(b)) - Len(b) + Len(a) = i
        BY <1>1, <1>2, <3>2
      <4>2. w[i] = r[i - Len(a) + Len(b)] /\ r[i - Len(a) + Len(b)] = q[(i - Len(a) + Len(b)) - Len(b) + Len(a)]
        BY <1>2, <2>1, <4>1
      <4> QED  BY <4>1, <4>2
    <3> QED  BY <3>1, <3>2
  <2>4. w = q
    BY <2>1, <2>2, <2>3, SeqEqual DEF Words
  <2> QED  BY <2>4 DEF w
<1>5. Rebase(a, a, b) = b
  <2> DEFINE w == Rebase(a, a, b)
  <2>1. w \in Words /\ Len(w) = Len(b) + Len(a) - Len(a) /\ \A i \in 1 .. Len(b) : w[i] = b[i]
    BY <1>1, RebaseIs
  <2> HIDE DEF w
  <2>2. w = b
    BY <1>1, <2>1, SeqEqual DEF Words
  <2> QED  BY <2>2 DEF w
<1>6. Rebase(q, a, a) = q
  <2> DEFINE w == Rebase(q, a, a)
  <2>1. w \in Words /\ Len(w) = Len(a) + Len(q) - Len(a) /\ (\A i \in 1 .. Len(a) : w[i] = a[i])
        /\ \A i \in Len(a) + 1 .. Len(a) + Len(q) - Len(a) : w[i] = q[i - Len(a) + Len(a)]
    BY RebaseIs
  <2> HIDE DEF w
  <2>2. \A i \in 1 .. Len(q) : w[i] = q[i]
    BY <1>1, <2>1, PrefixIs
  <2>3. w = q
    BY <1>1, <2>1, <2>2, SeqEqual DEF Words
  <2> QED  BY <2>3 DEF w
<1> QED  BY <1>2, <1>3, <1>4, <1>5, <1>6 DEF r

-------------------------------------------------------------------------------
(* The folders of a path, what is below it, and what KidsIn lists.         *)

LEMMA RebaseKeepsOrder ==
  ASSUME NEW p \in Words, NEW q \in Words, NEW a \in Words, NEW b \in Words, IsPrefix(a, p), IsPrefix(p, q)
  PROVE  IsPrefix(Rebase(p, a, b), Rebase(q, a, b))
<1>1. /\ Len(a) \in Nat /\ Len(q) \in Nat /\ Len(b) \in Nat /\ Len(p) \in Nat /\ IsPrefix(a, q)
      /\ Len(a) <= Len(p) /\ Len(p) <= Len(q)
      /\ \A i \in 1 .. Len(p) : p[i] = q[i]
  BY PrefixIs, PrefixOrder DEF Words
<1>2. /\ Rebase(p, a, b) \in Words
      /\ Len(Rebase(p, a, b)) = Len(b) + Len(p) - Len(a)
      /\ \A i \in 1 .. Len(b) : Rebase(p, a, b)[i] = b[i]
      /\ \A i \in Len(b) + 1 .. Len(b) + Len(p) - Len(a) : Rebase(p, a, b)[i] = p[i - Len(b) + Len(a)]
  BY RebaseIs
<1>3. /\ Rebase(q, a, b) \in Words
      /\ Len(Rebase(q, a, b)) = Len(b) + Len(q) - Len(a)
      /\ \A i \in 1 .. Len(b) : Rebase(q, a, b)[i] = b[i]
      /\ \A i \in Len(b) + 1 .. Len(b) + Len(q) - Len(a) : Rebase(q, a, b)[i] = q[i - Len(b) + Len(a)]
  BY <1>1, RebaseIs
<1>4. ASSUME NEW i \in 1 .. Len(b) + Len(p) - Len(a) PROVE Rebase(p, a, b)[i] = Rebase(q, a, b)[i]
  <2>1. CASE i <= Len(b)
    BY <1>1, <1>2, <1>3, <2>1
  <2>2. CASE ~(i <= Len(b))
    <3>1. /\ i \in Len(b) + 1 .. Len(b) + Len(p) - Len(a) /\ i \in Len(b) + 1 .. Len(b) + Len(q) - Len(a)
          /\ i - Len(b) + Len(a) \in 1 .. Len(p)
      BY <1>1, <2>2
    <3> QED  BY <1>1, <1>2, <1>3, <3>1
  <2> QED  BY <2>1, <2>2
<1>5. Rebase(p, a, b) \in Words /\ Rebase(q, a, b) \in Words /\ Len(Rebase(p, a, b)) <= Len(Rebase(q, a, b))
  BY <1>1, <1>2, <1>3
<1>6. \A i \in 1 .. Len(Rebase(p, a, b)) : Rebase(p, a, b)[i] = Rebase(q, a, b)[i]
  BY <1>2, <1>4
<1> QED  BY <1>5, <1>6, PrefixIs

LEMMA RebaseTwice ==
  ASSUME NEW q \in Words, NEW v \in Words, NEW a \in Words, NEW b \in Words, IsPrefix(a, v), IsPrefix(v, q)
  PROVE  Rebase(q, v, Rebase(v, a, b)) = Rebase(q, a, b)
<1>1. /\ Len(a) \in Nat /\ Len(q) \in Nat /\ Len(b) \in Nat /\ Len(v) \in Nat /\ IsPrefix(a, q)
      /\ Len(a) <= Len(v) /\ Len(v) <= Len(q)
      /\ \A i \in 1 .. Len(v) : v[i] = q[i]
  BY PrefixIs, PrefixOrder DEF Words
<1> DEFINE c == Rebase(v, a, b)
           s == Rebase(q, a, b)
           t == Rebase(q, v, c)
<1>2. /\ c \in Words /\ Len(c) = Len(b) + Len(v) - Len(a)
      /\ \A i \in 1 .. Len(b) : c[i] = b[i]
      /\ \A i \in Len(b) + 1 .. Len(b) + Len(v) - Len(a) : c[i] = v[i - Len(b) + Len(a)]
  BY RebaseIs
<1>30. IsPrefix(a, q)
  BY <1>1
<1>3. /\ s \in Words /\ Len(s) = Len(b) + Len(q) - Len(a)
      /\ \A i \in 1 .. Len(b) : s[i] = b[i]
      /\ \A i \in Len(b) + 1 .. Len(b) + Len(q) - Len(a) : s[i] = q[i - Len(b) + Len(a)]
  BY ONLY <1>30, RebaseIs
<1>4. c \in Words
  BY <1>2
<1> HIDE DEF c, s
<1>5. /\ t \in Words /\ Len(t) = Len(c) + Len(q) - Len(v)
      /\ \A i \in 1 .. Len(c) : t[i] = c[i]
      /\ \A i \in Len(c) + 1 .. Len(c) + Len(q) - Len(v) : t[i] = q[i - Len(c) + Len(v)]
  BY <1>4, RebaseIs
<1> HIDE DEF t
<1>6. Len(t) = Len(s)
  BY <1>1, <1>2, <1>3, <1>5
<1>7. ASSUME NEW i \in 1 .. Len(s) PROVE t[i] = s[i]
  <2>1. CASE i <= Len(b)
    <3>1. i \in 1 .. Len(b) /\ i \in 1 .. Len(c)
      BY <1>1, <1>2, <2>1
    <3> QED  BY <1>2, <1>3, <1>5, <3>1
  <2>2. CASE ~(i <= Len(b)) /\ i <= Len(c)
    <3>1. /\ i \in Len(b) + 1 .. Len(b) + Len(v) - Len(a) /\ i \in Len(b) + 1 .. Len(b) + Len(q) - Len(a)
          /\ i - Len(b) + Len(a) \in 1 .. Len(v) /\ i \in 1 .. Len(c)
      BY <1>1, <1>2, <2>2
    <3> QED  BY <1>1, <1>2, <1>3, <1>5, <3>1
  <2>3. CASE ~(i <= Len(c))
    <3>1. /\ i \in Len(c) + 1 .. Len(c) + Len(q) - Len(v) /\ i \in Len(b) + 1 .. Len(b) + Len(q) - Len(a)
          /\ i - Len(c) + Len(v) = i - Len(b) + Len(a)
      BY <1>1, <1>2, <1>3, <2>3
    <3> QED  BY <1>3, <1>5, <3>1
  <2> QED  BY <2>1, <2>2, <2>3
<1>8. t = s
  BY <1>3, <1>5, <1>6, <1>7, SeqEqual DEF Words
<1> QED  BY <1>8 DEF c, s, t

LEMMA FoldersOfPaths == \A q \in Paths : \A r \in Words : IsPrefix(r, q) /\ Len(r) # 0 => r \in Paths
<1> TAKE q \in Paths
<1> TAKE r \in Words
<1> HAVE IsPrefix(r, q) /\ Len(r) # 0
<1>1. q \in Words /\ Len(q) \in Nat \ {0} /\ Len(r) \in Nat /\ Len(r) <= Len(q)
  BY PathsAreWords DEF IsPrefix, Words
<1>2. SubSeq(q, 1, Len(r)) \in Paths
  BY <1>1, PathsAssumption
<1>3. SubSeq(r, 1, Len(r)) = r
  BY DEF Words
<1> QED  BY <1>2, <1>3 DEF IsPrefix

LEMMA BelowIs == \A p \in Paths : Below[p] \subseteq Paths
                   /\ \A q : q \in Below[p] <=> q \in Paths /\ IsPrefix(p, q)
  BY DEF Below

(* The folder a path is in. *)
LEMMA ParentIs ==
  ASSUME NEW q \in Paths
  PROVE  /\ Parent(q) \in Words /\ Len(Parent(q)) = Len(q) - 1 /\ IsPrefix(Parent(q), q) /\ Parent(q) # q
         /\ Parent(q) = <<>> \/ Parent(q) \in Paths
         /\ \A p \in Words : IsPrefix(p, q) /\ p # q => IsPrefix(p, Parent(q))
<1>1. q \in Words /\ Len(q) \in Nat \ {0}
  BY PathsAreWords
<1> DEFINE u == SubSeq(q, 1, Len(q) - 1)
<1>2. u \in Words /\ Len(u) = Len(q) - 1 /\ \A i \in 1 .. Len(q) - 1 : u[i] = q[i]
  <2>1. 1 \in 1 .. Len(q) + 1 /\ Len(q) - 1 \in 1 - 1 .. Len(q)
    BY <1>1
  <2>2. u \in Words /\ Len(u) = Len(q) - 1
    BY <1>1, <2>1, SubSeqProperties, SMTT(30) DEF Words
  <2>3. ASSUME NEW i \in 1 .. Len(q) - 1 PROVE u[i] = q[i]
    BY <1>1, <2>1, <2>3 DEF Words
  <2> QED  BY <2>2, <2>3
<1>3. u = <<>> \/ u \in Paths
  <2>1. CASE Len(q) = 1
    BY <1>2, <2>1, EmptySeq DEF Words
  <2>2. CASE Len(q) # 1
    <3>1. Len(q) - 1 \in 1 .. Len(q)
      <4>1. \A m \in Nat \ {0} : m # 1 => m - 1 \in 1 .. m
        OBVIOUS
      <4> QED  BY <1>1, <2>2, <4>1
    <3>2. SubSeq(q, 1, Len(q) - 1) \in Paths
      BY <3>1, PathsAssumption
    <3> QED  BY <3>2
  <2> QED  BY <2>1, <2>2
<1>4. Parent(q) = u
  BY DEF Parent, Front
<1> HIDE DEF u
<1>5. IsPrefix(u, q) /\ u # q
  BY <1>1, <1>2, PrefixIs
<1>6. ASSUME NEW p \in Words, IsPrefix(p, q), p # q PROVE IsPrefix(p, u)
  <2>1. Len(p) \in Nat /\ Len(p) <= Len(q) /\ \A i \in 1 .. Len(p) : p[i] = q[i]
    BY <1>1, <1>6, PrefixIs DEF Words
  <2>2. Len(p) # Len(q)
    BY <1>1, <1>6, PrefixOrder
  <2> QED  BY <1>1, <1>2, <2>1, <2>2, PrefixIs
<1> QED  BY <1>2, <1>3, <1>4, <1>5, <1>6

LEMMA KidsAre ==
  ASSUME NEW p \in Paths
  PROVE  /\ Kids[p] \subseteq Paths
         /\ \A q \in Paths : q \in Kids[p] <=> Parent(q) = p
         /\ \A q \in Kids[p] : IsPrefix(p, q) /\ p # q
         /\ \A q \in Paths : IsPrefix(p, q) /\ p # q => \E k \in Kids[p] : IsPrefix(k, q)
<1>1. Kids[p] = {q \in Paths : Len(q) = Len(p) + 1 /\ IsPrefix(p, q)}
  BY DEF Kids
<1>2. p \in Words /\ Len(p) \in Nat \ {0}
  BY PathsAreWords
<1>3. ASSUME NEW q \in Paths PROVE q \in Kids[p] <=> Parent(q) = p
  <2>1. q \in Words /\ Len(q) \in Nat \ {0}
    BY PathsAreWords
  <2>2. Parent(q) = p => Len(q) = Len(p) + 1 /\ IsPrefix(p, q)
    BY <1>2, <2>1, ParentIs
  <2>3. ASSUME Len(q) = Len(p) + 1, IsPrefix(p, q) PROVE Parent(q) = p
    <3>1. p # q /\ Parent(q) \in Words /\ Len(Parent(q)) = Len(p) /\ IsPrefix(p, Parent(q))
      BY <1>2, <2>1, <2>3, ParentIs
    <3> QED  BY <1>2, <3>1, PrefixOrder
  <2> QED  BY <1>1, <2>2, <2>3
<1>4. \A q \in Kids[p] : IsPrefix(p, q) /\ p # q
  BY <1>1, <1>2
<1>5. ASSUME NEW q \in Paths, IsPrefix(p, q), p # q PROVE \E k \in Kids[p] : IsPrefix(k, q)
  <2>1. q \in Words /\ Len(q) \in Nat \ {0} /\ Len(p) <= Len(q) /\ \A i \in 1 .. Len(p) : p[i] = q[i]
    BY <1>2, <1>5, PathsAreWords, PrefixIs
  <2>2. Len(p) # Len(q)
    BY <1>2, <1>5, <2>1, PrefixOrder
  <2> DEFINE k == SubSeq(q, 1, Len(p) + 1)
  <2>3. k \in Words /\ Len(k) = Len(p) + 1 /\ \A i \in 1 .. Len(p) + 1 : k[i] = q[i]
    BY <1>2, <2>1, <2>2 DEF Words
  <2>4. k \in Paths
    <3>1. Len(p) + 1 \in 1 .. Len(q)
      BY <1>2, <2>1, <2>2
    <3> QED  BY <3>1, PathsAssumption
  <2> HIDE DEF k
  <2>5. IsPrefix(k, q) /\ IsPrefix(p, k)
    BY <1>2, <2>1, <2>2, <2>3, PrefixIs
  <2> QED  BY <1>1, <2>3, <2>4, <2>5
<1> QED  BY <1>1, <1>3, <1>4, <1>5

(* SetToSeq lists a finite set. *)
LEMMA SetToSeqLists ==
  ASSUME NEW S, IsFiniteSet(S)
  PROVE  /\ SetToSeq(S) \in Seq(S) /\ Range(SetToSeq(S)) = S
         /\ SetToSeq(S) = <<>> <=> S = {}
<1> DEFINE n == Cardinality(S)
           f == SetToSeq(S)
<1>1. n \in Nat /\ ExistsBijection(1 .. n, S)
  BY FS_CardinalityType
<1>2. PICK g \in [1 .. n -> S] : IsInjective(g)
  BY <1>1 DEF ExistsBijection, Bijection, Injection
<1>3. f \in [1 .. n -> S] /\ IsInjective(f)
  BY <1>2 DEF SetToSeq
<1> HIDE DEF f
<1>4. f \in Injection(1 .. n, S)
  BY <1>3 DEF Injection
<1>5. IsFiniteSet(1 .. n) /\ Cardinality(1 .. n) = n
  BY <1>1, FS_Interval
<1>6. f \in Surjection(1 .. n, S)
  BY <1>4, <1>5, FS_Injection
<1>7. Range(f) = S
  BY <1>3, <1>6 DEF Surjection, Range
<1>8. f \in Seq(S)
  BY <1>1, <1>3
<1>9. f = <<>> <=> S = {}
  <2>1. Len(f) = n
    BY <1>1, <1>3
  <2>2. f = <<>> <=> Len(f) = 0
    BY <1>8
  <2> QED  BY <1>1, <2>1, <2>2, FS_EmptySet
<1> QED  BY <1>7, <1>8, <1>9 DEF f

LEMMA KidsInAre ==
  ASSUME NEW tree, NEW p \in Paths
  PROVE  /\ KidsIn(tree, p) \in Seq(Paths)
         /\ Range(KidsIn(tree, p)) = {q \in Kids[p] : tree[q] # NoEnt}
         /\ KidsIn(tree, p) = <<>> <=> \A q \in Kids[p] : tree[q] = NoEnt
<1> DEFINE S == {q \in Kids[p] : Exists(tree, q)}
<1>1. S = {q \in Kids[p] : tree[q] # NoEnt} /\ S \subseteq Paths
  BY KidsAre DEF Exists
<1>2. IsFiniteSet(S)
  BY <1>1, FS_Subset, PlacesAssumption
<1>3. KidsIn(tree, p) = SetToSeq(S)
  BY DEF KidsIn
<1> HIDE DEF S
<1>4. SetToSeq(S) \in Seq(S) /\ Range(SetToSeq(S)) = S /\ (SetToSeq(S) = <<>> <=> S = {})
  BY <1>2, SetToSeqLists
<1>5. SetToSeq(S) \in Seq(Paths)
  BY <1>1, <1>4, SeqMonotonic
<1> QED  BY <1>1, <1>3, <1>4, <1>5

-------------------------------------------------------------------------------
(* What the calls of the file system make of a tree that is well formed.   *)

LEMMA Kinds == NoEnt \notin Inodes /\ Dir \notin Inodes /\ NoEnt # Dir
  BY DataAssumption DEF NoEnt, Dir

LEMMA BelowNothing ==
  ASSUME NEW t, TreeOK(t), NEW p \in Paths
  PROVE  /\ t[p] # Dir => \A q \in Paths : IsPrefix(p, q) /\ p # q => t[q] = NoEnt
         /\ t[p] # Dir => \A q \in Kids[p] : t[q] = NoEnt
         /\ t[p] = NoEnt => \A q \in Below[p] : t[q] = NoEnt
         /\ (\A q \in Kids[p] : t[q] = NoEnt) => \A q \in Paths : IsPrefix(p, q) /\ p # q => t[q] = NoEnt
<1>1. t[p] # Dir => \A q \in Paths : IsPrefix(p, q) /\ p # q => t[q] = NoEnt
  BY DEF TreeOK
<1>2. t[p] # Dir => \A q \in Kids[p] : t[q] = NoEnt
  BY <1>1, KidsAre
<1>3. t[p] = NoEnt => \A q \in Below[p] : t[q] = NoEnt
  BY <1>1, Kinds, BelowIs
<1>4. ASSUME \A q \in Kids[p] : t[q] = NoEnt, NEW q \in Paths, IsPrefix(p, q), p # q PROVE t[q] = NoEnt
  <2>1. PICK k \in Kids[p] : IsPrefix(k, q)
    BY <1>4, KidsAre
  <2>2. k \in Paths /\ t[k] = NoEnt
    BY <1>4, <2>1, KidsAre
  <2> QED  BY <2>1, <2>2, Kinds DEF TreeOK
<1> QED  BY <1>1, <1>2, <1>3, <1>4

LEMMA UnlinkIs ==
  ASSUME NEW t, TreeOK(t), NEW p \in Paths, t[p] # Dir \/ \A k \in Kids[p] : t[k] = NoEnt
  PROVE  /\ TreeOK(Unlink(t, p)) /\ Unlink(t, p)[p] = NoEnt
         /\ \A q \in Paths : q # p => Unlink(t, p)[q] = t[q]
<1> DEFINE u == Unlink(t, p)
<1>1. u \in [Paths -> {NoEnt, Dir} \cup Inodes] /\ u[p] = NoEnt /\ \A q \in Paths : q # p => u[q] = t[q]
  BY DEF Unlink, TreeOK
<1>2. \A q \in Paths : IsPrefix(p, q) /\ p # q => t[q] = NoEnt
  BY BelowNothing
<1> HIDE DEF u
<1>3. ASSUME NEW x \in Paths, NEW y \in Paths, IsPrefix(x, y), x # y, u[y] # NoEnt PROVE u[x] = Dir
  <2>1. y # p /\ t[y] # NoEnt
    BY <1>1, <1>3
  <2>2. t[x] = Dir /\ x # p
    BY <1>2, <1>3, <2>1 DEF TreeOK
  <2> QED  BY <1>1, <2>2
<1>4. ASSUME NEW x \in Paths, NEW y \in Paths, u[x] \in Inodes, u[x] = u[y] PROVE x = y
  BY <1>1, <1>4, Kinds DEF TreeOK
<1> QED  BY <1>1, <1>3, <1>4 DEF TreeOK, u

LEMMA MkPathIs ==
  ASSUME NEW t, TreeOK(t), NEW p \in Words, CanMkPath(t, p)
  PROVE  /\ TreeOK(MkPath(t, p))
         /\ \A q \in Paths : t[q] # NoEnt => MkPath(t, p)[q] = t[q]
         /\ \A q \in Paths : MkPath(t, p)[q] # t[q] => MkPath(t, p)[q] = Dir /\ IsPrefix(q, p)
         /\ \A q \in Paths : IsPrefix(q, p) => MkPath(t, p)[q] = Dir
<1> DEFINE u == MkPath(t, p)
<1>1. u \in [Paths -> {NoEnt, Dir} \cup Inodes] /\ \A q \in Paths : u[q] = IF IsPrefix(q, p) THEN Dir ELSE t[q]
  BY DEF MkPath, TreeOK
<1>2. \A q \in Paths : IsPrefix(q, p) => t[q] \in {NoEnt, Dir}
  BY DEF CanMkPath, IsFile, TreeOK
<1> HIDE DEF u
<1>3. ASSUME NEW x \in Paths, NEW y \in Paths, IsPrefix(x, y), x # y, u[y] # NoEnt PROVE u[x] = Dir
  <2>1. CASE IsPrefix(y, p)
    BY <1>1, <1>3, <2>1, PrefixOrder, PathsAreWords
  <2>2. CASE ~IsPrefix(y, p)
    BY <1>1, <1>3, <2>2 DEF TreeOK
  <2> QED  BY <2>1, <2>2
<1>4. ASSUME NEW x \in Paths, NEW y \in Paths, u[x] \in Inodes, u[x] = u[y] PROVE x = y
  BY <1>1, <1>4, Kinds DEF TreeOK
<1> QED  BY <1>1, <1>2, <1>3, <1>4 DEF TreeOK, u

(* A file that is opened for writing, there or new. *)
Spare(t, b, i) == t[b] = i \/ \A p \in Paths : t[p] # i
LEMMA PlacedIs ==
  ASSUME NEW t, TreeOK(t), NEW b \in Paths, HasDir(t, b), t[b] # Dir, NEW i \in Inodes,
         Spare(t, b, i), NEW u, u = [t EXCEPT ![b] = i]
  PROVE  /\ TreeOK(u) /\ u[b] = i
         /\ \A q \in Paths : q # b => u[q] = t[q] /\ t[q] # i
<1>1. u \in [Paths -> {NoEnt, Dir} \cup Inodes] /\ u[b] = i /\ \A q \in Paths : q # b => u[q] = t[q]
  BY DEF TreeOK
<1>2. \A q \in Paths : q # b => t[q] # i
  BY DEF TreeOK, Spare
<1>3. Parent(b) \in Paths /\ t[Parent(b)] = Dir
  BY DEF HasDir, IsDir
<1>4. ASSUME NEW x \in Paths, NEW y \in Paths, IsPrefix(x, y), x # y, u[y] # NoEnt PROVE u[x] = Dir
  <2>1. CASE y = b
    <3>1. IsPrefix(x, Parent(b))
      BY <1>4, <2>1, ParentIs, PathsAreWords
    <3>2. t[x] = Dir
      BY <1>3, <3>1, Kinds DEF TreeOK
    <3> QED  BY <1>1, <1>4, <2>1, <3>2
  <2>2. CASE y # b
    <3>1. t[x] = Dir
      BY <1>1, <1>4, <2>2 DEF TreeOK
    <3> QED  BY <1>1, <3>1
  <2> QED  BY <2>1, <2>2
<1>5. ASSUME NEW x \in Paths, NEW y \in Paths, u[x] \in Inodes, u[x] = u[y] PROVE x = y
  BY <1>1, <1>2, <1>5 DEF TreeOK
<1> QED  BY <1>1, <1>2, <1>4, <1>5 DEF TreeOK

(* rename: all that was under a is under b, the rest is what it was.        *)
LEMMA RenamedIs ==
  ASSUME NEW t, TreeOK(t), NEW a \in Paths, NEW b \in Paths, RenameErr(t, a, b) = "ok"
  PROVE  /\ TreeOK(Renamed(t, a, b))
         /\ \A q \in Paths : ~IsPrefix(a, q) /\ ~IsPrefix(b, q) => Renamed(t, a, b)[q] = t[q]
         /\ \A q \in Paths : IsPrefix(a, q) /\ t[q] # NoEnt =>
              /\ Rebase(q, a, b) \in Paths /\ Renamed(t, a, b)[Rebase(q, a, b)] = t[q]
         /\ \A q \in Paths : IsPrefix(b, q) /\ Renamed(t, a, b)[q] # NoEnt =>
              /\ Rebase(q, b, a) \in Paths /\ IsPrefix(a, Rebase(q, b, a)) /\ q = Rebase(Rebase(q, b, a), a, b)
              /\ Renamed(t, a, b)[q] = t[Rebase(q, b, a)]
         /\ \A q \in Paths : IsPrefix(a, q) /\ ~IsPrefix(b, q) => Renamed(t, a, b)[q] = NoEnt
         /\ t[a] # NoEnt
<1> DEFINE u == Renamed(t, a, b)
<1>w. a \in Words /\ b \in Words /\ \A p \in Paths : p \in Words
  BY PathsAreWords
<1>e. /\ t[a] # NoEnt /\ HasDir(t, b) /\ ~IsStrictPrefix(a, b) /\ ~IsStrictPrefix(b, a)
      /\ \A q \in Below[a] : t[q] # NoEnt => Rebase(q, a, b) \in Paths
  BY DEF RenameErr, Exists, Fits
<1>1. \A q \in Paths : u[q] = IF IsPrefix(b, q)
                              THEN IF Rebase(q, b, a) \in Paths THEN t[Rebase(q, b, a)] ELSE NoEnt
                              ELSE IF IsPrefix(a, q) THEN NoEnt ELSE t[q]
  BY BelowIs DEF Renamed
<1>2. u \in [Paths -> {NoEnt, Dir} \cup Inodes]
  <2>1. \A q \in Paths : u[q] \in {NoEnt, Dir} \cup Inodes
    BY <1>1 DEF TreeOK
  <2> QED  BY <2>1 DEF Renamed
<1> HIDE DEF u
<1>3. \A q \in Paths : ~IsPrefix(a, q) /\ ~IsPrefix(b, q) => u[q] = t[q]
  BY <1>1
<1>4. ASSUME NEW q \in Paths, IsPrefix(a, q), t[q] # NoEnt
      PROVE  Rebase(q, a, b) \in Paths /\ u[Rebase(q, a, b)] = t[q]
  <2>1. Rebase(q, a, b) \in Paths
    BY <1>4, <1>e, BelowIs
  <2>2. IsPrefix(b, Rebase(q, a, b)) /\ Rebase(Rebase(q, a, b), b, a) = q
    BY <1>4, <1>w, RebaseThere
  <2> QED  BY <1>1, <2>1, <2>2
<1>5. ASSUME NEW q \in Paths, IsPrefix(b, q), u[q] # NoEnt
      PROVE  /\ Rebase(q, b, a) \in Paths /\ IsPrefix(a, Rebase(q, b, a)) /\ q = Rebase(Rebase(q, b, a), a, b)
             /\ u[q] = t[Rebase(q, b, a)]
  BY <1>1, <1>5, <1>w, RebaseThere
<1>6. \A q \in Paths : IsPrefix(a, q) /\ ~IsPrefix(b, q) => u[q] = NoEnt
  BY <1>1
<1>7. ASSUME NEW x \in Paths, NEW y \in Paths, IsPrefix(x, y), x # y, u[y] # NoEnt PROVE u[x] = Dir
  <2>1. CASE IsPrefix(b, x)
    <3>1. IsPrefix(b, y)
      BY <1>7, <1>w, <2>1, PrefixOrder
    <3>2. /\ Rebase(y, b, a) \in Paths /\ y = Rebase(Rebase(y, b, a), a, b)
          /\ t[Rebase(y, b, a)] # NoEnt /\ IsPrefix(a, Rebase(y, b, a))
      BY <1>5, <1>7, <3>1
    <3>3. IsPrefix(Rebase(x, b, a), Rebase(y, b, a)) /\ Rebase(x, b, a) \in Words /\ x = Rebase(Rebase(x, b, a), a, b)
          /\ IsPrefix(a, Rebase(x, b, a))
      BY <1>7, <1>w, <2>1, RebaseKeepsOrder, RebaseThere
    <3>4. Rebase(x, b, a) # Rebase(y, b, a)
      BY <1>7, <3>2, <3>3
    <3>5. Rebase(x, b, a) \in Paths
      <4>1. Len(a) \in Nat \ {0} /\ Len(a) <= Len(Rebase(x, b, a))
        BY <1>w, <3>3, PathsAreWords, PrefixIs
      <4>2. Len(Rebase(x, b, a)) # 0
        BY <3>3, <4>1 DEF Words
      <4> QED  BY <3>2, <3>3, <4>2, FoldersOfPaths
    <3>6. t[Rebase(x, b, a)] = Dir
      BY <3>2, <3>3, <3>4, <3>5 DEF TreeOK
    <3> QED  BY <1>1, <2>1, <3>5, <3>6
  <2>2. CASE ~IsPrefix(b, x) /\ IsPrefix(b, y)
    <3>1. IsPrefix(x, b) /\ x # b
      BY <1>7, <1>w, <2>2, PrefixOrder
    <3>2. Parent(b) \in Paths /\ t[Parent(b)] = Dir /\ IsPrefix(x, Parent(b))
      BY <1>e, <1>w, <3>1, ParentIs DEF HasDir, IsDir
    <3>3. t[x] = Dir
      BY <3>2, Kinds DEF TreeOK
    <3>4. ~IsPrefix(a, x)
      <4> SUFFICES ASSUME IsPrefix(a, x) PROVE FALSE
        OBVIOUS
      <4>1. IsPrefix(a, b)
        BY <1>w, <3>1, PrefixOrder
      <4>2. a = b
        BY <1>e, <4>1 DEF IsStrictPrefix
      <4> QED  BY <2>2, <4>2
    <3> QED  BY <1>3, <2>2, <3>3, <3>4
  <2>3. CASE ~IsPrefix(b, y) /\ ~IsPrefix(b, x)
    <3>1. ~IsPrefix(a, y) /\ t[y] # NoEnt
      BY <1>1, <1>7, <2>3
    <3>2. ~IsPrefix(a, x)
      BY <1>7, <1>w, <3>1, PrefixOrder
    <3>3. t[x] = Dir
      BY <1>7, <3>1 DEF TreeOK
    <3> QED  BY <1>3, <2>3, <3>2, <3>3
  <2> QED  BY <2>1, <2>2, <2>3
<1>8. ASSUME NEW x \in Paths, NEW y \in Paths, u[x] \in Inodes, u[x] = u[y] PROVE x = y
  <2>1. u[x] # NoEnt /\ u[y] # NoEnt
    BY <1>8, Kinds
  <2>2. \A z \in Paths : u[z] # NoEnt /\ ~IsPrefix(b, z) => u[z] = t[z] /\ ~IsPrefix(a, z)
    BY <1>1
  <2>3. CASE IsPrefix(b, x) /\ IsPrefix(b, y)
    BY <1>5, <1>8, <2>1, <2>3 DEF TreeOK
  <2>4. CASE IsPrefix(b, x) /\ ~IsPrefix(b, y)
    BY <1>5, <1>8, <2>1, <2>2, <2>4 DEF TreeOK
  <2>5. CASE ~IsPrefix(b, x) /\ IsPrefix(b, y)
    BY <1>5, <1>8, <2>1, <2>2, <2>5 DEF TreeOK
  <2>6. CASE ~IsPrefix(b, x) /\ ~IsPrefix(b, y)
    BY <1>8, <2>1, <2>2, <2>6 DEF TreeOK
  <2> QED  BY <2>3, <2>4, <2>5, <2>6
<1> QED  BY <1>2, <1>3, <1>4, <1>5, <1>6, <1>7, <1>8, <1>e DEF TreeOK, u

-------------------------------------------------------------------------------
(* Sequences taken apart and put together, and what Put does to a job.     *)

LEMMA SeqParts ==
  ASSUME NEW S, NEW s \in Seq(S)
  PROVE  /\ Range(s) \subseteq S
         /\ s # <<>> => Head(s) \in S /\ Tail(s) \in Seq(S) /\ Range(s) = {Head(s)} \cup Range(Tail(s))
         /\ Range(Tail(s)) \subseteq Range(s) \/ s = <<>>
<1>1. Range(s) \subseteq S
  BY RangeOfSeq
<1>2. ASSUME s # <<>> PROVE Head(s) \in S /\ Tail(s) \in Seq(S) /\ Range(s) = {Head(s)} \cup Range(Tail(s))
  <2>1. s = <<Head(s)>> \o Tail(s) /\ Head(s) \in S /\ Tail(s) \in Seq(S) /\ Head(s) = s[1]
        /\ Len(Tail(s)) = Len(s) - 1 /\ \A i \in 1 .. Len(s) - 1 : Tail(s)[i] = s[i + 1]
    BY <1>2, HeadTailProperties
  <2>2. Len(s) \in Nat \ {0} /\ DOMAIN s = 1 .. Len(s) /\ DOMAIN Tail(s) = 1 .. Len(s) - 1
    BY <1>2, <2>1
  <2>3. \A i \in 1 .. Len(s) : i = 1 \/ (i - 1 \in 1 .. Len(s) - 1 /\ (i - 1) + 1 = i)
    BY <2>2
  <2>4. \A i \in 1 .. Len(s) - 1 : i + 1 \in 1 .. Len(s)
    BY <2>2
  <2>5. Range(s) \subseteq {Head(s)} \cup Range(Tail(s))
    <3> SUFFICES ASSUME NEW i \in 1 .. Len(s) PROVE s[i] \in {Head(s)} \cup Range(Tail(s))
      BY <2>2 DEF Range
    <3>1. CASE i = 1
      BY <2>1, <3>1
    <3>2. CASE i # 1
      <4>1. i - 1 \in DOMAIN Tail(s) /\ Tail(s)[i - 1] = s[(i - 1) + 1] /\ (i - 1) + 1 = i
        BY <2>1, <2>2, <2>3, <3>2
      <4> QED  BY <4>1 DEF Range
    <3> QED  BY <3>1, <3>2
  <2>6. {Head(s)} \cup Range(Tail(s)) \subseteq Range(s)
    <3>1. 1 \in DOMAIN s
      BY <2>2
    <3>2. Range(Tail(s)) \subseteq Range(s)
      BY <2>1, <2>2, <2>4 DEF Range
    <3> QED  BY <2>1, <3>1, <3>2 DEF Range
  <2> QED  BY <2>1, <2>5, <2>6
<1> QED  BY <1>1, <1>2

LEMMA EmptyRange == Range(<<>>) = {}
  BY DEF Range

LEMMA Pushing ==
  ASSUME NEW S, NEW x \in S, NEW t \in Seq(S)
  PROVE  /\ <<x>> \o t \in Seq(S) /\ <<x>> \o t # <<>> /\ Head(<<x>> \o t) = x /\ Tail(<<x>> \o t) = t
         /\ Range(<<x>> \o t) = {x} \cup Range(t)
         /\ <<x>> \in Seq(S) /\ <<x>> # <<>> /\ Head(<<x>>) = x /\ Tail(<<x>>) = <<>> /\ Range(<<x>>) = {x}
<1> DEFINE u == <<x>> \o t
<1>1. u \in Seq(S) /\ u # <<>> /\ Head(u) = x /\ Tail(u) = t
  OBVIOUS
<1> HIDE DEF u
<1>2. Range(u) = {x} \cup Range(t)
  BY <1>1, SeqParts
<1>3. <<x>> \in Seq(S) /\ <<x>> # <<>> /\ Head(<<x>>) = x /\ Tail(<<x>>) = <<>>
  OBVIOUS
<1>4. Range(<<x>>) = {x}
  BY DEF Range
<1> QED  BY <1>1, <1>2, <1>3, <1>4 DEF u

LEMMA Joined ==
  ASSUME NEW S, NEW s \in Seq(S), NEW t \in Seq(S)
  PROVE  s \o t \in Seq(S) /\ Range(s \o t) = Range(s) \cup Range(t)
<1>1. s \o t \in Seq(S)
  BY ConcatProperties
<1>2. Range(s \o t) = Range(s) \cup Range(t)
  BY RangeConcatenation
<1> QED  BY <1>1, <1>2

LEMMA ThreeParts ==
  ASSUME NEW S, NEW s \in Seq(S), NEW x \in S, NEW t \in Seq(S)
  PROVE  /\ s \o <<x>> \o t \in Seq(S) /\ s \o <<x>> \o t # <<>>
         /\ Range(s \o <<x>> \o t) = Range(s) \cup {x} \cup Range(t)
<1> DEFINE y == <<x>>
           u == s \o y
<1>1. y \in Seq(S) /\ Range(y) = {x}
  BY Pushing
<1>a. y \in Seq(S)
  BY <1>1
<1> HIDE DEF y
<1>2. u \in Seq(S) /\ Range(u) = Range(s) \cup {x}
  BY <1>1, <1>a, Joined
<1>b. u \in Seq(S)
  BY <1>2
<1> HIDE DEF u
<1>c. u \o t \in Seq(S) /\ Range(u \o t) = Range(u) \cup Range(t)
  BY <1>b, Joined
<1>3. (s \o <<x>>) \o t \in Seq(S) /\ Range((s \o <<x>>) \o t) = Range(s \o <<x>>) \cup Range(t)
  BY <1>c DEF u, y
<1>4. (s \o <<x>>) \o t # <<>>
  <2>1. x \in Range((s \o <<x>>) \o t)
    BY <1>2, <1>3 DEF u, y
  <2> QED  BY <2>1, EmptyRange
<1> QED  BY <1>2, <1>3, <1>4 DEF u, y

LEMMA Appending ==
  ASSUME NEW S, NEW s \in Seq(S), NEW x \in S
  PROVE  /\ Append(s, x) \in Seq(S) /\ Range(Append(s, x)) = Range(s) \cup {x}
<1>1. Append(s, x) = s \o <<x>>
  OBVIOUS
<1> DEFINE y == <<x>>
<1>2. y \in Seq(S) /\ Range(y) = {x}
  BY Pushing
<1>3. y \in Seq(S)
  BY <1>2
<1> HIDE DEF y
<1>4. s \o y \in Seq(S) /\ Range(s \o y) = Range(s) \cup Range(y)
  BY <1>3, Joined
<1> QED  BY <1>1, <1>2, <1>4 DEF y

(* What Put does.                                                          *)
SameBut(n, r, X) == DOMAIN n = Fields /\ \A x \in Fields \ X : n[x] = r[x]
LEMMA PutIs ==
  ASSUME NEW j \in Slots, DOMAIN job = Slots, DOMAIN job[j] = Fields, NEW r, job' = Put(j, r), DOMAIN r \subseteq Fields
  PROVE  /\ DOMAIN job' = Slots
         /\ \A i \in Slots : i # j => job'[i] = job[i]
         /\ SameBut(job'[j], job[j], DOMAIN r)
         /\ \A x \in DOMAIN r : job'[j][x] = r[x]
<1> DEFINE n == Over(r, job[j])
<1>1. job' = [job EXCEPT ![j] = n]
  BY DEF Put
<1>2. job'[j] = n
  BY <1>1
<1>3. DOMAIN n = Fields
  BY DEF Over
<1>4. \A x \in Fields : n[x] = IF x \in DOMAIN r THEN r[x] ELSE job[j][x]
  BY DEF Over
<1> QED  BY <1>1, <1>2, <1>3, <1>4 DEF SameBut

(* Where nothing is being written every file is whole.                     *)
AllWhole(t, data) == \A p \in Paths : t[p] \in Inodes => Fine(data[t[p]])
WholeNext == \A p \in Paths : fs'[p] \in Inodes => Fine(disk'[fs'[p]]) \/ disk'[fs'[p]] \in faults'.half
NoOther(j) == DOMAIN job' = Slots /\ \A i \in Slots : i # j => job'[i] = job[i]
LEMMA WholeWhenNotWriting ==
  ASSUME NEW j \in Slots, Core, Active(j), ~Writing(job[j])
  PROVE  AllWhole(fs, disk)
<1>1. \A i \in Slots : i # j => ~Writing(job[i])
  <2> TAKE i \in Slots
  <2> HAVE i # j
  <2>1. ~Active(i) /\ JobOK(job[i])
    BY DEF Core
  <2> QED  BY <2>1 DEF Active, JobOK, VisitsOK, Walking, Writing
<1> QED  BY <1>1 DEF Core, HalfOK, AllWhole

LEMMA CoreKept ==
  ASSUME Grows, NEW j \in Slots, Core, Active(j), NoOther(j), UNCHANGED undo,
         TreeOK(fs'), disk' \in [Inodes -> [1 .. Chunks -> Files \cup {0}]], info' \in [Trashed -> Records],
         JobOK(job'[j]), WriteOK(fs', disk', job'[j]), CopyOK(fs', job'[j]),
         \/ AllWhole(fs', disk') \/ WholeNext
         \/ /\ Writing(job'[j])
            /\ \A p \in Paths : fs'[p] \in Inodes => p = Head(job'[j].stack).b \/ Fine(disk'[fs'[p]])
  PROVE  Core'
<1>1. \A i \in Slots : i # j => job'[i] = job[i] /\ job[i].at \in {"unused", "ended"} /\ job[i].stack = <<>> /\ JobOK(job[i])
  BY DEF Core, NoOther, Active, JobOK, VisitsOK, Walking
<1>2. \A i \in Slots : JobOK(job'[i]) /\ WriteOK(fs', disk', job'[i]) /\ CopyOK(fs', job'[i])
  BY <1>1 DEF WriteOK, Writing, CopyOK
<1>3. \A i, k \in Slots : (job'[i].at \notin {"unused", "ended"}) /\ (job'[k].at \notin {"unused", "ended"}) => i = k
  BY <1>1
<1>4. \A p \in Paths : fs'[p] \in Inodes =>
        \/ Fine(disk'[fs'[p]]) \/ disk'[fs'[p]] \in faults'.half
        \/ \E i \in Slots : Writing(job'[i]) /\ Head(job'[i].stack).b = p
  BY DEF AllWhole, WholeNext
<1>5. HalfOK'
  BY <1>4 DEF HalfOK, Fine, Grows
<1> QED  BY <1>2, <1>3, <1>5 DEF Core, NoOther, Active

(* A visit is over or its visits come first: the rest of the job stays.    *)
LEMMA StackChange ==
  ASSUME NEW r, NEW n, JobOK(r), SameBut(n, r, {"stack", "ok", "errs"}), n.ok \in BOOLEAN, VisitsOK(n), r.at # "unused"
  PROVE  JobOK(n)
<1>1. DOMAIN n = Fields /\ \A x \in Fields \ {"stack", "ok", "errs"} : n[x] = r[x]
  BY DEF SameBut
<1>2. /\ n.op = r.op /\ n.at = r.at /\ n.todo = r.todo /\ n.later = r.later /\ n.dest = r.dest /\ n.policy = r.policy
      /\ n.cur = r.cur /\ n.cancel = r.cancel /\ n.out = r.out /\ n.step = r.step
  BY <1>1 DEF Fields
<1>3. \A i : ItemOK(r, i) <=> ItemOK(n, i)
  BY <1>2 DEF ItemOK, FirstLoop, SecondLoop
<1>4. CurOK(n) /\ OutOK(n)
  BY <1>2 DEF CurOK, OutOK, JobOK
<1> QED  BY <1>1, <1>2, <1>3, <1>4 DEF JobOK

-------------------------------------------------------------------------------
(* The visits of a walk.                                                   *)

LEMMA VisitIs ==
  \A do \in {"copy", "leave", "write", "rm", "rmdir"}, a \in Paths, b \in Words :
    /\ Visit(do, a, b) \in Visiting
    /\ Visit(do, a, b).do = do /\ Visit(do, a, b).a = a /\ Visit(do, a, b).b = b
  BY DEF Visit, Visiting, Words

LEMMA VisitsAre ==
  ASSUME NEW s \in Seq(Paths), NEW do \in {"copy", "rm"}, NEW a \in Words, NEW b \in Words,
         do = "copy" => \A p \in Range(s) : IsPrefix(a, p)
  PROVE  /\ Visits(do, s, a, b) \in Seq(Visiting)
         /\ \A v \in Range(Visits(do, s, a, b)) : v.do = do /\ v.a \in Range(s) /\ (do = "copy" => v.b = Rebase(v.a, a, b))
         /\ \A p \in Range(s) : \E v \in Range(Visits(do, s, a, b)) : v.do = do /\ v.a = p
<1> DEFINE place(i) == IF do = "copy" THEN Rebase(s[i], a, b) ELSE <<>>
           vs == Visits(do, s, a, b)
<1>1. ASSUME NEW i \in DOMAIN s PROVE place(i) \in Words /\ s[i] \in Paths /\ s[i] \in Range(s)
  <2>1. s[i] \in Paths /\ s[i] \in Range(s)
    BY DEF Range
  <2>2. <<>> \in Words
    BY DEF Words
  <2>3. do = "copy" => Rebase(s[i], a, b) \in Words
    BY <2>1, PathsAreWords, RebaseThere
  <2> QED  BY <2>1, <2>2, <2>3
<1>2. vs = [i \in DOMAIN s |-> Visit(do, s[i], place(i))]
  BY DEF Visits
<1>3. ASSUME NEW i \in DOMAIN s
      PROVE  vs[i] \in Visiting /\ vs[i].do = do /\ vs[i].a = s[i] /\ (do = "copy" => vs[i].b = Rebase(s[i], a, b))
  <2>1. vs[i] = Visit(do, s[i], place(i))
    BY <1>2
  <2>2. /\ Visit(do, s[i], place(i)) \in Visiting /\ Visit(do, s[i], place(i)).do = do
        /\ Visit(do, s[i], place(i)).a = s[i] /\ Visit(do, s[i], place(i)).b = place(i)
    BY <1>1, VisitIs
  <2> QED  BY <2>1, <2>2
<1>4. DOMAIN vs = 1 .. Len(s) /\ DOMAIN s = 1 .. Len(s) /\ Len(s) \in Nat
  BY <1>2
<1> HIDE DEF vs
<1>5. vs \in Seq(Visiting)
  <2>1. vs \in [1 .. Len(s) -> Visiting]
    BY <1>2, <1>3, <1>4
  <2> QED  BY <1>4, <2>1
<1> QED  BY <1>1, <1>3, <1>4, <1>5 DEF Range, vs

(* What is known of the job whose visit is made.                           *)
LEMMA TopVisit ==
  ASSUME Core, NEW j \in Slots, job[j].stack # <<>>
  PROVE  /\ Active(j) /\ job[j].at \in Walking /\ JobOK(job[j])
         /\ Top(j) \in Visiting /\ Top(j).a \in Paths /\ Top(j).b \in Words
         /\ Rest(j) \in Seq(Visiting) /\ Range(job[j].stack) = {Top(j)} \cup Range(Rest(j))
         /\ Top(j).do \in {"copy", "leave", "write"} <=> job[j].at = "copying"
         /\ job[j].at = "copying" => Top(j).a \in Below[job[j].cur.from] /\ Top(j).b = Rebase(Top(j).a, job[j].cur.from, job[j].cur.to)
         /\ Writing(job[j]) <=> Top(j).do = "write"
<1>1. JobOK(job[j]) /\ VisitsOK(job[j])
  BY DEF Core, JobOK
<1>2. job[j].stack \in Seq(Visiting) /\ job[j].at \in Walking
  BY <1>1 DEF VisitsOK
<1>3. Top(j) \in Visiting /\ Rest(j) \in Seq(Visiting) /\ Range(job[j].stack) = {Top(j)} \cup Range(Rest(j))
  BY <1>2, SeqParts DEF Top, Rest
<1>4. Top(j).a \in Paths /\ Top(j).b \in Words
  BY <1>3 DEF Visiting, Words
<1>5. Active(j)
  BY <1>2 DEF Active, Walking
<1>6. Top(j).do \in {"copy", "leave", "write"} <=> job[j].at = "copying"
  BY <1>1, <1>2, <1>3 DEF VisitsOK, Walking
<1>7. job[j].at = "copying" => Top(j).a \in Below[job[j].cur.from] /\ Top(j).b = Rebase(Top(j).a, job[j].cur.from, job[j].cur.to)
  BY <1>1, <1>3 DEF VisitsOK
<1>8. Writing(job[j]) <=> Top(j).do = "write"
  BY DEF Writing, Top
<1> QED  BY <1>1, <1>2, <1>3, <1>4, <1>5, <1>6, <1>7, <1>8

(* What remains of the stack when a visit is over.                         *)
LEMMA PoppedOK ==
  ASSUME Core, NEW j \in Slots, job[j].stack # <<>>, NEW n, SameBut(n, job[j], {"stack", "ok", "errs"}),
         n.stack = Rest(j) \/ n.stack = <<>>, n.ok \in BOOLEAN
  PROVE  JobOK(n) /\ ~Writing(n) /\ (n.at = "copying" => (CopyOK(fs, n) /\ (job[j].cur.from # job[j].cur.to => \A t : CopyOK(t, n))))
         /\ (n.at # "copying" => \A t : CopyOK(t, n))
<1>1. JobOK(job[j]) /\ VisitsOK(job[j]) /\ job[j].at \in Walking /\ Rest(j) \in Seq(Visiting)
      /\ Range(job[j].stack) = {Top(j)} \cup Range(Rest(j))
  BY TopVisit DEF JobOK
<1>2. n.at = job[j].at /\ n.cur = job[j].cur
  BY DEF SameBut, Fields
<1>3. n.stack \in Seq(Visiting) /\ Range(n.stack) \subseteq Range(Rest(j))
  <2>1. <<>> \in Seq(Visiting) /\ Range(<<>>) = {}
    BY EmptyRange
  <2> QED  BY <1>1, <2>1
<1>4. Range(Rest(j)) \subseteq Range(job[j].stack)
  BY <1>1
<1>5. job[j].at = "copying" => \A v \in Range(n.stack) : v.do # "write"
  BY <1>1, <1>3 DEF VisitsOK, Rest
<1>6. n.stack # <<>> => Head(n.stack) \in Range(n.stack) /\ Range(Tail(n.stack)) \subseteq Range(n.stack)
  BY <1>3, SeqParts
<1>7. VisitsOK(n)
  <2>1. n.at \in Walking
    BY <1>1, <1>2
  <2>2. n.at = "copying" => /\ \A v \in Range(n.stack) : /\ v.do \in {"copy", "leave", "write"} /\ v.a \in Below[n.cur.from]
                                                         /\ v.b = Rebase(v.a, n.cur.from, n.cur.to)
                            /\ n.stack # <<>> => \A v \in Range(Tail(n.stack)) : v.do # "write"
    BY <1>1, <1>2, <1>3, <1>4, <1>5, <1>6 DEF VisitsOK
  <2>3. n.at \in {"clearing", "unwinding"} => \A v \in Range(n.stack) : v.do \in {"rm", "rmdir"} /\ v.a \in Below[n.cur.to]
    BY <1>1, <1>2, <1>3, <1>4 DEF VisitsOK
  <2>4. n.at = "removing" => \A v \in Range(n.stack) : v.do \in {"rm", "rmdir"} /\ v.a \in Below[n.cur.from]
    BY <1>1, <1>2, <1>3, <1>4 DEF VisitsOK
  <2> QED  BY <1>3, <2>1, <2>2, <2>3, <2>4 DEF VisitsOK
<1>8. JobOK(n)
  BY <1>1, <1>7, StackChange DEF Walking
<1>9. ~Writing(n)
  <2>1. CASE n.at = "copying"
    BY <1>2, <1>5, <1>6, <2>1 DEF Writing
  <2>2. CASE n.at # "copying"
    BY <1>1, <1>2, <1>3, <1>4, <1>6, <2>2 DEF Writing, VisitsOK, Walking
  <2> QED  BY <2>1, <2>2
<1>10. ASSUME n.at = "copying" PROVE CopyOK(fs, n) /\ (job[j].cur.from # job[j].cur.to => \A t : CopyOK(t, n))
  BY <1>2, <1>3, <1>4 DEF Core, CopyOK, Hollow
<1> QED  BY <1>8, <1>9, <1>10 DEF CopyOK

LEMMA NotHollow ==
  ASSUME Core, NEW j \in Slots, job[j].stack # <<>>, Top(j).do \in {"leave", "write"} \/ fs[Top(j).a] # NoEnt,
         job[j].at = "copying"
  PROVE  job[j].cur.from # job[j].cur.to
<1>1. Top(j) \in Range(job[j].stack)
  BY TopVisit
<1> QED  BY <1>1 DEF Core, CopyOK, Hollow

LEMMA PopIs ==
  ASSUME Core, NEW j \in Slots
  PROVE  /\ Pop(j) => NoOther(j) /\ SameBut(job'[j], job[j], {"stack"}) /\ job'[j].stack = Rest(j)
         /\ PopFailed(j) => /\ NoOther(j) /\ SameBut(job'[j], job[j], {"stack", "ok", "errs"})
                            /\ job'[j].stack = Rest(j) /\ job'[j].ok = FALSE
<1>0. DOMAIN job = Slots /\ DOMAIN job[j] = Fields
  BY DEF Core, JobOK
<1>1. ASSUME Pop(j) PROVE NoOther(j) /\ SameBut(job'[j], job[j], {"stack"}) /\ job'[j].stack = Rest(j)
  <2> DEFINE r == [stack |-> Rest(j)]
  <2>1. DOMAIN r = {"stack"} /\ r.stack = Rest(j)
    OBVIOUS
  <2>2. DOMAIN r \subseteq Fields /\ job' = Put(j, r)
    BY <1>1, <2>1 DEF Fields, Pop
  <2> HIDE DEF r
  <2>3. /\ DOMAIN job' = Slots
        /\ \A i \in Slots : i # j => job'[i] = job[i]
        /\ SameBut(job'[j], job[j], DOMAIN r)
        /\ \A x \in DOMAIN r : job'[j][x] = r[x]
    BY <1>0, <2>2, PutIs
  <2> QED  BY <2>1, <2>3 DEF NoOther
<1>2. ASSUME PopFailed(j) PROVE /\ NoOther(j) /\ SameBut(job'[j], job[j], {"stack", "ok", "errs"})
                               /\ job'[j].stack = Rest(j) /\ job'[j].ok = FALSE
  <2> DEFINE r == [stack |-> Rest(j), ok |-> FALSE, errs |-> TRUE]
  <2>1. DOMAIN r = {"stack", "ok", "errs"} /\ r.stack = Rest(j) /\ r.ok = FALSE
    OBVIOUS
  <2>2. DOMAIN r \subseteq Fields /\ job' = Put(j, r)
    BY <1>2, <2>1 DEF Fields, PopFailed
  <2> HIDE DEF r
  <2>3. /\ DOMAIN job' = Slots
        /\ \A i \in Slots : i # j => job'[i] = job[i]
        /\ SameBut(job'[j], job[j], DOMAIN r)
        /\ \A x \in DOMAIN r : job'[j][x] = r[x]
    BY <1>0, <2>2, PutIs
  <2> QED  BY <2>1, <2>3 DEF NoOther
<1> QED  BY <1>1, <1>2

(* The visit on top is over, with an error or without. *)
LEMMA AnyPop ==
  ASSUME Core, NEW j \in Slots, job[j].stack # <<>>, Pop(j) \/ PopFailed(j)
  PROVE  /\ NoOther(j) /\ SameBut(job'[j], job[j], {"stack", "ok", "errs"}) /\ job'[j].stack = Rest(j)
         /\ JobOK(job'[j]) /\ ~Writing(job'[j])
         /\ job'[j].at = "copying" => (CopyOK(fs, job'[j]) /\ (job[j].cur.from # job[j].cur.to => \A t : CopyOK(t, job'[j])))
         /\ job'[j].at # "copying" => \A t : CopyOK(t, job'[j])
         /\ job'[j].at = job[j].at /\ job'[j].cur = job[j].cur
<1>1. /\ NoOther(j) /\ SameBut(job'[j], job[j], {"stack", "ok", "errs"}) /\ job'[j].stack = Rest(j)
  BY PopIs DEF SameBut
<1>2. job'[j].ok \in BOOLEAN
  <2>1. job[j].ok \in BOOLEAN
    BY DEF Core, JobOK
  <2> QED  BY <2>1, PopIs DEF SameBut, Fields
<1> DEFINE n == job'[j]
<1>3. SameBut(n, job[j], {"stack", "ok", "errs"}) /\ n.stack = Rest(j) /\ n.ok \in BOOLEAN
  BY <1>1, <1>2
<1> HIDE DEF n
<1>4. JobOK(n) /\ ~Writing(n) /\ (n.at = "copying" => (CopyOK(fs, n) /\ (job[j].cur.from # job[j].cur.to => \A t : CopyOK(t, n))))
         /\ (n.at # "copying" => \A t : CopyOK(t, n))
  BY <1>3, PoppedOK
<1> QED  BY <1>1, <1>4 DEF n, SameBut, Fields

-------------------------------------------------------------------------------
(* Steps of a walk that take something away, or nothing.                   *)

LEMMA StackPut ==
  ASSUME Core, NEW j \in Slots, NEW s, job' = Put(j, [stack |-> s])
  PROVE  NoOther(j) /\ SameBut(job'[j], job[j], {"stack", "ok", "errs"}) /\ job'[j].stack = s /\ job'[j].ok \in BOOLEAN
         /\ job'[j].at = job[j].at /\ job'[j].cur = job[j].cur
<1>0. DOMAIN job = Slots /\ DOMAIN job[j] = Fields /\ job[j].ok \in BOOLEAN
  BY DEF Core, JobOK
<1> DEFINE r == [stack |-> s]
<1>1. DOMAIN r = {"stack"} /\ r.stack = s
  OBVIOUS
<1>2. DOMAIN r \subseteq Fields
  BY <1>1 DEF Fields
<1>4. job' = Put(j, r)
  OBVIOUS
<1> HIDE DEF r
<1>5. DOMAIN job = Slots /\ DOMAIN job[j] = Fields
  BY <1>0
<1>3. /\ DOMAIN job' = Slots
      /\ \A i \in Slots : i # j => job'[i] = job[i]
      /\ SameBut(job'[j], job[j], DOMAIN r)
      /\ \A x \in DOMAIN r : job'[j][x] = r[x]
  BY ONLY <1>5, <1>2, <1>4, PutIs
<1> QED  BY <1>0, <1>1, <1>3 DEF NoOther, SameBut, Fields

(* A file that was there before, its data untouched, is as whole as it was. *)
LEMMA StillWhole ==
  ASSUME AllWhole(fs, disk), disk' = disk, \A p \in Paths : fs'[p] \in Inodes => \E q \in Paths : fs[q] = fs'[p]
  PROVE  AllWhole(fs', disk')
BY DEF AllWhole

(* A tree step that ends its visit, and makes no file.                     *)
LEMMA VisitOver ==
  ASSUME Grows, Core, NEW j \in Slots, job[j].stack # <<>>, Pop(j) \/ PopFailed(j), UNCHANGED <<disk, info, undo>>,
         TreeOK(fs'), AllWhole(fs', disk') \/ WholeNext, fs' = fs \/ job[j].at # "copying" \/ job[j].cur.from # job[j].cur.to
  PROVE  Core'
<1>1. /\ NoOther(j) /\ JobOK(job'[j]) /\ ~Writing(job'[j])
      /\ job'[j].at = "copying" => (CopyOK(fs, job'[j]) /\ (job[j].cur.from # job[j].cur.to => \A t : CopyOK(t, job'[j])))
      /\ job'[j].at # "copying" => \A t : CopyOK(t, job'[j])
      /\ job'[j].at = job[j].at
  BY AnyPop
<1>2. CopyOK(fs', job'[j])
  BY <1>1
<1>3. WriteOK(fs', disk', job'[j])
  BY <1>1 DEF WriteOK
<1>4. disk' \in [Inodes -> [1 .. Chunks -> Files \cup {0}]] /\ info' \in [Trashed -> Records] /\ Active(j)
  BY TopVisit DEF Core
<1> QED  BY <1>1, <1>2, <1>3, <1>4, CoreKept

LEMMA FarApart ==
  ASSUME NEW q \in Words, NEW a \in Words, NEW b \in Words, IsPrefix(a, q), Rebase(q, a, b) = q
  PROVE  a = b
<1>0. Len(q) \in Nat /\ Len(a) \in Nat /\ Len(b) \in Nat
  BY DEF Words
<1>1. Len(Rebase(q, a, b)) = Len(b) + Len(q) - Len(a)
  BY RebaseIs
<1>2. Len(a) = Len(b)
  BY <1>0, <1>1
<1>3. IsPrefix(b, q)
  BY RebaseThere
<1>4. IsPrefix(a, b) \/ IsPrefix(b, a)
  BY <1>3, PrefixOrder
<1> QED  BY <1>2, <1>4, PrefixOrder

LEMMA KeepsLeaveDir == ASSUME Grows, Core, NEW j \in Slots, LeaveDir(j) PROVE Core'
<1>1. job[j].stack # <<>> /\ Top(j).do = "leave" /\ Pop(j) /\ UNCHANGED <<fs, disk, info, undo>>
  BY DEF LeaveDir, Doing
<1>2. AllWhole(fs, disk) /\ TreeOK(fs)
  BY <1>1, TopVisit, WholeWhenNotWriting DEF Core
<1>3. TreeOK(fs') /\ AllWhole(fs', disk')
  BY <1>1, <1>2
<1> QED  BY <1>1, <1>3, VisitOver

LEMMA KeepsCopyNothing == ASSUME Grows, Core, NEW j \in Slots, CopyNothing(j) PROVE Core'
<1>1. job[j].stack # <<>> /\ Top(j).do = "copy" /\ PopFailed(j) /\ UNCHANGED <<fs, disk, info, undo>>
  BY DEF CopyNothing, Doing
<1>2. AllWhole(fs, disk) /\ TreeOK(fs)
  BY <1>1, TopVisit, WholeWhenNotWriting DEF Core
<1>3. TreeOK(fs') /\ AllWhole(fs', disk')
  BY <1>1, <1>2
<1> QED  BY <1>1, <1>3, VisitOver

LEMMA KeepsRemoveEntry == ASSUME Grows, Core, NEW j \in Slots, RemoveEntry(j) PROVE Core'
<1> DEFINE a == Top(j).a
<1>1. job[j].stack # <<>> /\ Top(j).do \in {"rm", "rmdir"} /\ UNCHANGED <<disk, info, undo>>
  BY DEF RemoveEntry, Doing
<1>2. AllWhole(fs, disk) /\ TreeOK(fs) /\ a \in Paths /\ job[j].at # "copying"
  BY <1>1, TopVisit, WholeWhenNotWriting DEF Core
<1>3. CASE fs' = Unlink(fs, a) /\ Pop(j) /\ ~(IF Top(j).do = "rm" THEN ~Exists(fs, a) ELSE ~IsDir(fs, a) \/ KidsIn(fs, a) # <<>>)
  <2>1. fs[a] # Dir \/ \A k \in Kids[a] : fs[k] = NoEnt
    <3>1. CASE Top(j).do = "rm"
      BY <1>2, <3>1, Kinds DEF RemoveEntry, Doing, IsDir
    <3>2. CASE Top(j).do = "rmdir"
      BY <1>2, <1>3, <3>2, KidsInAre
    <3> QED  BY <1>1, <3>1, <3>2
  <2>2. TreeOK(fs') /\ \A q \in Paths : fs'[q] = NoEnt \/ fs'[q] = fs[q]
    BY <1>2, <1>3, <2>1, UnlinkIs
  <2>3. \A p \in Paths : fs'[p] \in Inodes => \E q \in Paths : fs[q] = fs'[p]
    BY <2>2, Kinds
  <2>4. AllWhole(fs', disk')
    BY <1>1, <1>2, <2>3, StillWhole
  <2> QED  BY <1>1, <1>2, <1>3, <2>2, <2>4, VisitOver
<1>4. CASE PopFailed(j) /\ UNCHANGED fs
  <2>1. TreeOK(fs') /\ AllWhole(fs', disk')
    BY <1>1, <1>2, <1>4
  <2> QED  BY <1>1, <1>2, <1>4, <2>1, VisitOver
<1> QED  BY <1>3, <1>4 DEF RemoveEntry, Works

LEMMA KeepsEnterDir == ASSUME Grows, Core, NEW j \in Slots, EnterDir(j) PROVE Core'
<1> DEFINE a == Top(j).a
           kids == KidsIn(fs, a)
           vs == Visits("rm", kids, <<>>, <<>>)
           w == Visit("rmdir", a, <<>>)
           s == vs \o <<w>> \o Rest(j)
<1>1. job[j].stack # <<>> /\ Top(j).do = "rm" /\ UNCHANGED <<fs, disk, info, undo>> /\ job' = Put(j, [stack |-> s])
  BY DEF EnterDir, Doing
<1>2. /\ AllWhole(fs, disk) /\ TreeOK(fs) /\ a \in Paths /\ job[j].at \in Walking \ {"copying"}
      /\ Rest(j) \in Seq(Visiting) /\ Range(job[j].stack) = {Top(j)} \cup Range(Rest(j)) /\ Active(j)
      /\ JobOK(job[j]) /\ VisitsOK(job[j])
  BY <1>1, TopVisit, WholeWhenNotWriting DEF Core, JobOK
<1>3. kids \in Seq(Paths) /\ Range(kids) \subseteq Kids[a]
  BY <1>2, KidsInAre
<1>4. <<>> \in Words
  BY DEF Words
<1>5. w \in Visiting /\ w.do = "rmdir" /\ w.a = a
  BY <1>2, <1>4, VisitIs
<1>a. "rm" \in {"copy", "rm"} /\ "rm" # "copy" /\ kids \in Seq(Paths)
  BY <1>3
<1>b. w \in Visiting
  BY <1>5
<1> HIDE DEF kids, w
<1>6. vs \in Seq(Visiting) /\ \A v \in Range(vs) : v.do = "rm" /\ v.a \in Range(kids)
  BY <1>4, <1>a, VisitsAre
<1>c. vs \in Seq(Visiting) /\ Rest(j) \in Seq(Visiting)
  BY <1>2, <1>6
<1> HIDE DEF vs
<1>7. s \in Seq(Visiting) /\ s # <<>> /\ Range(s) = Range(vs) \cup {w} \cup Range(Rest(j))
  BY <1>b, <1>c, ThreeParts
<1> HIDE DEF s
<1>8. /\ NoOther(j) /\ SameBut(job'[j], job[j], {"stack", "ok", "errs"}) /\ job'[j].stack = s /\ job'[j].ok \in BOOLEAN
      /\ job'[j].at = job[j].at /\ job'[j].cur = job[j].cur
  BY <1>1, StackPut
<1>9. ASSUME NEW v \in Range(s) PROVE v.do \in {"rm", "rmdir"} /\ (v.a \in Below[a] \/ v \in Range(Rest(j)))
  <2>1. v \in Range(Rest(j)) \/ v.a = a \/ v.a \in Kids[a]
    BY <1>3, <1>5, <1>6, <1>7
  <2>2. v.do \in {"rm", "rmdir"}
    BY <1>2, <1>5, <1>6, <1>7 DEF VisitsOK, Walking
  <2>3. a \in Below[a] /\ Kids[a] \subseteq Below[a]
    BY <1>2, BelowIs, KidsAre, PrefixOrder, PathsAreWords
  <2> QED  BY <2>1, <2>2, <2>3
<1>10. ASSUME NEW c \in Paths, a \in Below[c] PROVE Below[a] \subseteq Below[c]
  BY <1>2, <1>10, BelowIs, PrefixOrder, PathsAreWords
<1>11. VisitsOK(job'[j])
  <2>1. CASE job[j].at \in {"clearing", "unwinding"}
    <3>1. job[j].cur.to \in Paths /\ \A v \in Range(job[j].stack) : v.a \in Below[job[j].cur.to]
      BY <1>2, <2>1 DEF VisitsOK, JobOK, CurOK
    <3>2. a \in Below[job[j].cur.to]
      BY <1>2, <3>1
    <3>3. \A v \in Range(s) : v.a \in Below[job[j].cur.to]
      BY <1>2, <1>9, <1>10, <3>1, <3>2
    <3> QED  BY <1>2, <1>7, <1>8, <1>9, <2>1, <3>3 DEF VisitsOK
  <2>2. CASE job[j].at = "removing"
    <3>1. job[j].cur.from \in Paths /\ \A v \in Range(job[j].stack) : v.a \in Below[job[j].cur.from]
      BY <1>2, <2>2 DEF VisitsOK, JobOK, CurOK
    <3>2. a \in Below[job[j].cur.from]
      BY <1>2, <3>1
    <3>3. \A v \in Range(s) : v.a \in Below[job[j].cur.from]
      BY <1>2, <1>9, <1>10, <3>1, <3>2
    <3> QED  BY <1>2, <1>7, <1>8, <1>9, <2>2, <3>3 DEF VisitsOK
  <2> QED  BY <1>2, <2>1, <2>2 DEF Walking
<1>12. JobOK(job'[j])
  <2>1. job[j].at # "unused"
    BY <1>2 DEF Active
  <2> QED  BY <1>2, <1>8, <1>11, <2>1, StackChange
<1>13. ~Writing(job'[j])
  <2>1. Head(s) \in Range(s)
    BY <1>7, SeqParts
  <2> QED  BY <1>8, <1>9, <2>1 DEF Writing
<1>14. CopyOK(fs', job'[j]) /\ WriteOK(fs', disk', job'[j])
  BY <1>2, <1>8, <1>13 DEF CopyOK, WriteOK
<1>15. disk' \in [Inodes -> [1 .. Chunks -> Files \cup {0}]] /\ info' \in [Trashed -> Records] /\ TreeOK(fs') /\ AllWhole(fs', disk')
  BY <1>1, <1>2 DEF Core
<1> QED  BY <1>1, <1>2, <1>8, <1>12, <1>14, <1>15, CoreKept

-------------------------------------------------------------------------------
(* A folder is copied.                                                     *)

(* A visit of a copy: where it goes from and to. *)
LEMMA CopyVisit ==
  ASSUME Core, NEW j \in Slots, job[j].stack # <<>>, job[j].at = "copying"
  PROVE  /\ job[j].cur.from \in Paths /\ job[j].cur.to \in Paths
         /\ Top(j).a \in Paths /\ Top(j).b \in Words
         /\ IsPrefix(job[j].cur.from, Top(j).a) /\ Top(j).b = Rebase(Top(j).a, job[j].cur.from, job[j].cur.to)
         /\ IsPrefix(job[j].cur.to, Top(j).b)
         /\ job[j].cur.from # job[j].cur.to => Top(j).a # Top(j).b
<1>1. /\ Top(j).a \in Paths /\ Top(j).b \in Words /\ Top(j).a \in Below[job[j].cur.from]
      /\ Top(j).b = Rebase(Top(j).a, job[j].cur.from, job[j].cur.to) /\ JobOK(job[j])
  BY TopVisit
<1>2. job[j].cur.from \in Paths /\ job[j].cur.to \in Paths
  BY <1>1 DEF JobOK, CurOK
<1>3. IsPrefix(job[j].cur.from, Top(j).a) /\ job[j].cur.from \in Words /\ job[j].cur.to \in Words /\ Top(j).a \in Words
  BY <1>1, <1>2, BelowIs, PathsAreWords
<1>4. IsPrefix(job[j].cur.to, Top(j).b)
  BY <1>1, <1>3, RebaseThere
<1>5. Top(j).a = Top(j).b => job[j].cur.from = job[j].cur.to
  BY <1>1, <1>3, FarApart
<1> QED  BY <1>1, <1>2, <1>3, <1>4, <1>5

LEMMA KeepsCopyDir == ASSUME Grows, Core, NEW j \in Slots, CopyDir(j) PROVE Core'
<1> DEFINE v == Top(j)
           a == v.a
           b == v.b
           from == job[j].cur.from
           to == job[j].cur.to
           there == IF IsFile(fs, b) THEN Unlink(fs, b) ELSE fs
           kids == KidsIn(fs, a)
           vs == Visits("copy", kids, a, b)
           w == Visit("leave", a, b)
           s == vs \o <<w>> \o Rest(j)
<1>1. job[j].stack # <<>> /\ v.do = "copy" /\ UNCHANGED <<disk, info, undo>> /\ fs[a] = Dir
  BY DEF CopyDir, Doing, IsDir
<1>2. /\ AllWhole(fs, disk) /\ TreeOK(fs) /\ a \in Paths /\ b \in Words /\ job[j].at = "copying"
      /\ Rest(j) \in Seq(Visiting) /\ Range(job[j].stack) = {v} \cup Range(Rest(j)) /\ Active(j)
      /\ JobOK(job[j]) /\ VisitsOK(job[j])
  BY <1>1, TopVisit, WholeWhenNotWriting DEF Core, JobOK
<1>3. from # to
  BY <1>1, <1>2, Kinds, NotHollow
<1>4. from \in Paths /\ to \in Paths /\ IsPrefix(from, a) /\ b = Rebase(a, from, to)
  BY <1>1, <1>2, CopyVisit
<1>5. TreeOK(there) /\ \A q \in Paths : there[q] = NoEnt \/ there[q] = fs[q]
  BY <1>2, Kinds, UnlinkIs DEF IsFile
<1>6. CASE PopFailed(j) /\ fs' = there
  <2>1. \A p \in Paths : fs'[p] \in Inodes => \E q \in Paths : fs[q] = fs'[p]
    BY <1>5, <1>6, Kinds
  <2>2. TreeOK(fs') /\ AllWhole(fs', disk')
    BY <1>1, <1>2, <1>5, <1>6, <2>1, StillWhole
  <2> QED  BY <1>1, <1>3, <1>6, <2>2, VisitOver
<1>7. CASE fs' = MkPath(there, b) /\ job' = Put(j, [stack |-> s]) /\ CanMkPath(there, b)
  <2>1. /\ TreeOK(fs')
        /\ \A q \in Paths : there[q] # NoEnt => fs'[q] = there[q]
        /\ \A q \in Paths : fs'[q] # there[q] => fs'[q] = Dir
    <3> HIDE DEF there, b
    <3> QED  BY <1>2, <1>5, <1>7, MkPathIs
  <2>2. \A p \in Paths : fs'[p] \in Inodes => \E q \in Paths : fs[q] = fs'[p]
    BY <1>5, <2>1, Kinds
  <2>3. AllWhole(fs', disk')
    BY <1>1, <1>2, <2>2, StillWhole
  <2>4. kids \in Seq(Paths) /\ Range(kids) \subseteq Kids[a]
    BY <1>2, KidsInAre
  <2>5. w \in Visiting /\ w.do = "leave" /\ w.a = a /\ w.b = b
    BY <1>2, VisitIs
  <2>6. "copy" \in {"copy", "rm"} /\ kids \in Seq(Paths) /\ w \in Visiting /\ a \in Words /\ b \in Words
    BY <1>2, <2>4, <2>5, PathsAreWords
  <2>7. \A p \in Range(kids) : IsPrefix(a, p)
    BY <1>2, <2>4, KidsAre
  <2> HIDE DEF kids, w, a, b, from, to
  <2>8. vs \in Seq(Visiting) /\ \A x \in Range(vs) : x.do = "copy" /\ x.a \in Range(kids) /\ x.b = Rebase(x.a, a, b)
    BY <2>6, <2>7, VisitsAre
  <2>9. vs \in Seq(Visiting) /\ Rest(j) \in Seq(Visiting)
    BY <1>2, <2>8
  <2> HIDE DEF vs
  <2>10. s \in Seq(Visiting) /\ s # <<>> /\ Range(s) = Range(vs) \cup {w} \cup Range(Rest(j))
    BY <2>6, <2>9, ThreeParts
  <2> HIDE DEF s
  <2>11. /\ NoOther(j) /\ SameBut(job'[j], job[j], {"stack", "ok", "errs"}) /\ job'[j].stack = s /\ job'[j].ok \in BOOLEAN
         /\ job'[j].at = job[j].at /\ job'[j].cur = job[j].cur
    BY <1>7, StackPut
  <2>12. ASSUME NEW x \in Range(s) PROVE x.do \in {"copy", "leave"} /\ x.a \in Below[from] /\ x.b = Rebase(x.a, from, to)
    <3>1. CASE x \in Range(Rest(j))
      <4>1. x \in Range(job[j].stack)
        BY <1>2, <3>1
      <4>2. x.do # "write"
        BY <1>1, <1>2, <3>1 DEF VisitsOK, Rest
      <4> QED  BY <1>2, <4>1, <4>2 DEF VisitsOK, from, to
    <3>2. CASE x = w
      BY <1>2, <1>4, <2>5, <3>2, BelowIs
    <3>3. CASE x \in Range(vs)
      <4>1. x.a \in Kids[a] /\ x.do = "copy" /\ x.b = Rebase(x.a, a, b)
        BY <2>4, <2>8, <3>3
      <4>2. x.a \in Paths /\ IsPrefix(a, x.a)
        BY <1>2, <4>1, KidsAre
      <4>3. x.a \in Words /\ from \in Words /\ to \in Words /\ a \in Words
        BY <1>2, <1>4, <4>2, PathsAreWords
      <4>4. IsPrefix(from, x.a)
        BY <1>4, <4>2, <4>3, PrefixOrder
      <4>5. Rebase(x.a, a, Rebase(a, from, to)) = Rebase(x.a, from, to)
        BY <1>4, <4>2, <4>3, RebaseTwice
      <4> QED  BY <1>4, <4>1, <4>2, <4>4, <4>5, BelowIs
    <3> QED  BY <2>10, <3>1, <3>2, <3>3
  <2>13. Range(Tail(s)) \subseteq Range(s) /\ Head(s) \in Range(s)
    BY <2>10, SeqParts
  <2>14. VisitsOK(job'[j])
    BY <1>2, <2>10, <2>11, <2>12, <2>13 DEF VisitsOK, from, to, Walking
  <2>15. JobOK(job'[j])
    BY <1>2, <2>11, <2>14, StackChange
  <2>16. ~Writing(job'[j])
    BY <2>11, <2>12, <2>13 DEF Writing
  <2>17. CopyOK(fs', job'[j]) /\ WriteOK(fs', disk', job'[j])
    BY <1>3, <2>11, <2>16 DEF CopyOK, WriteOK, from, to
  <2>18. disk' \in [Inodes -> [1 .. Chunks -> Files \cup {0}]] /\ info' \in [Trashed -> Records]
    BY <1>1 DEF Core
  <2> QED  BY <1>1, <1>2, <2>1, <2>3, <2>11, <2>15, <2>17, <2>18, CoreKept
<1> QED  BY <1>6, <1>7 DEF CopyDir, Works

(* What is left on the stack once a visit of a copy goes on as another.    *)
LEMMA TopReplaced ==
  ASSUME Core, NEW j \in Slots, job[j].stack # <<>>, job[j].at = "copying",
         NEW w \in Visiting, w.a = Top(j).a, w.b = Top(j).b, w.do = "write", job' = Put(j, [stack |-> <<w>> \o Rest(j)]),
         job[j].cur.from # job[j].cur.to
  PROVE  /\ NoOther(j) /\ JobOK(job'[j]) /\ CopyOK(fs', job'[j]) /\ Writing(job'[j]) /\ Head(job'[j].stack) = w
<1> DEFINE s == <<w>> \o Rest(j)
<1>1. /\ Rest(j) \in Seq(Visiting) /\ Range(job[j].stack) = {Top(j)} \cup Range(Rest(j)) /\ JobOK(job[j]) /\ VisitsOK(job[j])
      /\ Top(j) \in Range(job[j].stack)
  BY TopVisit DEF JobOK
<1>2. Rest(j) \in Seq(Visiting)
  BY <1>1
<1>3. s \in Seq(Visiting) /\ s # <<>> /\ Head(s) = w /\ Tail(s) = Rest(j) /\ Range(s) = {w} \cup Range(Rest(j))
  BY <1>2, Pushing
<1> HIDE DEF s
<1>4. /\ NoOther(j) /\ SameBut(job'[j], job[j], {"stack", "ok", "errs"}) /\ job'[j].stack = s /\ job'[j].ok \in BOOLEAN
      /\ job'[j].at = job[j].at /\ job'[j].cur = job[j].cur
  <2>1. job' = Put(j, [stack |-> s])
    BY DEF s
  <2> QED  BY <2>1, StackPut
<1>5. ASSUME NEW x \in Range(s)
      PROVE  /\ x.do \in {"copy", "leave", "write"} /\ x.a \in Below[job[j].cur.from] /\ x.b = Rebase(x.a, job[j].cur.from, job[j].cur.to)
             /\ x \in Range(Tail(s)) => x.do # "write"
  <2>1. \A y \in Range(job[j].stack) : y.do \in {"copy", "leave", "write"} /\ y.a \in Below[job[j].cur.from] /\ y.b = Rebase(y.a, job[j].cur.from, job[j].cur.to)
    BY <1>1 DEF VisitsOK
  <2>2. \A y \in Range(Rest(j)) : y.do # "write"
    BY <1>1 DEF VisitsOK, Rest
  <2> QED  BY <1>1, <1>3, <2>1, <2>2
<1>6. Range(Tail(s)) \subseteq Range(s)
  BY <1>3
<1>7. VisitsOK(job'[j])
  <2>1. job'[j].at = "copying" /\ job'[j].cur = job[j].cur /\ job'[j].stack = s
    BY <1>4
  <2>2. \A x \in Range(s) : x.do \in {"copy", "leave", "write"} /\ x.a \in Below[job[j].cur.from] /\ x.b = Rebase(x.a, job[j].cur.from, job[j].cur.to)
    BY <1>5
  <2>3. \A x \in Range(Tail(s)) : x.do # "write"
    BY <1>5, <1>6
  <2>4. s \in Seq(Visiting)
    BY <1>3
  <2> QED  BY <2>1, <2>2, <2>3, <2>4 DEF VisitsOK, Walking
<1>8. JobOK(job'[j])
  BY <1>1, <1>4, <1>7, StackChange
<1> QED  BY <1>3, <1>4, <1>8 DEF Writing, CopyOK

-------------------------------------------------------------------------------
(* A file is opened and copied chunk by chunk; a walk sees the cancel.     *)

LEMMA SameFunctions == ASSUME NEW S, NEW T, NEW f \in [S -> T], NEW g \in [S -> T], \A i \in S : f[i] = g[i] PROVE f = g
OBVIOUS

Zeros == [k \in 1 .. Chunks |-> 0]
Places(b, i) == /\ TreeOK(fs') /\ fs'[b] = i /\ \A q \in Paths : q # b => fs'[q] = fs[q] /\ fs[q] # i
LEMMA Placing ==
  ASSUME NEW b \in Paths, NEW i \in Inodes, TreeOK(fs), HasDir(fs, b), fs[b] # Dir, Spare(fs, b, i), fs' = [fs EXCEPT ![b] = i]
  PROVE  Places(b, i)
<1>1. TreeOK(fs')
  BY PlacedIs
<1>4. fs'[b] = i
  BY DEF TreeOK
<1>2. \A q \in Paths : q # b => fs'[q] = fs[q]
  BY DEF TreeOK
<1>3. \A q \in Paths : q # b => fs[q] # i
  BY PlacedIs
<1> QED  BY <1>1, <1>2, <1>3, <1>4 DEF Places

LEMMA KeepsOpenFile == ASSUME Grows, Core, NEW j \in Slots, OpenFile(j) PROVE Core'
<1> DEFINE v == Top(j)
           a == v.a
           vb == v.b
           vi == IF IsFile(fs, vb) THEN fs[vb] ELSE CHOOSE n \in FreeInodes : TRUE
           w == [v EXCEPT !.do = "write", !.in = fs[a], !.out = vi, !.k = 1]
<1>1. job[j].stack # <<>> /\ v.do = "copy" /\ UNCHANGED <<info, undo>> /\ fs[a] \in Inodes
  BY Zenon DEF OpenFile, Doing, IsFile
<1>2. /\ AllWhole(fs, disk) /\ TreeOK(fs) /\ a \in Paths /\ vb \in Words /\ v \in Visiting /\ job[j].at = "copying" /\ Active(j)
  BY <1>1, TopVisit, WholeWhenNotWriting DEF Core
<1>3. job[j].cur.from # job[j].cur.to
  BY <1>1, <1>2, Kinds, NotHollow
<1>4. a # vb
  BY <1>1, <1>2, <1>3, CopyVisit
<1>5. CASE PopFailed(j) /\ UNCHANGED <<fs, disk>>
  <2>1. TreeOK(fs') /\ AllWhole(fs', disk')
    BY <1>2, <1>5
  <2> QED  BY <1>1, <1>5, <2>1, VisitOver
<1>6. CASE /\ ~(IsDir(fs, vb) \/ ~HasDir(fs, vb) \/ (~IsFile(fs, vb) /\ FreeInodes = {}))
           /\ fs' = [fs EXCEPT ![vb] = vi]
           /\ disk' = [disk EXCEPT ![vi] = Zeros]
           /\ job' = Put(j, [stack |-> <<w>> \o Rest(j)])
  <2>1. vb \in Paths /\ HasDir(fs, vb) /\ fs[vb] # Dir
    BY <1>6, Zenon DEF HasDir, IsDir
  <2>2. vi \in Inodes /\ (fs[vb] = vi \/ \A p \in Paths : fs[p] # vi)
    <3>1. CASE IsFile(fs, vb)
      BY <3>1 DEF IsFile
    <3>2. CASE ~IsFile(fs, vb)
      <4>1. vi \in FreeInodes
        BY <1>6, <3>2, Zenon
      <4> QED  BY <4>1 DEF FreeInodes
    <3> QED  BY <3>1, <3>2
  <2> HIDE DEF vi
  <2>3. w \in Visiting /\ w.do = "write" /\ w.a = a /\ w.b = vb /\ w.in = fs[a] /\ w.out = vi /\ w.k = 1
    BY <1>1, <1>2, <2>2, DataAssumption DEF Visiting
  <2>4. TreeOK(fs') /\ fs'[vb] = vi /\ \A q \in Paths : q # vb => fs'[q] = fs[q] /\ fs[q] # vi
    <3>a. TreeOK(fs)
      BY <1>2
    <3>b. vb \in Paths
      BY <2>1
    <3>c. HasDir(fs, vb)
      BY <2>1
    <3>d. vi \in Inodes
      BY <2>2
    <3>e. fs[vb] # Dir
      BY <2>1
    <3>f. Spare(fs, vb, vi)
      BY <2>2 DEF Spare
    <3>2. fs' = [fs EXCEPT ![vb] = vi]
      BY <1>6
    <3> HIDE DEF vb
    <3>3. Places(vb, vi)
      BY ONLY <3>a, <3>b, <3>c, <3>d, <3>e, <3>f, <3>2, Placing
    <3> QED  BY <3>3 DEF Places
  <2>5. w \in Visiting
    BY <2>3
  <2> HIDE DEF w
  <2>6. NoOther(j) /\ JobOK(job'[j]) /\ CopyOK(fs', job'[j]) /\ Writing(job'[j]) /\ Head(job'[j].stack) = w
    BY <1>1, <1>2, <1>3, <1>6, <2>3, <2>5, TopReplaced
  <2>7. WriteOK(fs', disk', job'[j])
    <3>1. fs'[a] = fs[a] /\ 1 \in 1 .. Chunks /\ 1 .. 1 - 1 = {}
      BY <1>2, <1>4, <2>4, DataAssumption
    <3> QED  BY <1>1, <1>4, <2>1, <2>2, <2>3, <2>4, <2>6, <3>1 DEF WriteOK
  <2>8. disk \in [Inodes -> [1 .. Chunks -> Files \cup {0}]] /\ info' \in [Trashed -> Records]
    BY <1>1 DEF Core
  <2>9. disk' \in [Inodes -> [1 .. Chunks -> Files \cup {0}]]
    BY <1>6, <2>8 DEF Zeros
  <2>10. ASSUME NEW p \in Paths, fs'[p] \in Inodes, p # vb PROVE Fine(disk'[fs'[p]])
    <3>1. fs'[p] = fs[p] /\ fs[p] # vi
      BY <2>4, <2>10
    <3>2. disk'[fs[p]] = disk[fs[p]]
      BY <1>6, <2>8, <2>10, <3>1
    <3> QED  BY <1>2, <2>10, <3>1, <3>2 DEF AllWhole
  <2> QED  BY <1>1, <1>2, <2>3, <2>4, <2>6, <2>7, <2>8, <2>9, <2>10, CoreKept
<1> QED  BY <1>5, <1>6, Zenon DEF OpenFile, Works, Zeros

(* The one file being written is not whole yet; every other is.            *)
LEMMA WritingIs ==
  ASSUME Core, NEW j \in Slots, Writing(job[j])
  PROVE  /\ Top(j).b \in Paths /\ Top(j).a \in Paths /\ Top(j).a # Top(j).b
         /\ Top(j).k \in 1 .. Chunks /\ Top(j).in \in Inodes /\ Top(j).out \in Inodes /\ Top(j).in # Top(j).out
         /\ fs[Top(j).a] = Top(j).in /\ fs[Top(j).b] = Top(j).out
         /\ \A i \in 1 .. Top(j).k - 1 : disk[Top(j).out][i] = disk[Top(j).in][i]
         /\ \A p \in Paths : fs[p] \in Inodes /\ p # Top(j).b => fs[p] # Top(j).out /\ Fine(disk[fs[p]])
<1>1. job[j].stack # <<>> /\ Top(j).do = "write" /\ WriteOK(fs, disk, job[j]) /\ TreeOK(fs)
  BY DEF Core, Writing, Top
<1>2. /\ Top(j).b \in Paths /\ Top(j).a \in Paths /\ Top(j).a # Top(j).b
      /\ Top(j).k \in 1 .. Chunks /\ Top(j).in \in Inodes /\ Top(j).out \in Inodes
      /\ fs[Top(j).a] = Top(j).in /\ fs[Top(j).b] = Top(j).out
      /\ \A i \in 1 .. Top(j).k - 1 : disk[Top(j).out][i] = disk[Top(j).in][i]
  BY <1>1, TopVisit DEF WriteOK, Top
<1>3. \A p \in Paths : fs[p] \in Inodes /\ p # Top(j).b => fs[p] # Top(j).out
  BY <1>1, <1>2 DEF TreeOK
<1>4. \A i \in Slots : Writing(job[i]) => i = j
  <2> TAKE i \in Slots
  <2> HAVE Writing(job[i])
  <2>1. Active(i) /\ Active(j)
    BY <1>1, TopVisit DEF Writing
  <2> QED  BY <2>1 DEF Core
<1>5. \A p \in Paths : fs[p] \in Inodes /\ p # Top(j).b => Fine(disk[fs[p]])
  BY <1>4 DEF Core, HalfOK, Top
<1> QED  BY <1>2, <1>3, <1>5

LEMMA TargetRemoved ==
  ASSUME Core, NEW j \in Slots, Writing(job[j]), RemoveTarget(Top(j).b), disk' = disk
  PROVE  TreeOK(fs') /\ AllWhole(fs', disk')
<1>1. /\ Top(j).b \in Paths /\ fs[Top(j).b] = Top(j).out /\ Top(j).out \in Inodes /\ TreeOK(fs)
      /\ \A p \in Paths : fs[p] \in Inodes /\ p # Top(j).b => Fine(disk[fs[p]])
  BY WritingIs DEF Core
<1>2. fs' = Unlink(fs, Top(j).b)
  BY <1>1 DEF RemoveTarget, IsFile
<1>3. TreeOK(fs') /\ fs'[Top(j).b] = NoEnt /\ \A q \in Paths : q # Top(j).b => fs'[q] = fs[q]
  BY <1>1, <1>2, Kinds, UnlinkIs
<1> QED  BY <1>1, <1>3, Kinds DEF AllWhole

LEMMA TargetLeft ==
  ASSUME Core, NEW j \in Slots, Writing(job[j]), NEW kind, TargetStays(Top(j).b, kind), disk' = disk
  PROVE  TreeOK(fs') /\ WholeNext /\ fs' = fs
<1>1. /\ Top(j).b \in Paths /\ TreeOK(fs)
      /\ \A p \in Paths : fs[p] \in Inodes /\ p # Top(j).b => Fine(disk[fs[p]])
  BY WritingIs DEF Core
<1>2. fs' = fs /\ faults'.half = faults.half \cup {disk[fs[Top(j).b]]}
  BY DEF TargetStays, FaultLeaving
<1> QED  BY <1>1, <1>2 DEF WholeNext

LEMMA KeepsWriteChunk == ASSUME Grows, Core, "flush" \notin FaultKinds, NEW j \in Slots, WriteChunk(j) PROVE Core'
<1> DEFINE v == Top(j)
           w == [v EXCEPT !.k = v.k + 1]
<1>1. job[j].stack # <<>> /\ v.do = "write" /\ UNCHANGED <<info, undo>> /\ Writing(job[j])
  BY Zenon DEF WriteChunk, Doing, Writing, Top
<1>2. v \in Visiting /\ job[j].at = "copying" /\ Active(j) /\ TreeOK(fs)
  BY <1>1, TopVisit DEF Core
<1>3. job[j].cur.from # job[j].cur.to
  BY <1>1, <1>2, NotHollow
<1>4. /\ v.b \in Paths /\ v.a \in Paths /\ v.a # v.b
      /\ v.k \in 1 .. Chunks /\ v.in \in Inodes /\ v.out \in Inodes /\ v.in # v.out
      /\ fs[v.a] = v.in /\ fs[v.b] = v.out
      /\ \A i \in 1 .. v.k - 1 : disk[v.out][i] = disk[v.in][i]
      /\ \A p \in Paths : fs[p] \in Inodes /\ p # v.b => fs[p] # v.out /\ Fine(disk[fs[p]])
  <2> HIDE DEF v
  <2> QED  BY <1>1, WritingIs, TopVisit DEF v
<1>5. CASE RemoveTarget(v.b) /\ PopFailed(j) /\ UNCHANGED disk
  <2>1. TreeOK(fs') /\ AllWhole(fs', disk')
    BY <1>1, <1>5, TargetRemoved
  <2> QED  BY <1>1, <1>3, <1>5, <2>1, VisitOver
<1>7. CASE TargetStays(v.b, "write") /\ PopFailed(j) /\ UNCHANGED disk
  <2>1. TreeOK(fs') /\ WholeNext
    BY <1>1, <1>7, TargetLeft
  <2> QED  BY <1>1, <1>3, <1>7, <2>1, VisitOver
<1>6. CASE /\ disk' = [disk EXCEPT ![v.out][v.k] = disk[v.in][v.k]]
           /\ job' = Put(j, [stack |-> IF v.k = Chunks THEN Rest(j) ELSE <<w>> \o Rest(j)])
           /\ UNCHANGED fs
  <2>1. disk \in [Inodes -> [1 .. Chunks -> Files \cup {0}]] /\ info' \in [Trashed -> Records]
    BY <1>1 DEF Core
  <2>2. disk' \in [Inodes -> [1 .. Chunks -> Files \cup {0}]]
    <3>1. v.out \in Inodes /\ v.in \in Inodes /\ v.k \in 1 .. Chunks
      BY <1>4
    <3>2. disk' = [disk EXCEPT ![v.out][v.k] = disk[v.in][v.k]]
      BY <1>6
    <3> HIDE DEF v
    <3>3. disk[v.in][v.k] \in Files \cup {0}
      BY <2>1, <3>1
    <3> QED  BY <2>1, <3>1, <3>2, <3>3
  <2>3. /\ disk'[v.out][v.k] = disk[v.in][v.k] /\ \A i \in 1 .. Chunks : i # v.k => disk'[v.out][i] = disk[v.out][i]
        /\ \A n \in Inodes : n # v.out => disk'[n] = disk[n]
    BY <1>4, <1>6, <2>1
  <2>4. v.k \in Nat /\ Chunks \in Nat /\ v.k <= Chunks /\ v.k >= 1
    BY <1>4, DataAssumption
  <2>5. \A i \in 1 .. v.k : disk'[v.out][i] = disk'[v.in][i]
    BY <1>4, <2>3, <2>4
  <2>6. ASSUME NEW p \in Paths, fs'[p] \in Inodes, p # v.b PROVE Fine(disk'[fs'[p]])
    BY <1>4, <1>6, <2>3, <2>6
  <2>7. CASE v.k # Chunks
    <3>1. w \in Visiting /\ w.do = "write" /\ w.a = v.a /\ w.b = v.b /\ w.in = v.in /\ w.out = v.out /\ w.k = v.k + 1
      BY <1>1, <1>2, <2>4 DEF Visiting
    <3>2. w \in Visiting /\ job' = Put(j, [stack |-> <<w>> \o Rest(j)])
      BY <1>6, <2>7, <3>1
    <3> HIDE DEF w
    <3>3. NoOther(j) /\ JobOK(job'[j]) /\ CopyOK(fs', job'[j]) /\ Writing(job'[j]) /\ Head(job'[j].stack) = w
      BY <1>1, <1>2, <1>3, <3>1, <3>2, TopReplaced
    <3>4. w.k \in 1 .. Chunks /\ w.k - 1 = v.k
      BY <2>4, <2>7, <3>1
    <3>5. WriteOK(fs', disk', job'[j])
      <4>1. /\ w.b \in Paths /\ w.a # w.b /\ w.in \in Inodes /\ w.out \in Inodes /\ fs'[w.a] = w.in /\ fs'[w.b] = w.out
        BY <1>4, <1>6, <3>1
      <4>2. \A i \in 1 .. w.k - 1 : disk'[w.out][i] = disk'[w.in][i]
        BY <2>5, <3>1, <3>4
      <4> QED  BY <3>3, <3>4, <4>1, <4>2 DEF WriteOK
    <3> QED  BY <1>1, <1>2, <1>6, <2>1, <2>2, <2>6, <3>1, <3>3, <3>5, CoreKept
  <2>8. CASE v.k = Chunks
    <3>1. Pop(j)
      BY <1>6, <2>8 DEF Pop
    <3>2. disk'[v.out] = disk'[v.in]
      <4> DEFINE x == disk'[v.out]
                 y == disk'[v.in]
      <4>1. \A i \in 1 .. Chunks : x[i] = y[i]
        BY <2>5, <2>8
      <4>2. x \in [1 .. Chunks -> Files \cup {0}] /\ y \in [1 .. Chunks -> Files \cup {0}]
        BY <1>4, <2>2
      <4> DEFINE D == Files \cup {0}
      <4>3. x \in [1 .. Chunks -> D] /\ y \in [1 .. Chunks -> D]
        BY <4>2
      <4> HIDE DEF x, y, D
      <4>5. x = [i \in 1 .. Chunks |-> x[i]] /\ y = [i \in 1 .. Chunks |-> y[i]]
        BY <4>3
      <4>4. x = y
        BY <4>1, <4>5
      <4> QED  BY <4>4 DEF x, y
    <3>3. AllWhole(fs', disk')
      BY <1>4, <1>6, <2>6, <3>2 DEF AllWhole
    <3>4. /\ NoOther(j) /\ JobOK(job'[j]) /\ ~Writing(job'[j]) /\ CopyOK(fs', job'[j])
      BY <1>1, <1>2, <1>3, <3>1, AnyPop
    <3>5. WriteOK(fs', disk', job'[j]) /\ TreeOK(fs')
      BY <1>2, <1>6, <3>4, Zenon DEF WriteOK
    <3> QED  BY <1>1, <1>2, <2>1, <2>2, <3>3, <3>4, <3>5, CoreKept
  <2> QED  BY <2>7, <2>8
<1> QED  BY <1>5, <1>6, <1>7 DEF WriteChunk, Fault, FaultLeaving

LEMMA KeepsSeeCancel == ASSUME Grows, Core, NEW j \in Slots, SeeCancel(j) PROVE Core'
<1> DEFINE n == job'[j]
           r == [stack |-> <<>>, ok |-> FALSE]
<1>1. job[j].stack # <<>> /\ UNCHANGED <<disk, info, undo>> /\ job' = Put(j, r)
  BY DEF SeeCancel
<1>2. DOMAIN r = {"stack", "ok"} /\ r.stack = <<>> /\ r.ok = FALSE
  OBVIOUS
<1>3. DOMAIN r \subseteq Fields
  BY <1>2 DEF Fields
<1>4. DOMAIN job = Slots /\ DOMAIN job[j] = Fields
  BY DEF Core, JobOK
<1>5. job' = Put(j, r)
  BY <1>1
<1> HIDE DEF r
<1>6. /\ DOMAIN job' = Slots /\ \A i \in Slots : i # j => job'[i] = job[i]
      /\ SameBut(job'[j], job[j], DOMAIN r) /\ \A x \in DOMAIN r : job'[j][x] = r[x]
  BY ONLY <1>3, <1>4, <1>5, PutIs
<1>7. NoOther(j) /\ SameBut(n, job[j], {"stack", "ok", "errs"}) /\ n.stack = <<>> /\ n.ok = FALSE /\ n.at = job[j].at /\ n.cur = job[j].cur
  BY <1>2, <1>6 DEF NoOther, SameBut, Fields
<1>8. SameBut(n, job[j], {"stack", "ok", "errs"}) /\ n.stack = <<>> /\ n.ok \in BOOLEAN
  BY <1>7
<1> HIDE DEF n
<1>9. JobOK(n) /\ ~Writing(n)
  BY <1>1, <1>8, PoppedOK
<1>10. TreeOK(fs') /\ (AllWhole(fs', disk') \/ WholeNext)
  <2>1. CASE Writing(job[j])
    <3>1. Top(j).do = "write"
      BY <2>1 DEF Writing, Top
    <3>2. RemoveTarget(Top(j).b) \/ TargetStays(Top(j).b, "unlink")
      BY <3>1 DEF SeeCancel
    <3> QED  BY <1>1, <2>1, <3>2, TargetRemoved, TargetLeft
  <2>2. CASE ~Writing(job[j])
    <3>1. UNCHANGED fs
      BY <1>1, <2>2, TopVisit DEF SeeCancel
    <3>2. TreeOK(fs) /\ AllWhole(fs, disk)
      BY <1>1, <2>2, TopVisit, WholeWhenNotWriting DEF Core
    <3> QED  BY <1>1, <3>1, <3>2
  <2> QED  BY <2>1, <2>2
<1>11. CopyOK(fs', n)
  <2>1. ASSUME n.at = "copying", n.cur.from = n.cur.to PROVE Hollow(fs', n)
    <3>1. fs[n.cur.from] = NoEnt /\ ~Writing(job[j])
      <4>1. Hollow(fs, job[j])
        BY <1>7, <2>1 DEF Core, CopyOK
      <4>2. Top(j) \in Range(job[j].stack)
        BY <1>1, TopVisit
      <4> QED  BY <1>7, <4>1, <4>2 DEF Hollow, Writing, Top
    <3>2. UNCHANGED fs
      BY <1>1, <3>1, TopVisit DEF SeeCancel
    <3> QED  BY <1>7, <3>1, <3>2, EmptyRange DEF Hollow
  <2> QED  BY <2>1 DEF CopyOK
<1>12. disk' \in [Inodes -> [1 .. Chunks -> Files \cup {0}]] /\ info' \in [Trashed -> Records] /\ Active(j)
  BY <1>1, TopVisit DEF Core
<1>13. WriteOK(fs', disk', n)
  BY <1>9 DEF WriteOK
<1>14. NoOther(j) /\ JobOK(job'[j]) /\ WriteOK(fs', disk', job'[j]) /\ CopyOK(fs', job'[j])
  BY <1>7, <1>9, <1>11, <1>13 DEF n
<1> QED  BY <1>1, <1>10, <1>12, <1>14, CoreKept

LEMMA KeepsTreeStep == ASSUME Grows, Core, "flush" \notin FaultKinds, NEW j \in Slots, TreeStep(j) PROVE Core'
BY KeepsCopyDir, KeepsLeaveDir, KeepsOpenFile, KeepsCopyNothing, KeepsWriteChunk, KeepsEnterDir, KeepsRemoveEntry, KeepsSeeCancel
   DEF TreeStep

-------------------------------------------------------------------------------
(* What a step of a call has to keep.                                      *)

Moving == {"at", "todo", "later", "cur", "stack", "ok", "errs", "out", "had", "honest"}
LEMMA NextJob ==
  ASSUME NEW r, NEW n, JobOK(r), r.at # "unused", SameBut(n, r, Moving),
         n.at \in StagesOf(r.op), n.at # "unused", n.ok \in BOOLEAN, n.cur \in AllPairs, CurOK(n),
         n.todo \in Seq(AllPairs), \A i \in Range(n.todo) : ItemOK(n, i),
         n.later \in Seq(FullPairs), r.op # "move" => n.later = <<>>, \A l \in Range(n.later) : l.from # l.to,
         OutOK(n), VisitsOK(n)
  PROVE  JobOK(n)
<1>1. DOMAIN n = Fields /\ \A x \in Fields \ Moving : n[x] = r[x]
  BY DEF SameBut
<1>2. n.op = r.op /\ n.dest = r.dest /\ n.policy = r.policy /\ n.cancel = r.cancel /\ n.step = r.step
  BY <1>1 DEF Fields, Moving
<1> QED  BY <1>1, <1>2 DEF JobOK

LEMMA NoVisits == ASSUME NEW n, n.stack = <<>> PROVE VisitsOK(n) /\ ~Writing(n)
<1>1. <<>> \in Seq(Visiting) /\ Range(<<>>) = {}
  BY EmptyRange
<1> QED  BY <1>1 DEF VisitsOK, Writing

LEMMA OneVisit ==
  ASSUME NEW n, NEW do \in {"copy", "rm"}, NEW a \in Paths, NEW b \in Words, n.stack = <<Visit(do, a, b)>>,
         \/ n.at = "copying" /\ do = "copy" /\ a = n.cur.from /\ b = n.cur.to
         \/ n.at = "removing" /\ do = "rm" /\ a = n.cur.from
         \/ n.at \in {"clearing", "unwinding"} /\ do = "rm" /\ a = n.cur.to
  PROVE  VisitsOK(n) /\ ~Writing(n) /\ \A t : CopyOK(t, n) <=> (n.at = "copying" => a # b \/ t[a] = NoEnt)
<1> DEFINE v == Visit(do, a, b)
<1>1. v \in Visiting /\ v.do = do /\ v.a = a /\ v.b = b
  BY VisitIs
<1>2. v \in Visiting /\ n.stack = <<v>> /\ <<>> \in Seq(Visiting)
  BY <1>1
<1> HIDE DEF v
<1>3. <<v>> \in Seq(Visiting) /\ Head(<<v>>) = v /\ Tail(<<v>>) = <<>> /\ Range(<<v>>) = {v} /\ <<v>> # <<>>
  BY <1>2, Pushing
<1>4. a \in Below[a] /\ Rebase(a, a, b) = b /\ Range(<<>>) = {}
  BY PathsAreWords, BelowIs, PrefixOrder, RebaseThere, EmptyRange
<1>5. VisitsOK(n)
  BY <1>1, <1>2, <1>3, <1>4 DEF VisitsOK, Walking
<1>6. ~Writing(n)
  BY <1>1, <1>2, <1>3 DEF Writing
<1>7. \A t : CopyOK(t, n) <=> (n.at = "copying" => a # b \/ t[a] = NoEnt)
  BY <1>1, <1>2, <1>3 DEF CopyOK, Hollow
<1> QED  BY <1>5, <1>6, <1>7

(* A step of a call makes no file and writes nothing.                      *)
NoNewFile == \A p \in Paths : fs'[p] \in Inodes => \E q \in Paths : fs[q] = fs'[p]
LEMMA CallKept ==
  ASSUME Grows, Core, NEW j \in Slots, Active(j), job[j].stack = <<>>, NoOther(j), UNCHANGED <<disk, undo>>,
         TreeOK(fs'), NoNewFile, info' \in [Trashed -> Records], JobOK(job'[j]), ~Writing(job'[j]), CopyOK(fs', job'[j])
  PROVE  Core'
<1>1. AllWhole(fs, disk)
  BY WholeWhenNotWriting DEF Writing
<1>2. AllWhole(fs', disk')
  BY <1>1, StillWhole DEF NoNewFile
<1>3. WriteOK(fs', disk', job'[j])
  BY DEF WriteOK
<1>4. disk' \in [Inodes -> [1 .. Chunks -> Files \cup {0}]]
  BY DEF Core
<1> QED  BY <1>2, <1>3, <1>4, CoreKept

LEMMA SameTree == ASSUME Core, fs' = fs PROVE TreeOK(fs') /\ NoNewFile
BY DEF Core, NoNewFile

(* What is known of a job that is not visiting anything.                   *)
LEMMA PutCore ==
  ASSUME Core, NEW j \in Slots, NEW r, job' = Put(j, r), DOMAIN r \subseteq Fields
  PROVE  NoOther(j) /\ SameBut(job'[j], job[j], DOMAIN r) /\ \A x \in DOMAIN r : job'[j][x] = r[x]
<1>1. DOMAIN job = Slots /\ DOMAIN job[j] = Fields
  BY DEF Core, JobOK
<1>2. DOMAIN r \subseteq Fields /\ job' = Put(j, r)
  OBVIOUS
<1>3. /\ DOMAIN job' = Slots
      /\ \A i \in Slots : i # j => job'[i] = job[i]
      /\ SameBut(job'[j], job[j], DOMAIN r)
      /\ \A x \in DOMAIN r : job'[j][x] = r[x]
  BY ONLY <1>1, <1>2, PutIs
<1> QED  BY <1>3 DEF NoOther

LEMMA LastOff == ASSUME NEW s \in Words, NEW x PROVE Parent(Append(s, x)) = s
<1>1. s \in Seq(PathNames \cup {x})
  BY DEF Words
<1> DEFINE S == PathNames \cup {x}
<1>2. s \in Seq(S) /\ x \in S
  BY <1>1
<1> HIDE DEF S
<1>3. Append(s, x) \in Seq(S) /\ Len(Append(s, x)) = Len(s) + 1 /\ \A i \in 1 .. Len(s) : Append(s, x)[i] = s[i]
  BY <1>2
<1> DEFINE t == Append(s, x)
           u == SubSeq(t, 1, Len(s))
<1>4. t \in Seq(S) /\ Len(t) = Len(s) + 1 /\ \A i \in 1 .. Len(s) : t[i] = s[i]
  BY <1>3
<1> HIDE DEF t
<1>5. u \in Seq(S) /\ Len(u) = Len(s) /\ \A i \in 1 .. Len(s) : u[i] = t[i]
  BY <1>2, <1>4
<1> HIDE DEF u
<1>6. u = s
  BY <1>2, <1>4, <1>5, SeqEqual
<1>7. Parent(t) = SubSeq(t, 1, Len(t) - 1) /\ Len(t) - 1 = Len(s)
  BY <1>2, <1>4 DEF Parent, Front
<1> QED  BY <1>6, <1>7 DEF t, u

LEMMA FirstOpenIs ==
  ASSUME NEW S, NEW p, NEW q \in FirstOpen(p, S), NEW x, NEW d \in Words, p = Append(d, x)
  PROVE  Parent(q) = d
<1>1. PICK i \in DOMAIN Numbered(p) : q = Numbered(p)[i]
  BY DEF FirstOpen
<1>2. Parent(p) = d
  BY LastOff
<1>3. q = p \/ q = Append(d, Alias[Last(p)][i - 1])
  BY <1>1, <1>2 DEF Numbered
<1> QED  BY <1>2, <1>3, LastOff

LEMMA FirstOpenIn == ASSUME NEW S, NEW p, NEW q \in FirstOpen(p, S) PROVE q \in S
BY DEF FirstOpen

-------------------------------------------------------------------------------
(* A call moves on to its next stage.                                      *)

LEMMA ListNext ==
  ASSUME NEW S, NEW s \in Seq(S), s # <<>>
  PROVE  Head(s) \in S /\ Head(s) \in Range(s) /\ Tail(s) \in Seq(S) /\ Range(Tail(s)) \subseteq Range(s)
BY SeqParts

(* A step between two items, or from one stage of an item to the next: the  *)
(* lists may be shorter, and nothing is visited.                            *)
LEMMA StageOK ==
  ASSUME NEW r, NEW n, JobOK(r), r.at # "unused", NEW X \in SUBSET {"at", "todo", "errs"}, SameBut(n, r, X),
         n.at \in StagesOf(r.op) \ {"unused"}, r.stack = <<>>,
         n.todo \in Seq(AllPairs), Range(n.todo) \subseteq Range(r.todo),
         CurOK(n), FirstLoop(n) => FirstLoop(r), SecondLoop(n) => SecondLoop(r)
  PROVE  JobOK(n) /\ ~Writing(n)
<1>1. DOMAIN n = Fields /\ \A x \in Fields \ {"at", "todo", "errs"} : n[x] = r[x]
  BY DEF SameBut
<1>2. /\ n.op = r.op /\ n.dest = r.dest /\ n.cur = r.cur /\ n.stack = r.stack /\ n.ok = r.ok /\ n.later = r.later /\ n.out = r.out
      /\ n.step = r.step
  BY <1>1 DEF Fields
<1>3. SameBut(n, r, Moving)
  BY <1>1 DEF SameBut, Moving
<1>4. \A i \in Range(n.todo) : ItemOK(n, i)
  <2> TAKE i \in Range(n.todo)
  <2>1. ItemOK(r, i)
    BY DEF JobOK
  <2> QED  BY <1>2, <2>1 DEF ItemOK
<1>5. OutOK(n)
  BY <1>2 DEF JobOK, OutOK
<1>6. VisitsOK(n) /\ ~Writing(n)
  BY <1>2, NoVisits
<1>7. n.ok \in BOOLEAN /\ n.cur \in AllPairs /\ n.later \in Seq(FullPairs) /\ (r.op # "move" => n.later = <<>>)
      /\ \A l \in Range(n.later) : l.from # l.to
  BY <1>2 DEF JobOK
<1>8. n.at \in StagesOf(r.op) /\ n.at # "unused"
  OBVIOUS
<1> QED  BY <1>3, <1>4, <1>5, <1>6, <1>7, <1>8, NextJob

LEMMA Idle == ASSUME Core, NEW j \in Slots, job[j].at \notin Walking, job[j].at # "unused", job[j].at # "ended"
              PROVE  Active(j) /\ job[j].stack = <<>> /\ JobOK(job[j])
BY DEF Core, JobOK, VisitsOK, Active

(* Steps that only move on. *)
LEMMA MovesOn ==
  ASSUME Grows, Core, NEW j \in Slots, Active(j), job[j].stack = <<>>, NEW r, job' = Put(j, r), DOMAIN r \subseteq {"at", "todo", "errs"},
         UNCHANGED <<disk, undo>>, info' \in [Trashed -> Records], TreeOK(fs'), NoNewFile,
         job'[j].at \in StagesOf(job[j].op) \ {"unused"},
         job'[j].todo \in Seq(AllPairs), Range(job'[j].todo) \subseteq Range(job[j].todo),
         CurOK(job'[j]), FirstLoop(job'[j]) => FirstLoop(job[j]), SecondLoop(job'[j]) => SecondLoop(job[j]),
         job'[j].at \notin Walking
  PROVE  Core'
<1>1. DOMAIN r \subseteq Fields
  BY DEF Fields
<1>2. NoOther(j) /\ SameBut(job'[j], job[j], DOMAIN r)
  BY <1>1, PutCore
<1>3. JobOK(job[j]) /\ job[j].at # "unused"
  BY DEF Core, Active
<1> DEFINE n == job'[j]
           X == DOMAIN r
<1>4. X \in SUBSET {"at", "todo", "errs"} /\ SameBut(n, job[j], X)
  BY <1>2
<1>5. /\ n.at \in StagesOf(job[j].op) \ {"unused"} /\ n.todo \in Seq(AllPairs) /\ Range(n.todo) \subseteq Range(job[j].todo)
      /\ CurOK(n) /\ (FirstLoop(n) => FirstLoop(job[j])) /\ (SecondLoop(n) => SecondLoop(job[j])) /\ n.at # "copying"
  BY DEF Walking
<1> HIDE DEF n, X
<1>6. JobOK(n) /\ ~Writing(n)
  BY <1>3, <1>4, <1>5, StageOK
<1>7. CopyOK(fs', n)
  BY <1>5 DEF CopyOK
<1>8. JobOK(job'[j]) /\ ~Writing(job'[j]) /\ CopyOK(fs', job'[j])
  BY <1>6, <1>7 DEF n
<1> QED  BY <1>2, <1>8, CallKept

LEMMA CurIdle == ASSUME NEW n, n.at \notin {"rename", "clearing", "copying", "removing", "unwinding", "unrecord"} PROVE CurOK(n)
BY DEF CurOK

LEMMA KeepsLoopOver == ASSUME Grows, Core, NEW j \in Slots, LoopOver(j) PROVE Core'
<1> DEFINE stage == IF At(j, "next") /\ job[j].later # <<>> THEN "measure" ELSE IF job[j].op = "remove" THEN "forget" ELSE "returned"
           r == [at |-> stage]
<1>1. /\ job[j].at \in {"next", "next2"} /\ UNCHANGED <<fs, disk, info, undo>>
      /\ job' = Put(j, [at |-> stage])
  BY DEF LoopOver, At
<1>2. Active(j) /\ job[j].stack = <<>> /\ JobOK(job[j])
  BY <1>1, Idle DEF Walking
<1>3. DOMAIN r = {"at"} /\ r.at = stage /\ job' = Put(j, r) /\ stage \in {"measure", "forget", "returned"}
  BY <1>1
<1>4. stage \in StagesOf(job[j].op)
  BY <1>1, <1>2 DEF JobOK, StagesOf, At
<1> HIDE DEF r, stage
<1>5. DOMAIN r \subseteq Fields
  BY <1>3 DEF Fields
<1>6. SameBut(job'[j], job[j], DOMAIN r) /\ \A x \in DOMAIN r : job'[j][x] = r[x]
  BY <1>3, <1>5, PutCore
<1>7. job'[j].at = stage /\ job'[j].todo = job[j].todo
  BY <1>3, <1>6 DEF SameBut, Fields
<1>8. CurOK(job'[j])
  BY <1>3, <1>7, CurIdle
<1>9. ~FirstLoop(job'[j]) /\ ~SecondLoop(job'[j]) /\ job'[j].at \notin Walking /\ job'[j].at \in StagesOf(job[j].op) \ {"unused"}
  BY <1>3, <1>4, <1>7 DEF FirstLoop, SecondLoop, Walking
<1>10. TreeOK(fs') /\ NoNewFile /\ info' \in [Trashed -> Records] /\ job[j].todo \in Seq(AllPairs)
  BY <1>1, <1>2, SameTree DEF Core, JobOK
<1>11. DOMAIN r \subseteq {"at", "todo", "errs"} /\ job' = Put(j, r)
  BY <1>3
<1> QED  BY <1>1, <1>2, <1>7, <1>8, <1>9, <1>10, <1>11, MovesOn

(* A step that puts a few fields, by its record. *)
LEMMA KeepsMeasure == ASSUME Grows, Core, NEW j \in Slots, Measure(j) PROVE Core'
<1>1. job[j].at \in {"space", "measure"} /\ UNCHANGED <<fs, disk, info, undo>>
  BY DEF Measure, At
<1>2. Active(j) /\ job[j].stack = <<>> /\ JobOK(job[j])
  BY <1>1, Idle DEF Walking
<1>3. TreeOK(fs') /\ NoNewFile /\ info' \in [Trashed -> Records] /\ job[j].todo \in Seq(AllPairs)
  BY <1>1, <1>2, SameTree DEF Core, JobOK
<1>4. ASSUME NEW stage, NEW r, job' = Put(j, r), DOMAIN r \subseteq {"at", "errs"}, "at" \in DOMAIN r, r.at = stage,
             stage \in StagesOf(job[j].op), stage \in {"next", "returned"}, stage = "next" => job[j].op = "copy"
      PROVE  Core'
  <2>1. DOMAIN r \subseteq Fields
    BY <1>4 DEF Fields
  <2>2. SameBut(job'[j], job[j], DOMAIN r) /\ \A x \in DOMAIN r : job'[j][x] = r[x]
    BY <1>4, <2>1, PutCore
  <2>3. job'[j].at = stage /\ job'[j].todo = job[j].todo /\ job'[j].op = job[j].op
    BY <1>4, <2>2 DEF SameBut, Fields
  <2>4. CurOK(job'[j])
    BY <1>4, <2>3, CurIdle
  <2>5. ~FirstLoop(job'[j]) /\ ~SecondLoop(job'[j]) /\ job'[j].at \notin Walking /\ job'[j].at \in StagesOf(job[j].op) \ {"unused"}
    BY <1>4, <2>3 DEF FirstLoop, SecondLoop, Walking
  <2>6. DOMAIN r \subseteq {"at", "todo", "errs"} /\ job' = Put(j, r)
    BY <1>4
  <2> QED  BY <1>1, <1>2, <1>3, <2>3, <2>4, <2>5, <2>6, MovesOn
<1>5. ASSUME At(j, "space"), job' = Put(j, [at |-> "next"]) PROVE Core'
  <2> DEFINE r == [at |-> "next"]
  <2>1. DOMAIN r = {"at"} /\ r.at = "next" /\ job' = Put(j, r)
    BY <1>5
  <2>2. job[j].op = "copy"
    BY <1>2, <1>5 DEF At, JobOK, StagesOf
  <2>3. "next" \in StagesOf(job[j].op)
    BY <2>2 DEF StagesOf
  <2> HIDE DEF r
  <2> QED  BY <1>4, <2>1, <2>2, <2>3
<1>6. ASSUME Error(j, "returned") PROVE Core'
  <2> DEFINE r == [at |-> "returned", errs |-> TRUE]
  <2>1. DOMAIN r = {"at", "errs"} /\ r.at = "returned" /\ job' = Put(j, r)
    BY <1>6 DEF Error
  <2>2. "returned" \in StagesOf(job[j].op)
    BY <1>1, <1>2 DEF JobOK, StagesOf
  <2> HIDE DEF r
  <2> QED  BY <1>4, <2>1, <2>2
<1>7. ASSUME job[j].at = "measure", job' = Put(j, [at |-> "next2", todo |-> job[j].later, later |-> <<>>]) PROVE Core'
  <2> DEFINE r == [at |-> "next2", todo |-> job[j].later, later |-> <<>>]
             n == job'[j]
  <2>1. DOMAIN r = {"at", "todo", "later"} /\ r.at = "next2" /\ r.todo = job[j].later /\ r.later = <<>> /\ job' = Put(j, r)
    BY <1>7
  <2> HIDE DEF r
  <2>2. DOMAIN r \subseteq Fields
    BY <2>1 DEF Fields
  <2>3. NoOther(j) /\ SameBut(n, job[j], DOMAIN r) /\ \A x \in DOMAIN r : n[x] = r[x]
    BY <2>1, <2>2, PutCore
  <2>4. n.at = "next2" /\ n.todo = job[j].later /\ n.later = <<>> /\ SameBut(n, job[j], Moving)
        /\ n.op = job[j].op /\ n.stack = <<>> /\ n.ok = job[j].ok /\ n.cur = job[j].cur /\ n.out = job[j].out
    BY <1>2, <2>1, <2>3 DEF SameBut, Fields, Moving
  <2> HIDE DEF n
  <2>5. job[j].op = "move"
    BY <1>2, <1>7 DEF JobOK, StagesOf
  <2>6. job[j].later \in Seq(FullPairs) /\ \A l \in Range(job[j].later) : l.from # l.to
    BY <1>2 DEF JobOK
  <2>7. n.todo \in Seq(AllPairs) /\ \A i \in Range(n.todo) : i \in FullPairs
    <3>1. FullPairs \subseteq AllPairs
      BY DEF FullPairs, AllPairs, MaybePaths
    <3>2. \A i \in Range(job[j].later) : i \in FullPairs
      BY <2>6, SeqParts
    <3> QED  BY <2>4, <2>6, <3>1, <3>2
  <2>8. \A i \in Range(n.todo) : ItemOK(n, i)
    <3> TAKE i \in Range(n.todo)
    <3>1. i.from \in Paths /\ i.to \in Paths /\ i.from # i.to /\ i.from # <<>>
      BY <2>4, <2>6, <2>7, PathsAssumption DEF FullPairs
    <3> QED  BY <2>4, <2>5, <3>1 DEF ItemOK, FirstLoop
  <2>9. VisitsOK(n) /\ ~Writing(n) /\ CurOK(n) /\ CopyOK(fs', n)
    BY <2>4, NoVisits, CurIdle DEF CopyOK
  <2>10. OutOK(n)
    BY <1>2, <2>4 DEF JobOK, OutOK
  <2>11. n.at \in StagesOf(job[j].op) /\ n.at # "unused" /\ n.ok \in BOOLEAN /\ n.cur \in AllPairs /\ job[j].at # "unused"
    BY <1>2, <1>7, <2>4, <2>5 DEF JobOK, StagesOf
  <2>12. n.later \in Seq(FullPairs) /\ \A l \in Range(n.later) : l.from # l.to
    BY <2>4, EmptyRange
  <2>13. JobOK(n)
    BY <1>2, <2>4, <2>7, <2>8, <2>9, <2>10, <2>11, <2>12, NextJob
  <2>14. JobOK(job'[j]) /\ ~Writing(job'[j]) /\ CopyOK(fs', job'[j])
    BY <2>9, <2>13 DEF n
  <2> QED  BY <1>1, <1>2, <1>3, <2>3, <2>14, CallKept
<1> QED  BY <1>5, <1>6, <1>7 DEF Measure, At

-------------------------------------------------------------------------------
(* A call takes an item up, to be renamed.                                 *)

LEMMA SkipKept ==
  ASSUME Grows, Core, NEW j \in Slots, job[j].at = "next", job[j].todo # <<>>, NEW failed, Skip(j, failed), UNCHANGED <<fs, disk, undo>>,
         info' \in [Trashed -> Records]
  PROVE  Core'
<1>1. Active(j) /\ job[j].stack = <<>> /\ JobOK(job[j])
  BY Idle DEF Walking
<1>2. TreeOK(fs') /\ NoNewFile
  BY SameTree
<1>3. job[j].todo \in Seq(AllPairs)
  BY <1>1 DEF JobOK
<1>4. Tail(job[j].todo) \in Seq(AllPairs) /\ Range(Tail(job[j].todo)) \subseteq Range(job[j].todo)
  BY <1>3, ListNext
<1> DEFINE r == [todo |-> Tail(job[j].todo), errs |-> job[j].errs \/ failed]
<1>5. DOMAIN r = {"todo", "errs"} /\ r.todo = Tail(job[j].todo) /\ job' = Put(j, r)
  BY DEF Skip
<1> HIDE DEF r
<1>6. DOMAIN r \subseteq Fields /\ DOMAIN r \subseteq {"at", "todo", "errs"}
  BY <1>5 DEF Fields
<1>7. SameBut(job'[j], job[j], DOMAIN r) /\ \A x \in DOMAIN r : job'[j][x] = r[x]
  BY <1>5, <1>6, PutCore
<1>8. job'[j].at = "next" /\ job'[j].op = job[j].op /\ job'[j].todo = Tail(job[j].todo)
  BY <1>5, <1>7 DEF SameBut, Fields
<1>9. CurOK(job'[j]) /\ (FirstLoop(job'[j]) => FirstLoop(job[j])) /\ ~SecondLoop(job'[j]) /\ job'[j].at \notin Walking
  BY <1>8, CurIdle DEF FirstLoop, SecondLoop, Walking
<1>10. job'[j].at \in StagesOf(job[j].op) \ {"unused"}
  BY <1>1, <1>8 DEF JobOK
<1>11. job' = Put(j, r)
  BY <1>5
<1> QED  BY <1>1, <1>2, <1>4, <1>6, <1>8, <1>9, <1>10, <1>11, MovesOn

TakenFields == {"at", "stack", "todo", "cur", "ok", "had"}
(* The next item taken up. *)
LEMMA TakenKept ==
  ASSUME Grows, Core, NEW j \in Slots, job[j].at \in {"next", "next2"}, job[j].todo # <<>>, UNCHANGED <<disk, undo>>, TreeOK(fs'), NoNewFile,
         info' \in [Trashed -> Records], NoOther(j), SameBut(job'[j], job[j], TakenFields),
         job'[j].todo = Tail(job[j].todo), job'[j].ok = TRUE, job'[j].cur \in AllPairs, CurOK(job'[j]),
         job'[j].at \in StagesOf(job[j].op) \ {"unused"}, SecondLoop(job'[j]) => SecondLoop(job[j]), FirstLoop(job'[j]) => FirstLoop(job[j]),
         VisitsOK(job'[j]), ~Writing(job'[j]), CopyOK(fs', job'[j])
  PROVE  Core'
<1> DEFINE n == job'[j]
           o == job[j]
<1>1. Active(j) /\ job[j].stack = <<>> /\ JobOK(o) /\ o.at # "unused"
  BY Idle DEF Walking
<1>2. o.todo \in Seq(AllPairs) /\ \A i \in Range(o.todo) : ItemOK(o, i)
  BY <1>1 DEF JobOK
<1>3. n.todo \in Seq(AllPairs) /\ Range(n.todo) \subseteq Range(o.todo)
  BY <1>2, ListNext
<1>4. n.op = o.op /\ n.dest = o.dest /\ n.later = o.later /\ n.out = o.out /\ SameBut(n, o, Moving)
  BY DEF SameBut, Fields, TakenFields, Moving
<1>5. \A i \in Range(n.todo) : ItemOK(n, i)
  BY <1>2, <1>3, <1>4 DEF ItemOK
<1>6. OutOK(n)
  BY <1>1, <1>4 DEF OutOK, JobOK
<1>7. n.later \in Seq(FullPairs) /\ (o.op # "move" => n.later = <<>>) /\ \A l \in Range(n.later) : l.from # l.to
  BY <1>1, <1>4 DEF JobOK
<1>8. n.at \in StagesOf(o.op) /\ n.at # "unused" /\ n.ok \in BOOLEAN /\ n.cur \in AllPairs /\ CurOK(n) /\ VisitsOK(n)
  OBVIOUS
<1>c. CopyOK(fs', job'[j]) /\ ~Writing(job'[j])
  OBVIOUS
<1> HIDE DEF n, o
<1>9. JobOK(n)
  BY <1>1, <1>3, <1>4, <1>5, <1>6, <1>7, <1>8, NextJob
<1>10. JobOK(job'[j])
  BY <1>9 DEF n
<1> QED  BY <1>1, <1>c, <1>10, CallKept

Goes(j, stage, st, a, b) == job' = Put(j, Over([at |-> stage, stack |-> st], Taken(j, a, b)))
GoesToRename(j, a, b) == job' = Put(j, Over([at |-> "rename"], Taken(j, a, b)))
TakenUp(j, stage, st, a, b) ==
  /\ NoOther(j) /\ SameBut(job'[j], job[j], TakenFields) /\ job'[j].todo = Tail(job[j].todo) /\ job'[j].ok = TRUE
  /\ job'[j].cur = Pair(a, b) /\ job'[j].at = stage /\ job'[j].stack = st /\ job'[j].op = job[j].op
  /\ job'[j].had = Contents(fs, disk, a)
LEMMA TakenIs ==
  ASSUME Core, NEW j \in Slots, NEW stage, NEW st, NEW a, NEW b, Goes(j, stage, st, a, b)
  PROVE  TakenUp(j, stage, st, a, b)
<1> DEFINE r == Over([at |-> stage, stack |-> st], Taken(j, a, b))
<1>1. DOMAIN r = TakenFields
  BY DEF Over, Taken, TakenFields
<1>2. r.todo = Tail(job[j].todo) /\ r.ok = TRUE /\ r.cur = Pair(a, b) /\ r.at = stage /\ r.stack = st /\ r.had = Contents(fs, disk, a)
  BY DEF Over, Taken
<1>3. job' = Put(j, r)
  BY DEF Goes
<1> HIDE DEF r
<1>4. DOMAIN r \subseteq Fields
  BY <1>1 DEF Fields, TakenFields
<1>5. NoOther(j) /\ SameBut(job'[j], job[j], DOMAIN r) /\ \A x \in DOMAIN r : job'[j][x] = r[x]
  BY ONLY Core, <1>3, <1>4, PutCore
<1> QED  BY <1>1, <1>2, <1>5 DEF SameBut, Fields, TakenFields, TakenUp

LEMMA TakenRename ==
  ASSUME Core, NEW j \in Slots, NEW a, NEW b, GoesToRename(j, a, b), job[j].stack = <<>>
  PROVE  /\ NoOther(j) /\ SameBut(job'[j], job[j], TakenFields) /\ job'[j].todo = Tail(job[j].todo) /\ job'[j].ok = TRUE
         /\ job'[j].cur = Pair(a, b) /\ job'[j].at = "rename" /\ job'[j].stack = <<>> /\ job'[j].op = job[j].op
         /\ job'[j].had = Contents(fs, disk, a)
<1> DEFINE r == Over([at |-> "rename"], Taken(j, a, b))
<1>1. DOMAIN r = TakenFields \ {"stack"}
  BY DEF Over, Taken, TakenFields
<1>2. r.todo = Tail(job[j].todo) /\ r.ok = TRUE /\ r.cur = Pair(a, b) /\ r.at = "rename" /\ r.had = Contents(fs, disk, a)
  BY DEF Over, Taken
<1>3. job' = Put(j, r)
  BY DEF GoesToRename
<1> HIDE DEF r
<1>4. DOMAIN r \subseteq Fields
  BY <1>1 DEF Fields, TakenFields
<1>5. NoOther(j) /\ SameBut(job'[j], job[j], DOMAIN r) /\ \A x \in DOMAIN r : job'[j][x] = r[x]
  BY ONLY Core, <1>3, <1>4, PutCore
<1> QED  BY <1>1, <1>2, <1>5 DEF SameBut, Fields, TakenFields

LEMMA ItemIs ==
  ASSUME Core, NEW j \in Slots, job[j].todo # <<>>
  PROVE  Item(j) \in AllPairs /\ ItemOK(job[j], Item(j)) /\ (job[j].op # "empty" => Item(j).from \in Paths)
<1>1. job[j].todo \in Seq(AllPairs) /\ \A i \in Range(job[j].todo) : ItemOK(job[j], i)
  BY DEF Core, JobOK
<1>2. Item(j) \in AllPairs /\ Item(j) \in Range(job[j].todo)
  BY <1>1, ListNext DEF Item
<1>3. Item(j).from \in MaybePaths
  BY <1>2 DEF AllPairs
<1> QED  BY <1>1, <1>2, <1>3 DEF ItemOK, MaybePaths

LEMMA PairIs ==
  /\ \A a, b : Pair(a, b).from = a /\ Pair(a, b).to = b
  /\ \A a, b \in MaybePaths : Pair(a, b) \in AllPairs
  /\ \A a, b \in Paths : Pair(a, b) \in FullPairs /\ Pair(a, b) \in AllPairs
BY DEF Pair, AllPairs, FullPairs, MaybePaths

(* An item on its way by rename. *)
LEMMA RenameKept ==
  ASSUME Grows, Core, NEW j \in Slots, job[j].at = "next", job[j].todo # <<>>, UNCHANGED <<disk, undo>>, TreeOK(fs'), NoNewFile,
         info' \in [Trashed -> Records], NEW a \in Paths, NEW b \in Paths,
         GoesToRename(j, a, b),
         job[j].op \in {"move", "moveBack", "trash", "restore"},
         job[j].op = "move" => a # b, job[j].op = "trash" => b \in Trashed, job[j].op = "restore" => a \in Trashed
  PROVE  Core'
<1>1. job[j].stack = <<>>
  BY Idle DEF Walking
<1>2. /\ NoOther(j) /\ SameBut(job'[j], job[j], TakenFields) /\ job'[j].todo = Tail(job[j].todo) /\ job'[j].ok = TRUE
      /\ job'[j].cur = Pair(a, b) /\ job'[j].at = "rename" /\ job'[j].stack = <<>> /\ job'[j].op = job[j].op
  BY ONLY Core, GoesToRename(j, a, b), <1>1, TakenRename
<1>3. job'[j].cur \in AllPairs /\ job'[j].cur.from = a /\ job'[j].cur.to = b
  BY <1>2, PairIs
<1>4. CurOK(job'[j])
  BY <1>2, <1>3 DEF CurOK
<1>5. VisitsOK(job'[j]) /\ ~Writing(job'[j]) /\ CopyOK(fs', job'[j])
  BY <1>2, NoVisits DEF CopyOK
<1>6. job'[j].at \in StagesOf(job[j].op) \ {"unused"}
  BY <1>2 DEF StagesOf
<1>7. ~SecondLoop(job'[j]) /\ (FirstLoop(job'[j]) => FirstLoop(job[j]))
  BY <1>2 DEF FirstLoop, SecondLoop
<1>8. job[j].at \in {"next", "next2"}
  OBVIOUS
<1> QED  BY <1>2, <1>3, <1>4, <1>5, <1>6, <1>7, <1>8, TakenKept

(* mkpath of the folder something goes back to. *)
LEMMA MadeFolder ==
  ASSUME Core, NEW p \in Paths, fs' = IF CanMkPath(fs, Parent(p)) THEN MkPath(fs, Parent(p)) ELSE fs
  PROVE  TreeOK(fs') /\ NoNewFile /\ \A q \in Paths : fs[q] # NoEnt => fs'[q] = fs[q]
<1>1. TreeOK(fs) /\ Parent(p) \in Words
  BY ParentIs DEF Core
<1>2. CASE CanMkPath(fs, Parent(p))
  <2> DEFINE d == Parent(p)
  <2>1. d \in Words /\ CanMkPath(fs, d) /\ fs' = MkPath(fs, d)
    BY <1>1, <1>2
  <2> HIDE DEF d
  <2>2. /\ TreeOK(fs')
        /\ \A q \in Paths : fs[q] # NoEnt => fs'[q] = fs[q]
        /\ \A q \in Paths : fs'[q] # fs[q] => fs'[q] = Dir
    BY <1>1, <2>1, MkPathIs
  <2> QED  BY <2>2, Kinds DEF NoNewFile
<1>3. CASE ~CanMkPath(fs, Parent(p))
  BY <1>1, <1>3 DEF NoNewFile
<1> QED  BY <1>2, <1>3

LEMMA KeepsMoveBackItem == ASSUME Grows, Core, NEW j \in Slots, MoveBackItem(j) PROVE Core'
<1>1. job[j].at = "next" /\ job[j].op = "moveBack" /\ job[j].todo # <<>> /\ UNCHANGED <<disk, info, undo>>
  BY DEF MoveBackItem, Taking, At
<1>2. Item(j).from \in Paths /\ Item(j).to \in Paths
  BY <1>1, ItemIs DEF ItemOK
<1>3. info' \in [Trashed -> Records]
  BY <1>1 DEF Core
<1>4. CASE Skip(j, TRUE) /\ UNCHANGED fs
  BY <1>1, <1>3, <1>4, SkipKept
<1>5. CASE fs' = IF CanMkPath(fs, Parent(Item(j).from)) THEN MkPath(fs, Parent(Item(j).from)) ELSE fs
  <2>1. TreeOK(fs') /\ NoNewFile
    BY <1>2, <1>5, MadeFolder
  <2>2. ASSUME NEW back \in FreeNames(fs, Item(j).from), GoesToRename(j, Item(j).to, back)
        PROVE  Core'
    <3> DEFINE a == Item(j).to
    <3>1. back \in Paths
      BY FirstOpenIn DEF FreeNames
    <3>2. a \in Paths /\ GoesToRename(j, a, back)
      BY <1>2, <2>2
    <3> HIDE DEF a
    <3> QED  BY <1>1, <1>3, <2>1, <3>1, <3>2, RenameKept
  <2> QED  BY <1>4, <2>2 DEF MoveBackItem, GoesToRename
<1> QED  BY <1>4, <1>5 DEF MoveBackItem, GoesToRename

LEMMA KeepsRestoreItem == ASSUME Grows, Core, NEW j \in Slots, RestoreItem(j) PROVE Core'
<1>1. job[j].at = "next" /\ job[j].op = "restore" /\ job[j].todo # <<>> /\ UNCHANGED <<disk, info, undo>>
  BY DEF RestoreItem, Taking, At
<1>2. Item(j).from \in Paths /\ Item(j).from \in Trashed
  BY <1>1, ItemIs DEF ItemOK
<1>3. info' \in [Trashed -> Records] /\ info[Item(j).from] \in Records
  BY <1>1, <1>2 DEF Core
<1>4. CASE Skip(j, TRUE) /\ UNCHANGED fs
  BY <1>1, <1>3, <1>4, SkipKept
<1>5. CASE /\ fs' = IF CanMkPath(fs, Parent(info[Item(j).from])) THEN MkPath(fs, Parent(info[Item(j).from])) ELSE fs
           /\ Restorable(Item(j).from)
  <2>1. TreeOK(fs') /\ NoNewFile
    <3>1. info[Item(j).from] \in Paths
      BY <1>3, <1>5 DEF Records, MaybePaths, Restorable
    <3> QED  BY <1>5, <3>1, MadeFolder
  <2>2. ASSUME NEW back \in FreeNames(fs, info[Item(j).from]), GoesToRename(j, Item(j).from, back)
        PROVE  Core'
    <3> DEFINE a == Item(j).from
    <3>1. back \in Paths
      BY FirstOpenIn DEF FreeNames
    <3>2. a \in Paths /\ a \in Trashed /\ GoesToRename(j, a, back)
      BY <1>2, <2>2
    <3> HIDE DEF a
    <3> QED  BY <1>1, <1>3, <2>1, <3>1, <3>2, RenameKept
  <2> QED  BY <1>4, <1>5, <2>2 DEF RestoreItem, GoesToRename
<1> QED  BY <1>4, <1>5 DEF RestoreItem, GoesToRename

LEMMA KeepsTrashItem == ASSUME Grows, Core, NEW j \in Slots, TrashItem(j) PROVE Core'
<1>1. job[j].at = "next" /\ job[j].op = "trash" /\ job[j].todo # <<>> /\ UNCHANGED <<fs, disk, undo>>
  BY DEF TrashItem, Taking, At
<1>2. Item(j).from \in Paths /\ info \in [Trashed -> Records]
  BY <1>1, ItemIs DEF Core
<1>3. CASE Skip(j, TRUE) /\ UNCHANGED info
  BY <1>1, <1>2, <1>3, SkipKept
<1>4. ASSUME NEW S, NEW own, NEW q \in FirstOpen(own, {r \in Trashed : fs[r] = NoEnt /\ info[r] = <<>>}),
             NEW text \in {Item(j).from, Blank}, info' = [info EXCEPT ![q] = text], GoesToRename(j, Item(j).from, q)
      PROVE  Core'
  <2> DEFINE a == Item(j).from
  <2>1. q \in Trashed /\ q \in Paths
    BY FirstOpenIn DEF Trashed
  <2>2. info' \in [Trashed -> Records]
    <3>1. text \in Records
      BY <1>2 DEF Records, MaybePaths
    <3> QED  BY <1>2, <1>4, <2>1, <3>1
  <2>3. TreeOK(fs') /\ NoNewFile
    BY <1>1, SameTree
  <2>4. a \in Paths /\ GoesToRename(j, a, q)
    BY <1>2, <1>4
  <2> HIDE DEF a
  <2> QED  BY <1>1, <2>1, <2>2, <2>3, <2>4, RenameKept
<1>5. ASSUME NEW S, NEW own, NEW q \in FirstOpen(own, {r \in Trashed : fs[r] = NoEnt /\ info[r] = <<>>}),
             GoesToRename(j, Item(j).from, q),
             info' = [info EXCEPT ![q] = Item(j).from] \/ info' = [info EXCEPT ![q] = Blank]
      PROVE  Core'
  BY <1>4, <1>5
<1> QED  BY <1>3, <1>5 DEF TrashItem, GoesToRename

-------------------------------------------------------------------------------
(* A call takes an item up, to be copied or removed at once.               *)

(* An item whose tree is walked at once. *)
LEMMA WalkKept ==
  ASSUME Grows, Core, NEW j \in Slots, job[j].at \in {"next", "next2"}, job[j].todo # <<>>, UNCHANGED <<disk, undo>>, TreeOK(fs'), NoNewFile,
         info' \in [Trashed -> Records], NEW stage, NEW do \in {"copy", "rm"}, NEW p \in Paths, NEW a \in Paths, NEW b \in MaybePaths,
         NEW c \in Words,
         Goes(j, stage, <<Visit(do, p, c)>>, a, b), stage \in StagesOf(job[j].op), job[j].op \in {"copy", "move", "remove", "empty"},
         \/ stage = "copying" /\ do = "copy" /\ p = a /\ b = c /\ b \in Paths /\ (a # b \/ fs'[a] = NoEnt)
         \/ stage = "removing" /\ do = "rm" /\ p = a /\ job[j].op \in {"remove", "empty"}
         \/ stage = "clearing" /\ do = "rm" /\ p = b /\ a # b,
         stage = "copying" /\ job[j].op = "move" => job[j].at = "next2",
         stage = "clearing" => job[j].at = "next"
  PROVE  Core'
<1>1. /\ NoOther(j) /\ SameBut(job'[j], job[j], TakenFields) /\ job'[j].todo = Tail(job[j].todo) /\ job'[j].ok = TRUE
      /\ job'[j].cur = Pair(a, b) /\ job'[j].at = stage /\ job'[j].stack = <<Visit(do, p, c)>> /\ job'[j].op = job[j].op
  <2> DEFINE st == <<Visit(do, p, c)>>
  <2>1. Goes(j, stage, st, a, b)
    OBVIOUS
  <2> HIDE DEF st
  <2>2. TakenUp(j, stage, st, a, b)
    BY ONLY Core, <2>1, TakenIs
  <2> QED  BY <2>2 DEF st, TakenUp
<1>2. job'[j].cur \in AllPairs /\ job'[j].cur.from = a /\ job'[j].cur.to = b
  BY <1>1, PairIs DEF MaybePaths
<1>3. CurOK(job'[j])
  BY <1>1, <1>2, PathsAssumption DEF CurOK
<1>4. VisitsOK(job'[j]) /\ ~Writing(job'[j]) /\ CopyOK(fs', job'[j])
  <2> DEFINE n == job'[j]
  <2>1. /\ n.stack = <<Visit(do, p, c)>>
        /\ \/ n.at = "copying" /\ do = "copy" /\ p = n.cur.from /\ c = n.cur.to /\ (p # c \/ fs'[p] = NoEnt)
           \/ n.at = "removing" /\ do = "rm" /\ p = n.cur.from
           \/ n.at \in {"clearing", "unwinding"} /\ do = "rm" /\ p = n.cur.to
    BY <1>1, <1>2
  <2> HIDE DEF n
  <2>2. VisitsOK(n) /\ ~Writing(n) /\ \A t : CopyOK(t, n) <=> (n.at = "copying" => p # c \/ t[p] = NoEnt)
    BY <2>1, OneVisit
  <2>3. VisitsOK(n) /\ ~Writing(n) /\ CopyOK(fs', n)
    BY <2>1, <2>2
  <2> QED  BY <2>3 DEF n
<1>5. job'[j].at \in StagesOf(job[j].op) \ {"unused"}
  BY <1>1
<1>6. (SecondLoop(job'[j]) => SecondLoop(job[j])) /\ (FirstLoop(job'[j]) => FirstLoop(job[j]))
  BY <1>1 DEF SecondLoop, FirstLoop
<1> QED  BY <1>1, <1>2, <1>3, <1>4, <1>5, <1>6, TakenKept

LEMMA NamedIs ==
  ASSUME Core, NEW j \in Slots, job[j].at = "next", job[j].op \in {"copy", "move"}, job[j].todo # <<>>,
         NEW dst \in Destinations(j, Item(j).from)
  PROVE  /\ dst \in Paths /\ Parent(dst) = job[j].dest
         /\ \/ fs[dst] = NoEnt
            \/ job[j].policy = "Replace" /\ dst = Named(j, Item(j).from) /\ Parent(Item(j).from) # job[j].dest
<1> DEFINE src == Item(j).from
           p == Named(j, src)
<1>1. job[j].dest \in Paths /\ job[j].dest \in Words
  BY PathsAreWords DEF Core, JobOK
<1>2. p = Append(job[j].dest, Last(src))
  BY DEF Named
<1>3. Parent(p) = job[j].dest
  BY <1>1, <1>2, LastOff
<1> HIDE DEF p
<1>4. CASE dst \in FreeNames(fs, p)
  <2>1. dst \in FirstOpen(p, {q \in Paths : fs[q] = NoEnt})
    BY <1>4 DEF FreeNames
  <2>2. dst \in Paths /\ fs[dst] = NoEnt
    BY <2>1, FirstOpenIn
  <2>3. Parent(dst) = job[j].dest
    <3> DEFINE S == {q \in Paths : fs[q] = NoEnt}
               d == job[j].dest
               x == Last(src)
    <3>1. dst \in FirstOpen(p, S) /\ d \in Words /\ p = Append(d, x)
      BY <1>1, <1>2, <2>1
    <3> HIDE DEF S, d, x, src
    <3>2. Parent(dst) = d
      BY ONLY <3>1, FirstOpenIs
    <3> QED  BY <3>2 DEF d
  <2> QED  BY <2>2, <2>3
<1>5. CASE dst = p /\ Exists(fs, p) /\ job[j].policy = "Replace" /\ Parent(src) # job[j].dest
  BY <1>3, <1>5 DEF Exists, p
<1> QED  BY <1>4, <1>5 DEF Destinations, p

LEMMA KeepsTransferItem == ASSUME Grows, Core, NEW j \in Slots, TransferItem(j) PROVE Core'
<1> DEFINE src == Item(j).from
<1>1. job[j].at = "next" /\ job[j].op \in {"copy", "move"} /\ job[j].todo # <<>> /\ UNCHANGED <<disk, info, undo>>
  BY DEF TransferItem, Taking, At
<1>2. src \in Paths /\ (job[j].op = "move" => Parent(src) # job[j].dest) /\ info' \in [Trashed -> Records] /\ TreeOK(fs)
  BY <1>1, ItemIs DEF ItemOK, FirstLoop, Core
<1>3. CASE Skip(j, FALSE) /\ UNCHANGED fs
  BY <1>1, <1>2, <1>3, SkipKept
<1>4. ASSUME NEW dst \in Destinations(j, src), job[j].op = "copy",
             fs' = IF IsFile(fs, dst) /\ IsDir(fs, src) THEN Unlink(fs, dst) ELSE fs,
             Goes(j, "copying", <<Visit("copy", src, dst)>>, src, dst)
      PROVE  Core'
  <2>1. /\ dst \in Paths /\ Parent(dst) = job[j].dest
        /\ fs[dst] = NoEnt \/ (Parent(src) # job[j].dest)
    BY <1>1, NamedIs
  <2> HIDE DEF src
  <2>2. TreeOK(fs') /\ NoNewFile
    BY <1>2, <1>4, <2>1, Kinds, UnlinkIs DEF IsFile, NoNewFile
  <2>3. src # dst \/ fs'[src] = NoEnt
    BY <1>4, <2>1, Kinds DEF IsFile
  <2>4. dst \in Words /\ dst \in MaybePaths /\ "copying" \in StagesOf(job[j].op)
    BY <1>4, <2>1, PathsAreWords DEF MaybePaths, StagesOf
  <2> QED  BY <1>1, <1>2, <1>4, <2>1, <2>2, <2>3, <2>4, WalkKept
<1>5. ASSUME NEW dst \in Destinations(j, src), job[j].op = "move", UNCHANGED fs,
             \/ Goes(j, "clearing", <<Visit("rm", dst, <<>>)>>, src, dst)
             \/ Goes(j, "rename", <<>>, src, dst)
      PROVE  Core'
  <2>1. dst \in Paths /\ src # dst
    BY <1>1, <1>2, <1>5, NamedIs
  <2> HIDE DEF src
  <2>2. TreeOK(fs') /\ NoNewFile
    BY <1>5, SameTree
  <2>3. CASE Goes(j, "clearing", <<Visit("rm", dst, <<>>)>>, src, dst)
    <3> DEFINE c == <<>>
    <3>1. c \in Words /\ dst \in MaybePaths /\ "clearing" \in StagesOf(job[j].op) /\ Goes(j, "clearing", <<Visit("rm", dst, c)>>, src, dst)
      BY <1>5, <2>1, <2>3 DEF MaybePaths, StagesOf, Words
    <3> HIDE DEF c
    <3> QED  BY <1>1, <1>2, <1>5, <2>1, <2>2, <3>1, WalkKept
  <2>4. CASE Goes(j, "rename", <<>>, src, dst)
    <3> DEFINE st == <<>>
               stage == "rename"
    <3>0. Goes(j, stage, st, src, dst)
      BY <2>4
    <3> HIDE DEF st, stage
    <3>9. TakenUp(j, stage, st, src, dst)
      BY ONLY Core, <3>0, TakenIs
    <3>1. /\ NoOther(j) /\ SameBut(job'[j], job[j], TakenFields) /\ job'[j].todo = Tail(job[j].todo) /\ job'[j].ok = TRUE
          /\ job'[j].cur = Pair(src, dst) /\ job'[j].at = "rename" /\ job'[j].stack = <<>> /\ job'[j].op = job[j].op
      BY <3>9 DEF st, stage, TakenUp
    <3>2. job'[j].cur \in AllPairs /\ job'[j].cur.from = src /\ job'[j].cur.to = dst
      BY <1>2, <2>1, <3>1, PairIs
    <3>3. CurOK(job'[j])
      BY <1>2, <1>5, <2>1, <3>1, <3>2 DEF CurOK
    <3>4. VisitsOK(job'[j]) /\ ~Writing(job'[j]) /\ CopyOK(fs', job'[j])
      BY <3>1, NoVisits DEF CopyOK
    <3>5. job'[j].at \in StagesOf(job[j].op) \ {"unused"} /\ ~SecondLoop(job'[j]) /\ (FirstLoop(job'[j]) => FirstLoop(job[j]))
      BY <1>1, <1>5, <3>1 DEF StagesOf, FirstLoop, SecondLoop
    <3> QED  BY <1>1, <1>2, <2>2, <3>1, <3>2, <3>3, <3>4, <3>5, TakenKept
  <2> QED  BY <1>5, <2>3, <2>4
<1> QED  BY <1>1, <1>3, <1>4, <1>5 DEF TransferItem, Goes

LEMMA KeepsRemoveItem == ASSUME Grows, Core, NEW j \in Slots, RemoveItem(j) PROVE Core'
<1> DEFINE a == Item(j).from
           b == <<>>
<1>1. job[j].at = "next" /\ job[j].op \in {"remove", "empty"} /\ job[j].todo # <<>> /\ UNCHANGED <<fs, disk, info, undo>>
  BY DEF RemoveItem, Taking, At
<1>2. a \in Paths
  BY <1>1, ItemIs DEF AllPairs, MaybePaths, RemoveItem
<1>3. TreeOK(fs') /\ NoNewFile /\ info' \in [Trashed -> Records]
  BY <1>1, SameTree DEF Core
<1>4. b \in Words /\ b \in MaybePaths /\ "removing" \in StagesOf(job[j].op) /\ Goes(j, "removing", <<Visit("rm", a, b)>>, a, b)
  BY <1>1 DEF MaybePaths, StagesOf, Words, RemoveItem, Goes
<1> HIDE DEF a, b
<1> QED  BY <1>1, <1>2, <1>3, <1>4, WalkKept

LEMMA KeepsCopyAcross == ASSUME Grows, Core, NEW j \in Slots, CopyAcross(j) PROVE Core'
<1> DEFINE a == Item(j).from
           b == Item(j).to
<1>1. job[j].at = "next2" /\ job[j].todo # <<>> /\ UNCHANGED <<fs, disk, info, undo>>
  BY DEF CopyAcross, At
<1>2. job[j].op = "move"
  BY <1>1, Idle DEF Core, JobOK, StagesOf
<1>3. a \in Paths /\ b \in Paths /\ a # b
  BY <1>1, <1>2, ItemIs DEF ItemOK, SecondLoop
<1>4. TreeOK(fs') /\ NoNewFile /\ info' \in [Trashed -> Records]
  BY <1>1, SameTree DEF Core
<1>5. b \in Words /\ b \in MaybePaths /\ "copying" \in StagesOf(job[j].op) /\ Goes(j, "copying", <<Visit("copy", a, b)>>, a, b)
  BY <1>2, <1>3, PathsAreWords DEF MaybePaths, StagesOf, CopyAcross, Goes
<1> HIDE DEF a, b
<1> QED  BY <1>1, <1>2, <1>3, <1>4, <1>5, WalkKept

LEMMA KeepsRemoveRecord == ASSUME Grows, Core, NEW j \in Slots, RemoveRecord(j) PROVE Core'
<1>1. job[j].at = "next" /\ job[j].op = "empty" /\ job[j].todo # <<>> /\ UNCHANGED <<fs, disk, undo>> /\ Item(j).from = <<>>
  BY DEF RemoveRecord, Taking, At
<1>2. Item(j).to \in Trashed /\ info \in [Trashed -> Records]
  BY <1>1, ItemIs DEF ItemOK, Core
<1>3. info' \in [Trashed -> Records]
  BY <1>2 DEF RemoveRecord, Records, MaybePaths
<1>4. Skip(j, FALSE) \/ Skip(j, TRUE)
  BY DEF RemoveRecord
<1> QED  BY <1>1, <1>3, <1>4, SkipKept

Listing(s, t) == [i \in DOMAIN s |-> Pair(s[i], <<>>)] \o [i \in DOMAIN t |-> Pair(<<>>, t[i])]
LEMMA PairsOf ==
  ASSUME NEW s \in Seq(MaybePaths), NEW t \in Seq(MaybePaths)
  PROVE  /\ Listing(s, t) \in Seq(AllPairs)
         /\ \A x \in Range(Listing(s, t)) : (x.from \in Range(s) /\ x.to = <<>>) \/ (x.from = <<>> /\ x.to \in Range(t))
<1> DEFINE u == [i \in DOMAIN s |-> Pair(s[i], <<>>)]
           v == [i \in DOMAIN t |-> Pair(<<>>, t[i])]
<1>1. <<>> \in MaybePaths
  BY DEF MaybePaths
<1>2. u \in Seq(AllPairs) /\ \A x \in Range(u) : x.from \in Range(s) /\ x.to = <<>>
  <2>1. DOMAIN u = 1 .. Len(s) /\ Len(s) \in Nat /\ DOMAIN s = 1 .. Len(s)
    OBVIOUS
  <2>2. \A i \in 1 .. Len(s) : u[i] = Pair(s[i], <<>>) /\ s[i] \in MaybePaths /\ s[i] \in Range(s)
    BY DEF Range
  <2> HIDE DEF u
  <2>3. \A i \in 1 .. Len(s) : u[i] \in AllPairs /\ u[i].from = s[i] /\ u[i].to = <<>>
    BY <1>1, <2>2, PairIs
  <2>4. u \in Seq(AllPairs)
    <3>1. u = [i \in 1 .. Len(s) |-> u[i]]
      BY <2>1 DEF u
    <3> QED  BY <2>1, <2>3, <3>1
  <2> QED  BY <2>1, <2>2, <2>3, <2>4 DEF Range
<1>3. v \in Seq(AllPairs) /\ \A x \in Range(v) : x.from = <<>> /\ x.to \in Range(t)
  <2>1. DOMAIN v = 1 .. Len(t) /\ Len(t) \in Nat /\ DOMAIN t = 1 .. Len(t)
    OBVIOUS
  <2>2. \A i \in 1 .. Len(t) : v[i] = Pair(<<>>, t[i]) /\ t[i] \in MaybePaths /\ t[i] \in Range(t)
    BY DEF Range
  <2> HIDE DEF v
  <2>3. \A i \in 1 .. Len(t) : v[i] \in AllPairs /\ v[i].to = t[i] /\ v[i].from = <<>>
    BY <1>1, <2>2, PairIs
  <2>4. v \in Seq(AllPairs)
    <3>1. v = [i \in 1 .. Len(t) |-> v[i]]
      BY <2>1 DEF v
    <3> QED  BY <2>1, <2>3, <3>1
  <2> QED  BY <2>1, <2>2, <2>3, <2>4 DEF Range
<1>4. u \in Seq(AllPairs) /\ v \in Seq(AllPairs)
  BY <1>2, <1>3
<1> HIDE DEF u, v
<1>5. u \o v \in Seq(AllPairs) /\ Range(u \o v) = Range(u) \cup Range(v)
  BY <1>4, Joined
<1>6. \A x \in Range(u \o v) : (x.from \in Range(s) /\ x.to = <<>>) \/ (x.from = <<>> /\ x.to \in Range(t))
  BY <1>2, <1>3, <1>5
<1>7. Listing(s, t) = u \o v
  BY DEF Listing, u, v
<1> QED  BY <1>5, <1>6, <1>7

LEMMA KeepsListTrash == ASSUME Grows, Core, NEW j \in Slots, ListTrash(j) PROVE Core'
<1> DEFINE d == job[j].dest
           kids == KidsIn(fs, d)
           S == {p \in Kids[d] : info[p] # <<>>}
           records == SetToSeq(S)
           list == Listing(kids, records)
           n == job'[j]
<1>1. job[j].at = "list" /\ UNCHANGED <<fs, disk, info, undo>> /\ job' = Put(j, [at |-> "next", todo |-> list])
  BY DEF ListTrash, At, Listing
<1>2. Active(j) /\ job[j].stack = <<>> /\ JobOK(job[j]) /\ job[j].op = "empty"
  BY <1>1, Idle DEF Walking, JobOK, StagesOf
<1>3. PICK t \in TrashDirs : d = <<t>>
  BY <1>2 DEF JobOK
<1>4. d \in Paths
  BY <1>3, PlacesAssumption
<1>5. kids \in Seq(Paths) /\ Range(kids) \subseteq Paths
  BY <1>4, KidsInAre, SeqParts
<1>6. S \subseteq Trashed /\ S \subseteq Paths /\ IsFiniteSet(S)
  <2>1. S \subseteq Kids[d] /\ Kids[d] \subseteq Paths
    BY <1>4, KidsAre
  <2>2. IsFiniteSet(S)
    BY <2>1, FS_Subset, PlacesAssumption
  <2>3. ASSUME NEW q \in Kids[d] PROVE q \in Trashed
    <3>1. q \in Paths /\ Len(q) = Len(d) + 1 /\ IsPrefix(d, q)
      BY <1>4, <2>1, <2>3 DEF Kids
    <3>2. d \in Words /\ q \in Words /\ Len(d) = 1 /\ d[1] = t
      BY <1>3, <1>4, <3>1, PathsAreWords
    <3>3. q[1] = t /\ Len(q) = 2
      BY <3>1, <3>2, PrefixIs
    <3>4. Head(q) = q[1]
      BY <3>2, <3>3 DEF Words
    <3> QED  BY <3>1, <3>3, <3>4 DEF Trashed
  <2> QED  BY <2>1, <2>2, <2>3
<1>7. records \in Seq(S) /\ Range(records) = S
  BY <1>6, SetToSeqLists
<1>8. kids \in Seq(MaybePaths) /\ records \in Seq(MaybePaths)
  <2>1. Paths \subseteq MaybePaths /\ S \subseteq MaybePaths
    BY <1>6 DEF MaybePaths
  <2> HIDE DEF kids, records, S
  <2> QED  BY <1>5, <1>7, <2>1
<1>9. <<>> \notin Paths
  BY PathsAssumption
<1> HIDE DEF kids, records, S
<1>10. list \in Seq(AllPairs) /\ \A x \in Range(list) : (x.from \in Range(kids) /\ x.to = <<>>) \/ (x.from = <<>> /\ x.to \in Range(records))
  BY <1>8, PairsOf
<1> HIDE DEF list
<1> DEFINE r == [at |-> "next", todo |-> list]
<1>11. DOMAIN r = {"at", "todo"} /\ r.at = "next" /\ r.todo = list /\ job' = Put(j, r)
  BY <1>1
<1> HIDE DEF r
<1>12. DOMAIN r \subseteq Fields
  BY <1>11 DEF Fields
<1>13. NoOther(j) /\ SameBut(n, job[j], DOMAIN r) /\ \A x \in DOMAIN r : n[x] = r[x]
  BY <1>11, <1>12, PutCore
<1>14. /\ n.at = "next" /\ n.todo = list /\ SameBut(n, job[j], Moving) /\ n.op = job[j].op /\ n.stack = <<>> /\ n.ok = job[j].ok
       /\ n.cur = job[j].cur /\ n.out = job[j].out /\ n.later = job[j].later
  BY <1>2, <1>11, <1>13 DEF SameBut, Fields, Moving
<1> HIDE DEF n
<1>15. n.todo \in Seq(AllPairs) /\ \A i \in Range(n.todo) : ItemOK(n, i)
  BY <1>2, <1>5, <1>6, <1>7, <1>9, <1>10, <1>14 DEF ItemOK, FirstLoop, SecondLoop
<1>16. VisitsOK(n) /\ ~Writing(n) /\ CurOK(n) /\ CopyOK(fs', n)
  BY <1>14, NoVisits, CurIdle DEF CopyOK
<1>17. OutOK(n)
  BY <1>2, <1>14 DEF OutOK
<1>18. n.at \in StagesOf(job[j].op) /\ n.at # "unused" /\ n.ok \in BOOLEAN /\ n.cur \in AllPairs /\ job[j].at # "unused"
       /\ n.later \in Seq(FullPairs) /\ (job[j].op # "move" => n.later = <<>>) /\ \A l \in Range(n.later) : l.from # l.to
  BY <1>1, <1>2, <1>14 DEF JobOK, StagesOf
<1>19. JobOK(n)
  BY <1>2, <1>14, <1>15, <1>16, <1>17, <1>18, NextJob
<1>20. JobOK(job'[j]) /\ ~Writing(job'[j]) /\ CopyOK(fs', job'[j])
  BY <1>16, <1>19 DEF n
<1>21. TreeOK(fs') /\ NoNewFile /\ info' \in [Trashed -> Records]
  BY <1>1, SameTree DEF Core
<1> QED  BY <1>1, <1>2, <1>13, <1>20, <1>21, CallKept

-------------------------------------------------------------------------------
(* A call reports an item, starts a walk, or moves on with an error.       *)

LEMMA ReportKept ==
  ASSUME Grows, Core, NEW j \in Slots, NEW tree, NEW stage \in {"next", "next2"}, job' = Report(j, tree, stage), Active(j), job[j].stack = <<>>,
         UNCHANGED <<disk, undo>>, TreeOK(fs'), NoNewFile, info' \in [Trashed -> Records],
         stage \in StagesOf(job[j].op),
         job[j].op \in {"copy", "move", "trash"} => job[j].cur \in FullPairs /\ (job[j].op = "trash" => job[j].cur.to \in Trashed),
         stage = "next" /\ job[j].op = "move" => FirstLoop(job[j]),
         stage = "next2" => SecondLoop(job[j])
  PROVE  Core'
<1> DEFINE o == job[j]
           n == job'[j]
           h == o.honest /\ (o.op \notin {"remove", "empty"} => Holds(disk, tree, o.cur.to, o.had))
           r == [at |-> stage, out |-> Append(o.out, o.cur), honest |-> h]
<1>1. DOMAIN r = {"at", "out", "honest"} /\ r.at = stage /\ r.out = Append(o.out, o.cur)
  OBVIOUS
<1>2. job' = Put(j, r)
  BY DEF Report
<1> HIDE DEF r
<1>3. DOMAIN r \subseteq Fields
  BY <1>1 DEF Fields
<1>4. NoOther(j) /\ SameBut(n, o, DOMAIN r) /\ \A x \in DOMAIN r : n[x] = r[x]
  BY ONLY Core, <1>2, <1>3, PutCore
<1>5. JobOK(o) /\ o.at # "unused" /\ stage # "unused" /\ stage \in StagesOf(o.op) /\ o.stack = <<>>
  BY DEF Core, Active
<1>6. /\ n.at = stage /\ n.out = Append(o.out, o.cur) /\ SameBut(n, o, Moving) /\ n.op = o.op /\ n.stack = <<>> /\ n.ok = o.ok
      /\ n.cur = o.cur /\ n.later = o.later /\ n.todo = o.todo /\ n.dest = o.dest
  BY <1>1, <1>4, <1>5 DEF SameBut, Fields, Moving
<1>7. (FirstLoop(n) => FirstLoop(o)) /\ (SecondLoop(n) => SecondLoop(o))
  BY <1>6 DEF FirstLoop, SecondLoop
<1>8. o.op \in {"copy", "move", "trash"} => o.cur \in FullPairs /\ (o.op = "trash" => o.cur.to \in Trashed)
  OBVIOUS
<1> HIDE DEF n, o
<1>9. n.todo \in Seq(AllPairs) /\ \A i \in Range(n.todo) : ItemOK(n, i)
  BY <1>5, <1>6, <1>7 DEF JobOK, ItemOK
<1>10. OutOK(n)
  <2>1. CASE o.op \in {"copy", "move", "trash"}
    <3>1. o.out \in Seq(FullPairs) /\ o.cur \in FullPairs
      BY <1>5, <1>8, <2>1 DEF JobOK, OutOK
    <3>2. Append(o.out, o.cur) \in Seq(FullPairs) /\ Range(Append(o.out, o.cur)) = Range(o.out) \cup {o.cur}
      BY <3>1, Appending
    <3>3. o.op = "trash" => \A i \in DOMAIN n.out : n.out[i].to \in Trashed
      <4>1. ASSUME o.op = "trash" PROVE \A x \in Range(o.out) : x.to \in Trashed
        BY <1>5, <4>1 DEF JobOK, OutOK, Range
      <4>2. \A i \in DOMAIN n.out : n.out[i] \in Range(n.out)
        BY DEF Range
      <4> QED  BY <1>6, <1>8, <3>2, <4>1, <4>2
    <3> QED  BY <1>6, <3>2, <3>3 DEF OutOK
  <2>2. CASE o.op \notin {"copy", "move", "trash"}
    BY <1>6, <2>2 DEF OutOK
  <2> QED  BY <2>1, <2>2
<1>11. VisitsOK(n) /\ ~Writing(n) /\ CurOK(n) /\ CopyOK(fs', n)
  BY <1>6, NoVisits, CurIdle DEF CopyOK
<1>12. n.at \in StagesOf(o.op) /\ n.at # "unused" /\ n.ok \in BOOLEAN /\ n.cur \in AllPairs
       /\ n.later \in Seq(FullPairs) /\ (o.op # "move" => n.later = <<>>) /\ \A l \in Range(n.later) : l.from # l.to
  BY <1>5, <1>6 DEF JobOK
<1>13. JobOK(n)
  BY <1>5, <1>6, <1>9, <1>10, <1>11, <1>12, NextJob
<1>14. JobOK(job'[j]) /\ ~Writing(job'[j]) /\ CopyOK(fs', job'[j])
  BY <1>11, <1>13 DEF n
<1> QED  BY <1>4, <1>14, CallKept

(* The walks of a call.                                                    *)
LEMMA StartsWalk ==
  ASSUME Grows, Core, NEW j \in Slots, NEW stage, NEW do, job' = Walk(j, stage, do), Active(j), job[j].stack = <<>>,
         UNCHANGED <<disk, undo>>, TreeOK(fs'), NoNewFile, info' \in [Trashed -> Records],
         stage \in StagesOf(job[j].op), job[j].cur \in FullPairs,
         job[j].op = "trash" => job[j].cur.to \in Trashed, job[j].op = "restore" => job[j].cur.from \in Trashed,
         \/ stage = "copying" /\ do = "copy" /\ (job[j].cur.from # job[j].cur.to \/ fs'[job[j].cur.from] = NoEnt) /\ job[j].op # "move"
         \/ stage = "removing" /\ do = "rm" /\ (job[j].op = "move" => SecondLoop(job[j]))
         \/ stage = "unwinding" /\ do = "rm"
  PROVE  Core'
<1> DEFINE o == job[j]
           n == job'[j]
           a == IF stage \in {"clearing", "unwinding"} THEN o.cur.to ELSE o.cur.from
           b == o.cur.to
           st == <<Visit(do, a, b)>>
           r == [at |-> stage, ok |-> TRUE, stack |-> st]
<1>1. DOMAIN r = {"at", "ok", "stack"} /\ r.at = stage /\ r.ok = TRUE /\ r.stack = st
  OBVIOUS
<1>2. job' = Put(j, r)
  BY DEF Walk
<1> HIDE DEF r
<1>3. DOMAIN r \subseteq Fields
  BY <1>1 DEF Fields
<1>4. NoOther(j) /\ SameBut(n, o, DOMAIN r) /\ \A x \in DOMAIN r : n[x] = r[x]
  BY ONLY Core, <1>2, <1>3, PutCore
<1>5. JobOK(o) /\ o.at # "unused" /\ stage # "unused" /\ stage \in StagesOf(o.op) /\ o.cur \in FullPairs
  BY DEF Core, Active
<1>6. /\ n.at = stage /\ n.out = o.out /\ SameBut(n, o, Moving) /\ n.op = o.op /\ n.stack = st /\ n.ok = TRUE
      /\ n.cur = o.cur /\ n.later = o.later /\ n.todo = o.todo /\ n.dest = o.dest
  BY <1>1, <1>4 DEF SameBut, Fields, Moving
<1>7. (FirstLoop(n) => FirstLoop(o)) /\ (SecondLoop(n) => SecondLoop(o))
  BY <1>6 DEF FirstLoop, SecondLoop
<1>8. a \in Paths /\ b \in Paths /\ b \in Words /\ o.cur.from \in Paths /\ do \in {"copy", "rm"}
  BY <1>5, PathsAreWords DEF FullPairs
<1>9. \/ n.at = "copying" /\ do = "copy" /\ a = n.cur.from /\ b = n.cur.to /\ (a # b \/ fs'[a] = NoEnt)
      \/ n.at = "removing" /\ do = "rm" /\ a = n.cur.from
      \/ n.at \in {"clearing", "unwinding"} /\ do = "rm" /\ a = n.cur.to
  BY <1>6
<1>10. CurOK(n)
  BY <1>6, <1>8 DEF CurOK
<1> HIDE DEF n, o, a, b
<1>11. n.todo \in Seq(AllPairs) /\ \A i \in Range(n.todo) : ItemOK(n, i)
  BY <1>5, <1>6, <1>7 DEF JobOK, ItemOK
<1>12. OutOK(n)
  BY <1>5, <1>6 DEF JobOK, OutOK
<1>13. VisitsOK(n) /\ ~Writing(n) /\ \A t : CopyOK(t, n) <=> (n.at = "copying" => a # b \/ t[a] = NoEnt)
  BY <1>6, <1>8, <1>9, OneVisit
<1>14. VisitsOK(n) /\ ~Writing(n) /\ CopyOK(fs', n)
  BY <1>9, <1>13
<1>15. n.at \in StagesOf(o.op) /\ n.at # "unused" /\ n.ok \in BOOLEAN /\ n.cur \in AllPairs
       /\ n.later \in Seq(FullPairs) /\ (o.op # "move" => n.later = <<>>) /\ \A l \in Range(n.later) : l.from # l.to
  BY <1>5, <1>6 DEF JobOK
<1>16. JobOK(n)
  BY <1>5, <1>6, <1>10, <1>11, <1>12, <1>14, <1>15, NextJob
<1>17. JobOK(job'[j]) /\ ~Writing(job'[j]) /\ CopyOK(fs', job'[j])
  BY <1>14, <1>16 DEF n
<1> QED  BY <1>4, <1>17, CallKept

(* On to another stage, by itself or with an error. *)
ToStage(j, stage) == job' = Put(j, [at |-> stage]) \/ Error(j, stage)
LEMMA StageKept ==
  ASSUME Grows, Core, NEW j \in Slots, NEW stage, ToStage(j, stage), Active(j), job[j].stack = <<>>,
         UNCHANGED <<disk, undo>>, TreeOK(fs'), NoNewFile, info' \in [Trashed -> Records],
         stage \in StagesOf(job[j].op), stage \in {"next", "next2", "unrecord", "rename", "returned"},
         stage \in {"unrecord", "rename"} => job[j].cur \in FullPairs,
         stage \in {"unrecord", "rename"} /\ job[j].op = "trash" => job[j].cur.to \in Trashed,
         stage \in {"unrecord", "rename"} /\ job[j].op = "restore" => job[j].cur.from \in Trashed,
         stage = "rename" => job[j].cur.from # job[j].cur.to,
         stage \in {"next", "rename"} /\ job[j].op = "move" => FirstLoop(job[j]),
         stage = "next2" => SecondLoop(job[j])
  PROVE  Core'
<1>1. ASSUME NEW r, job' = Put(j, r), DOMAIN r \subseteq {"at", "errs"}, "at" \in DOMAIN r, r.at = stage PROVE Core'
  <2> DEFINE o == job[j]
             n == job'[j]
  <2>1. DOMAIN r \subseteq Fields
    BY <1>1 DEF Fields
  <2>2. SameBut(n, o, DOMAIN r) /\ \A x \in DOMAIN r : n[x] = r[x]
    BY ONLY Core, <1>1, <2>1, PutCore
  <2>3. n.at = stage /\ n.todo = o.todo /\ n.op = o.op /\ n.cur = o.cur
    BY <1>1, <2>2 DEF SameBut, Fields
  <2>4. CurOK(n)
    BY <2>3 DEF CurOK, FullPairs
  <2>5. (FirstLoop(n) => FirstLoop(o)) /\ (SecondLoop(n) => SecondLoop(o)) /\ n.at \notin Walking /\ n.at \in StagesOf(o.op) \ {"unused"}
    BY <2>3 DEF FirstLoop, SecondLoop, Walking
  <2>6. n.todo \in Seq(AllPairs) /\ Range(n.todo) \subseteq Range(o.todo)
    BY <2>3 DEF Core, JobOK
  <2>7. DOMAIN r \subseteq {"at", "todo", "errs"} /\ job' = Put(j, r)
    BY <1>1
  <2> QED  BY <2>4, <2>5, <2>6, <2>7, MovesOn
<1>2. CASE job' = Put(j, [at |-> stage])
  <2> DEFINE r == [at |-> stage]
  <2>1. DOMAIN r = {"at"} /\ r.at = stage /\ job' = Put(j, r)
    BY <1>2
  <2> HIDE DEF r
  <2> QED  BY <1>1, <2>1
<1>3. CASE Error(j, stage)
  <2> DEFINE r == [at |-> stage, errs |-> TRUE]
  <2>1. DOMAIN r = {"at", "errs"} /\ r.at = stage /\ job' = Put(j, r)
    BY <1>3 DEF Error
  <2> HIDE DEF r
  <2> QED  BY <1>1, <2>1
<1> QED  BY <1>2, <1>3 DEF ToStage

-------------------------------------------------------------------------------
(* The steps of a call between taking an item up and reporting it.         *)

(* What a job has on its way. *)
LEMMA OnItsWay ==
  ASSUME Core, NEW j \in Slots, job[j].at \in {"rename", "clearing", "copying", "removing", "unwinding", "unrecord"}
  PROVE  /\ Active(j) /\ JobOK(job[j]) /\ job[j].cur.from \in Paths
         /\ job[j].at # "removing" \/ job[j].op \notin {"remove", "empty"} => job[j].cur \in FullPairs
         /\ job[j].op = "trash" => job[j].cur.to \in Trashed
         /\ job[j].op = "restore" => job[j].cur.from \in Trashed
         /\ job[j].op = "move" /\ job[j].at \in {"rename", "clearing"} => job[j].cur.from # job[j].cur.to
         /\ job[j].at \in StagesOf(job[j].op) /\ job[j].cur \in AllPairs
<1>1. JobOK(job[j]) /\ Active(j)
  BY DEF Core, Active
<1>2. CurOK(job[j]) /\ job[j].cur \in AllPairs /\ job[j].at \in StagesOf(job[j].op)
  BY <1>1 DEF JobOK
<1>3. job[j].cur.from \in Paths /\ (job[j].at # "removing" \/ job[j].op \notin {"remove", "empty"} => job[j].cur.to \in Paths)
  BY <1>2 DEF CurOK
<1>4. job[j].cur.to \in Paths => job[j].cur \in FullPairs
  BY <1>2, <1>3 DEF AllPairs, FullPairs
<1>5. job[j].op = "trash" => job[j].at # "clearing"
  BY <1>2 DEF StagesOf
<1>6. job[j].op = "restore" => job[j].at # "clearing"
  BY <1>2 DEF StagesOf
<1> QED  BY <1>1, <1>2, <1>3, <1>4, <1>5, <1>6 DEF CurOK

LEMMA WalkedIdle ==
  ASSUME NEW j \in Slots, NEW stage, WalkDone(j, stage) PROVE job[j].at = stage /\ job[j].stack = <<>>
BY DEF WalkDone, At

LEMMA KeepsCleared == ASSUME Grows, Core, NEW j \in Slots, Cleared(j) PROVE Core'
<1>1. job[j].at = "clearing" /\ job[j].stack = <<>> /\ UNCHANGED <<fs, disk, info, undo>> /\ job' = Put(j, [at |-> "rename"])
  BY DEF Cleared, WalkDone, At
<1>2. TreeOK(fs') /\ NoNewFile /\ info' \in [Trashed -> Records]
  BY <1>1, SameTree DEF Core
<1>3. Active(j) /\ job[j].op = "move" /\ job[j].cur \in FullPairs /\ job[j].cur.from # job[j].cur.to
  BY <1>1, OnItsWay DEF StagesOf
<1>4. "rename" \in StagesOf(job[j].op) /\ FirstLoop(job[j])
  BY <1>1, <1>3 DEF StagesOf, FirstLoop
<1> DEFINE stage == "rename"
<1>5. job' = Put(j, [at |-> stage]) /\ stage = "rename"
  BY <1>1
<1> HIDE DEF stage
<1>9. ToStage(j, stage)
  BY <1>1, <1>2, <1>3, <1>4, <1>5 DEF ToStage
<1> QED  BY <1>1, <1>2, <1>3, <1>4, <1>5, <1>9, StageKept

LEMMA KeepsUnwound == ASSUME Grows, Core, NEW j \in Slots, Unwound(j) PROVE Core'
<1> DEFINE stage == "unrecord"
<1>1. job[j].at = "unwinding" /\ job[j].stack = <<>> /\ UNCHANGED <<fs, disk, info, undo>> /\ job' = Put(j, [at |-> stage])
  BY DEF Unwound, WalkDone, At
<1>2. TreeOK(fs') /\ NoNewFile /\ info' \in [Trashed -> Records]
  BY <1>1, SameTree DEF Core
<1>3. Active(j) /\ job[j].op = "trash" /\ job[j].cur \in FullPairs /\ job[j].cur.to \in Trashed
  BY <1>1, OnItsWay DEF StagesOf
<1>4. stage \in StagesOf(job[j].op) /\ stage = "unrecord"
  BY <1>3 DEF StagesOf
<1> HIDE DEF stage
<1>9. ToStage(j, stage)
  BY <1>1, <1>2, <1>3, <1>4 DEF ToStage
<1> QED  BY <1>1, <1>2, <1>3, <1>4, <1>9, StageKept

LEMMA Forgotten == ASSUME Core, NEW p \in Trashed, Forget(p) PROVE info' \in [Trashed -> Records]
<1>1. <<>> \in Records
  BY DEF Records, MaybePaths
<1> QED  BY <1>1 DEF Core, Forget

LEMMA KeepsUnrecord == ASSUME Grows, Core, NEW j \in Slots, Unrecord(j) PROVE Core'
<1> DEFINE stage == "next"
<1>1. job[j].at = "unrecord" /\ UNCHANGED <<fs, disk, undo>> /\ Error(j, stage) /\ Forget(job[j].cur.to)
  BY DEF Unrecord, At
<1>2. Active(j) /\ job[j].op = "trash" /\ job[j].cur.to \in Trashed /\ job[j].stack = <<>>
  BY <1>1, OnItsWay, Idle DEF StagesOf, Walking
<1>3. TreeOK(fs') /\ NoNewFile /\ info' \in [Trashed -> Records]
  BY <1>1, <1>2, SameTree, Forgotten
<1>4. stage \in StagesOf(job[j].op) /\ stage = "next"
  BY <1>2 DEF StagesOf
<1> HIDE DEF stage
<1>9. ToStage(j, stage)
  BY <1>1, <1>2, <1>3, <1>4 DEF ToStage
<1> QED  BY <1>1, <1>2, <1>3, <1>4, <1>9, StageKept

LEMMA KeepsForgetDeleted == ASSUME Grows, Core, NEW j \in Slots, ForgetDeleted(j) PROVE Core'
<1> DEFINE stage == "returned"
<1>1. job[j].at = "forget" /\ UNCHANGED <<fs, disk, undo>> /\ job' = Put(j, [at |-> stage])
      /\ \E gone : info' = [p \in Trashed |-> IF p \in gone THEN <<>> ELSE info[p]]
  <2>1. PICK stays : info' = [p \in Trashed |-> IF p \in Range(job[j].args) \ stays THEN <<>> ELSE info[p]]
    BY DEF ForgetDeleted
  <2> QED  BY <2>1 DEF ForgetDeleted, At
<1>2. Active(j) /\ job[j].op = "remove" /\ job[j].stack = <<>>
  BY <1>1, Idle DEF JobOK, StagesOf, Walking
<1>3. TreeOK(fs') /\ NoNewFile
  BY <1>1, SameTree
<1>5. info' \in [Trashed -> Records]
  <2>1. <<>> \in Records
    BY DEF Records, MaybePaths
  <2> QED  BY <1>1, <2>1 DEF Core
<1>4. stage \in StagesOf(job[j].op) /\ stage = "returned"
  BY <1>2 DEF StagesOf
<1> HIDE DEF stage
<1>9. ToStage(j, stage)
  BY <1>1, <1>2, <1>3, <1>4, <1>5 DEF ToStage
<1> QED  BY <1>1, <1>2, <1>3, <1>4, <1>5, <1>9, StageKept

LEMMA KeepsGiveUp ==
  ASSUME Grows, Core, NEW j \in Slots, GiveUpTrash(j), job[j].at \in {"copying", "removing"}, job[j].op = "trash", job[j].stack = <<>>,
         UNCHANGED <<fs, disk, info, undo>>
  PROVE  Core'
<1>1. TreeOK(fs') /\ NoNewFile /\ info' \in [Trashed -> Records]
  BY SameTree DEF Core
<1>2. Active(j) /\ job[j].cur \in FullPairs /\ job[j].cur.to \in Trashed
  BY OnItsWay
<1>3. CASE job[j].cancel
  <2> DEFINE stage == "unrecord"
  <2>1. stage \in StagesOf(job[j].op) /\ stage = "unrecord" /\ job' = Put(j, [at |-> stage])
    BY <1>3 DEF StagesOf, GiveUpTrash
  <2> HIDE DEF stage
  <2>9. ToStage(j, stage)
    BY <1>1, <1>2, <2>1 DEF ToStage
  <2> QED  BY <1>1, <1>2, <2>1, <2>9, StageKept
<1>4. CASE ~job[j].cancel
  <2> DEFINE stage == "unwinding"
             do == "rm"
  <2>1. stage \in StagesOf(job[j].op) /\ stage = "unwinding" /\ do = "rm" /\ job' = Walk(j, stage, do)
    BY <1>4 DEF StagesOf, GiveUpTrash
  <2> HIDE DEF stage, do
  <2> QED  BY <1>1, <1>2, <2>1, StartsWalk
<1> QED  BY <1>3, <1>4

LEMMA KeepsCopied == ASSUME Grows, Core, NEW j \in Slots, Copied(j) PROVE Core'
<1> DEFINE op == job[j].op
           whole == CopyIsWhole(j)
<1>1. job[j].at = "copying" /\ job[j].stack = <<>> /\ UNCHANGED <<fs, disk, info, undo>>
  BY DEF Copied, WalkDone, At
<1>2. TreeOK(fs') /\ NoNewFile /\ info' \in [Trashed -> Records] /\ fs' = fs
  BY <1>1, SameTree DEF Core
<1>3. /\ Active(j) /\ job[j].cur \in FullPairs /\ (op = "trash" => job[j].cur.to \in Trashed) /\ (op = "restore" => job[j].cur.from \in Trashed)
      /\ op \in {"copy", "move", "moveBack", "restore", "trash"}
  BY <1>1, OnItsWay DEF StagesOf
<1>4. CASE op = "copy"
  <2> DEFINE stage == "next"
  <2>1. stage \in StagesOf(op) /\ stage = "next" /\ stage \in {"next", "next2"}
        /\ (job' = Report(j, fs, stage) \/ job' = Put(j, [at |-> stage]))
    BY <1>4 DEF StagesOf, Copied
  <2> HIDE DEF stage
  <2>2. ToStage(j, stage) \/ job' = Report(j, fs, stage)
    BY <2>1 DEF ToStage
  <2>3. CASE ToStage(j, stage)
    BY <1>1, <1>2, <1>3, <1>4, <2>1, <2>3, StageKept
  <2> QED  BY <1>1, <1>2, <1>3, <1>4, <2>1, <2>2, <2>3, ReportKept
<1>5. CASE op # "copy" /\ whole
  <2> DEFINE stage == "removing"
             do == "rm"
  <2>1. stage \in StagesOf(op) /\ stage = "removing" /\ do = "rm" /\ job' = Walk(j, stage, do) /\ (op = "move" => SecondLoop(job[j]))
    BY <1>1, <1>3, <1>5 DEF StagesOf, Copied, SecondLoop
  <2> HIDE DEF stage, do
  <2> QED  BY <1>1, <1>2, <1>3, <2>1, StartsWalk
<1>6. CASE op = "move" /\ ~whole
  <2> DEFINE stage == "next2"
  <2>1. stage \in StagesOf(op) /\ stage = "next2" /\ job' = Put(j, [at |-> stage]) /\ SecondLoop(job[j])
    BY <1>1, <1>6 DEF StagesOf, Copied, SecondLoop
  <2> HIDE DEF stage
  <2>9. ToStage(j, stage)
    BY <1>1, <1>2, <1>3, <2>1 DEF ToStage
  <2> QED  BY <1>1, <1>2, <1>3, <2>1, <2>9, StageKept
<1>7. CASE op = "moveBack" /\ ~whole
  <2> DEFINE stage == "next"
  <2>1. stage \in StagesOf(op) /\ stage = "next" /\ job' = Report(j, fs, stage) /\ stage \in {"next", "next2"}
    BY <1>7 DEF StagesOf, Copied
  <2> HIDE DEF stage
  <2> QED  BY <1>1, <1>2, <1>3, <1>7, <2>1, ReportKept
<1>8. CASE op = "trash" /\ ~whole
  <2>1. GiveUpTrash(j)
    BY <1>8 DEF Copied
  <2> QED  BY <1>1, <1>8, <2>1, KeepsGiveUp
<1>9. CASE op = "restore" /\ ~whole
  <2> DEFINE stage == "next"
  <2>1. stage \in StagesOf(op) /\ stage = "next" /\ Error(j, stage)
    BY <1>9 DEF StagesOf, Copied
  <2> HIDE DEF stage
  <2>9. ToStage(j, stage)
    BY <1>1, <1>2, <1>3, <1>9, <2>1 DEF ToStage
  <2> QED  BY <1>1, <1>2, <1>3, <1>9, <2>1, <2>9, StageKept
<1> QED  BY <1>3, <1>4, <1>5, <1>6, <1>7, <1>8, <1>9

LEMMA KeepsRemoved == ASSUME Grows, Core, NEW j \in Slots, Removed(j) PROVE Core'
<1> DEFINE op == job[j].op
<1>1. job[j].at = "removing" /\ job[j].stack = <<>> /\ UNCHANGED <<fs, disk, undo>>
  BY DEF Removed, WalkDone, At
<1>2. TreeOK(fs') /\ NoNewFile
  BY <1>1, SameTree
<1>3. /\ Active(j) /\ JobOK(job[j]) /\ job[j].cur \in AllPairs
      /\ (op \notin {"remove", "empty"} => job[j].cur \in FullPairs)
      /\ (op = "trash" => job[j].cur.to \in Trashed) /\ (op = "restore" => job[j].cur.from \in Trashed)
      /\ op \in {"move", "moveBack", "restore", "trash", "remove", "empty"}
  BY <1>1, OnItsWay DEF StagesOf
<1>4. info' \in [Trashed -> Records]
  <2>1. UNCHANGED info \/ (op = "restore" /\ Forget(job[j].cur.from))
    BY <1>3 DEF Removed
  <2> QED  BY <1>3, <2>1, Forgotten DEF Core
<1>5. CASE op = "move"
  <2> DEFINE stage == "next2"
  <2>1. stage \in StagesOf(op) /\ stage = "next2" /\ job' = Report(j, fs, stage) /\ stage \in {"next", "next2"} /\ SecondLoop(job[j])
    BY <1>1, <1>5 DEF StagesOf, Removed, SecondLoop
  <2> HIDE DEF stage
  <2> QED  BY <1>1, <1>2, <1>3, <1>4, <1>5, <2>1, ReportKept
<1> DEFINE stage == "next"
<1>6. stage \in {"next", "next2"} /\ stage = "next" /\ (op # "move" => stage \in StagesOf(op))
  BY <1>3 DEF StagesOf
<1>7. op # "move" => \/ job' = Report(j, fs, stage)
                     \/ ToStage(j, stage)
                     \/ GiveUpTrash(j) /\ UNCHANGED info /\ op = "trash"
  BY <1>3 DEF Removed, ToStage
<1> HIDE DEF stage
<1>8. CASE op # "move" /\ job' = Report(j, fs, stage)
  BY <1>1, <1>2, <1>3, <1>4, <1>6, <1>8, ReportKept
<1>9. CASE op # "move" /\ ToStage(j, stage)
  BY <1>1, <1>2, <1>3, <1>4, <1>6, <1>9, StageKept
<1>10. CASE GiveUpTrash(j) /\ UNCHANGED info /\ op = "trash"
  BY <1>1, <1>10, KeepsGiveUp
<1> QED  BY <1>5, <1>7, <1>8, <1>9, <1>10

LEMMA KeepsRename == ASSUME Grows, Core, NEW j \in Slots, Rename(j) PROVE Core'
<1> DEFINE o == job[j]
           a == o.cur.from
           b == o.cur.to
           err == RenameErr(fs, a, b)
<1>1. o.at = "rename" /\ UNCHANGED <<disk, undo>> /\ TreeOK(fs)
  BY DEF Rename, At, Core
<1>2. /\ Active(j) /\ o.cur \in FullPairs /\ (o.op = "trash" => b \in Trashed) /\ (o.op = "restore" => a \in Trashed)
      /\ (o.op = "move" => a # b) /\ o.op \in {"move", "moveBack", "restore", "trash"} /\ JobOK(o) /\ o.stack = <<>>
  BY <1>1, OnItsWay, Idle DEF StagesOf, Walking
<1>3. a \in Paths /\ b \in Paths
  BY <1>2 DEF FullPairs
<1>4. info \in [Trashed -> Records] /\ (o.op = "move" => FirstLoop(o))
  BY <1>1 DEF Core, FirstLoop
<1>5. CASE /\ err = "ok" /\ fs' = Renamed(fs, a, b) /\ job' = Report(j, fs', "next")
           /\ IF o.op = "restore" THEN Forget(a) ELSE UNCHANGED info
  <2>1. /\ TreeOK(fs')
        /\ \A q \in Paths : ~IsPrefix(a, q) /\ ~IsPrefix(b, q) => fs'[q] = fs[q]
        /\ \A q \in Paths : IsPrefix(b, q) /\ fs'[q] # NoEnt => Rebase(q, b, a) \in Paths /\ fs'[q] = fs[Rebase(q, b, a)]
        /\ \A q \in Paths : IsPrefix(a, q) /\ ~IsPrefix(b, q) => fs'[q] = NoEnt
    BY <1>1, <1>3, <1>5, RenamedIs
  <2>2. NoNewFile
    BY <2>1, Kinds DEF NoNewFile
  <2>3. info' \in [Trashed -> Records]
    BY <1>2, <1>4, <1>5, Forgotten
  <2> DEFINE stage == "next"
             tree == fs'
  <2>4. stage \in {"next", "next2"} /\ stage = "next" /\ stage \in StagesOf(o.op) /\ job' = Report(j, tree, stage)
    BY <1>2, <1>5 DEF StagesOf
  <2> HIDE DEF stage, tree
  <2> QED  BY <1>1, <1>2, <1>4, <2>1, <2>2, <2>3, <2>4, ReportKept
<1>6. CASE CrossesOver(j, err) /\ o.op = "move" /\ job' = Put(j, [at |-> "next", later |-> Append(o.later, o.cur)]) /\ UNCHANGED <<fs, info>>
  <2> DEFINE r == [at |-> "next", later |-> Append(o.later, o.cur)]
             n == job'[j]
  <2>1. DOMAIN r = {"at", "later"} /\ r.at = "next" /\ r.later = Append(o.later, o.cur) /\ job' = Put(j, r)
    BY <1>6
  <2> HIDE DEF r
  <2>2. DOMAIN r \subseteq Fields
    BY <2>1 DEF Fields
  <2>3. NoOther(j) /\ SameBut(n, o, DOMAIN r) /\ \A x \in DOMAIN r : n[x] = r[x]
    BY <2>1, <2>2, PutCore
  <2>4. /\ n.at = "next" /\ n.later = Append(o.later, o.cur) /\ SameBut(n, o, Moving) /\ n.op = o.op /\ n.stack = <<>> /\ n.ok = o.ok
        /\ n.cur = o.cur /\ n.out = o.out /\ n.todo = o.todo /\ n.dest = o.dest
    BY <1>2, <2>1, <2>3 DEF SameBut, Fields, Moving
  <2>5. NoOther(j)
    BY <2>3
  <2>6. o.later \in Seq(FullPairs) /\ o.cur \in FullPairs /\ o.op = "move" /\ (\A l \in Range(o.later) : l.from # l.to) /\ o.cur.from # o.cur.to
    BY <1>2, <1>6 DEF JobOK
  <2>7. TreeOK(fs') /\ NoNewFile /\ info' \in [Trashed -> Records]
    BY <1>4, <1>6, SameTree
  <2> HIDE DEF n, o
  <2>8. n.later \in Seq(FullPairs) /\ \A l \in Range(n.later) : l.from # l.to
    BY <2>4, <2>6, Appending
  <2>9. n.todo \in Seq(AllPairs) /\ \A i \in Range(n.todo) : ItemOK(n, i)
    BY <1>1, <1>2, <2>4, <2>6 DEF JobOK, ItemOK, FirstLoop, SecondLoop
  <2>10. VisitsOK(n) /\ ~Writing(n) /\ CurOK(n) /\ CopyOK(fs', n)
    BY <2>4, NoVisits, CurIdle DEF CopyOK
  <2>11. OutOK(n)
    BY <1>2, <2>4 DEF JobOK, OutOK
  <2>12. n.at \in StagesOf(o.op) /\ n.at # "unused" /\ n.ok \in BOOLEAN /\ n.cur \in AllPairs /\ o.at # "unused"
    BY <1>1, <1>2, <2>4, <2>6 DEF JobOK, StagesOf
  <2>13. JobOK(n)
    BY <1>2, <2>4, <2>6, <2>8, <2>9, <2>10, <2>11, <2>12, NextJob
  <2>14. JobOK(job'[j]) /\ ~Writing(job'[j]) /\ CopyOK(fs', job'[j]) /\ job[j].stack = <<>>
    BY <1>2, <2>10, <2>13 DEF n, o
  <2> QED  BY <1>1, <1>2, <2>5, <2>7, <2>14, CallKept
<1>7. CASE CrossesOver(j, err) /\ o.op # "move" /\ job' = Walk(j, "copying", "copy") /\ UNCHANGED <<fs, info>>
  <2> DEFINE stage == "copying"
             do == "copy"
  <2>1. a # b
    <3>1. err = "EXDEV"
      BY <1>7 DEF CrossesOver
    <3>2. VolumeOf(a) # VolumeOf(b)
      BY <3>1 DEF RenameErr
    <3> QED  BY <3>2
  <2>2. stage \in StagesOf(o.op) /\ stage = "copying" /\ do = "copy" /\ job' = Walk(j, stage, do)
    BY <1>2, <1>7 DEF StagesOf
  <2>3. TreeOK(fs') /\ NoNewFile /\ info' \in [Trashed -> Records]
    BY <1>4, <1>7, SameTree
  <2> HIDE DEF stage, do
  <2> QED  BY <1>1, <1>2, <1>7, <2>1, <2>2, <2>3, StartsWalk
<1>8. CASE Error(j, IF o.op = "trash" THEN "unrecord" ELSE "next") /\ UNCHANGED <<fs, info>>
  <2> DEFINE stage == IF o.op = "trash" THEN "unrecord" ELSE "next"
  <2>1. stage \in StagesOf(o.op) /\ stage \in {"unrecord", "next"} /\ Error(j, stage)
    BY <1>2, <1>8 DEF StagesOf
  <2>2. TreeOK(fs') /\ NoNewFile /\ info' \in [Trashed -> Records]
    BY <1>4, <1>8, SameTree
  <2> HIDE DEF stage
  <2>9. ToStage(j, stage)
    BY <1>1, <1>2, <1>4, <2>1, <2>2 DEF ToStage
  <2> QED  BY <1>1, <1>2, <1>4, <2>1, <2>2, <2>9, StageKept
<1> QED  BY <1>5, <1>6, <1>7, <1>8 DEF Rename

LEMMA KeepsCallStep == ASSUME Grows, Core, NEW j \in Slots, CallStep(j) PROVE Core'
BY KeepsMeasure, KeepsLoopOver, KeepsTransferItem, KeepsMoveBackItem, KeepsRemoveItem, KeepsListTrash, KeepsRemoveRecord, KeepsTrashItem,
   KeepsRestoreItem, KeepsRename, KeepsCopyAcross, KeepsCleared, KeepsCopied, KeepsRemoved, KeepsUnwound, KeepsUnrecord, KeepsForgetDeleted
   DEF CallStep

-------------------------------------------------------------------------------
(* The user's side: the undo stack, and a job in a fresh slot.             *)

UndoOK(u) == u \in Seq(Range(u)) /\ \A s \in Range(u) : StepOK(s)

LEMMA OwnRange == ASSUME NEW S, NEW s \in Seq(S) PROVE s \in Seq(Range(s)) /\ Range(s) \subseteq S
<1>1. DOMAIN s = 1 .. Len(s) /\ Len(s) \in Nat /\ s = [i \in 1 .. Len(s) |-> s[i]]
  OBVIOUS
<1>2. \A i \in 1 .. Len(s) : s[i] \in Range(s)
  BY <1>1 DEF Range
<1>3. s \in Seq(Range(s))
  BY <1>1, <1>2
<1> QED  BY <1>3, SeqParts

(* The undo stack takes a step on, and a step off. *)
LEMMA UndoGrows ==
  ASSUME NEW u, NEW s, NEW t, UndoOK(u), StepOK(s), t = u \/ (u # <<>> /\ t = Tail(u))
  PROVE  UndoOK(Append(t, s))
<1> DEFINE S == Range(u) \cup {s}
<1>1. \A x \in S : StepOK(x)
  BY DEF UndoOK
<1>2. u \in Seq(S) /\ s \in S
  <2>1. u \in Seq(Range(u)) /\ Range(u) \subseteq S
    BY DEF UndoOK
  <2>2. \A i \in 1 .. Len(u) : u[i] \in S
    BY <2>1
  <2>3. u \in Seq(S)
    BY <2>1, <2>2
  <2> QED  BY <2>3
<1> HIDE DEF S
<1>3. t \in Seq(S)
  BY <1>2
<1>4. Append(t, s) \in Seq(S)
  BY <1>2, <1>3
<1> DEFINE v == Append(t, s)
<1>5. v \in Seq(S)
  BY <1>4
<1> HIDE DEF v
<1>6. v \in Seq(Range(v)) /\ Range(v) \subseteq S
  BY <1>5, OwnRange
<1> QED  BY <1>1, <1>6 DEF UndoOK, v

LEMMA UndoShrinks ==
  ASSUME NEW u, UndoOK(u), u # <<>>
  PROVE  UndoOK(Front(u)) /\ StepOK(Last(u))
<1> DEFINE S == Range(u)
           v == Front(u)
<1>1. u \in Seq(S) /\ \A x \in S : StepOK(x)
  BY DEF UndoOK
<1> HIDE DEF S
<1>2. v \in Seq(S) /\ Last(u) \in S
  BY <1>1 DEF Front, Last
<1> HIDE DEF v
<1>3. v \in Seq(Range(v)) /\ Range(v) \subseteq S
  BY <1>2, OwnRange
<1> QED  BY <1>1, <1>2, <1>3 DEF UndoOK, v

LEMMA QuietIs ==
  ASSUME Core, NEW j \in Slots, \A i \in Slots : i # j => ~Active(i), ~Writing(job[j])
  PROVE  AllWhole(fs, disk)
<1>1. \A i \in Slots : ~Writing(job[i])
  <2> TAKE i \in Slots
  <2>1. CASE i # j
    BY <2>1 DEF Core, Active, JobOK, VisitsOK, Walking, Writing
  <2> QED  BY <2>1
<1> QED  BY <1>1 DEF Core, HalfOK, AllWhole

(* A step of the user's side: the files stay as they are.                  *)
LEMMA UserKept ==
  ASSUME Grows, Core, NEW j \in Slots, \A i \in Slots : i # j => ~Active(i), NoOther(j), UNCHANGED <<fs, disk, info>>, UndoOK(undo'),
         JobOK(job'[j]), ~Writing(job[j]), ~Writing(job'[j]), job'[j].at # "copying"
  PROVE  Core'
<1>1. AllWhole(fs, disk)
  BY QuietIs
<1>2. \A i \in Slots : i # j => job'[i] = job[i] /\ job[i].at \in {"unused", "ended"} /\ job[i].stack = <<>> /\ JobOK(job[i])
  BY DEF Core, NoOther, Active, JobOK, VisitsOK, Walking
<1>3. \A i \in Slots : JobOK(job'[i]) /\ WriteOK(fs', disk', job'[i]) /\ CopyOK(fs', job'[i])
  BY <1>2 DEF WriteOK, Writing, CopyOK
<1>4. \A i, k \in Slots : (job'[i].at \notin {"unused", "ended"}) /\ (job'[k].at \notin {"unused", "ended"}) => i = k
  BY <1>2
<1>5. HalfOK'
  BY <1>1 DEF HalfOK, AllWhole, Fine, Grows
<1> QED  BY <1>3, <1>4, <1>5 DEF Core, NoOther, Active, UndoOK

Starting == {"op", "at", "args", "dest", "policy", "was", "todo", "step"}
LEMMA Starts ==
  ASSUME Core, NEW j \in Slots, job[j].at = "unused", NEW r, job' = Put(j, r), DOMAIN r \subseteq Starting
  PROVE  /\ NoOther(j) /\ DOMAIN job'[j] = Fields
         /\ \A x \in DOMAIN r : job'[j][x] = r[x]
         /\ \A x \in Fields \ DOMAIN r : job'[j][x] = Fresh[x]
         /\ ~Writing(job[j])
<1>1. DOMAIN r \subseteq Fields /\ job' = Put(j, r)
  BY DEF Starting, Fields
<1>2. NoOther(j) /\ SameBut(job'[j], job[j], DOMAIN r) /\ \A x \in DOMAIN r : job'[j][x] = r[x]
  BY ONLY Core, <1>1, PutCore
<1>3. JobOK(job[j])
  BY DEF Core
<1>4. job[j] = Fresh
  BY <1>3 DEF JobOK
<1>5. ~Writing(job[j])
  BY <1>3 DEF JobOK, VisitsOK, Walking, Writing
<1> QED  BY <1>2, <1>4, <1>5 DEF SameBut

LEMMA NewJob ==
  ASSUME Grows, Core, NEW j \in Slots, job[j].at = "unused", NEW r, job' = Put(j, r), DOMAIN r \subseteq Starting,
         {"op", "at", "todo"} \subseteq DOMAIN r,
         \A i \in Slots : i # j => ~Active(i), UNCHANGED <<fs, disk, info>>, UndoOK(undo'),
         r.at \in {"next", "space", "list"}, r.at \in StagesOf(r.op),
         job'[j].policy \in {"KeepBoth", "Replace", "Skip"}, r.op \notin {"copy", "move"} => job'[j].policy = "KeepBoth",
         job'[j].dest \in MaybePaths, r.op \in {"copy", "move"} => job'[j].dest \in Paths,
         r.op = "empty" => job'[j].dest \in {<<t>> : t \in TrashDirs},
         r.todo \in Seq(AllPairs), \A i \in Range(r.todo) : ItemOK(job'[j], i),
         job'[j].step.kind = "none" \/ StepOK(job'[j].step)
  PROVE  Core'
<1> DEFINE n == job'[j]
<1>00. job[j].at = "unused"
  OBVIOUS
<1>0. job' = Put(j, r) /\ DOMAIN r \subseteq Starting
  OBVIOUS
<1>01. (\A i \in Slots : i # j => ~Active(i)) /\ UNCHANGED <<fs, disk, info>> /\ UndoOK(undo')
  OBVIOUS
<1>1. /\ NoOther(j) /\ DOMAIN n = Fields /\ (\A x \in DOMAIN r : n[x] = r[x]) /\ (\A x \in Fields \ DOMAIN r : n[x] = Fresh[x])
      /\ ~Writing(job[j])
  BY ONLY Core, <1>00, <1>0, Starts
<1>2. n.op = r.op /\ n.at = r.at /\ n.todo = r.todo
  BY <1>1
<1>3. /\ n.stack = <<>> /\ n.out = <<>> /\ n.later = <<>> /\ n.ok = TRUE /\ n.cancel = FALSE /\ n.cur = Pair(<<>>, <<>>)
  BY <1>1 DEF Fields, Starting, Fresh
<1>4. /\ n.policy \in {"KeepBoth", "Replace", "Skip"} /\ (n.op \notin {"copy", "move"} => n.policy = "KeepBoth")
      /\ n.dest \in MaybePaths /\ (n.op \in {"copy", "move"} => n.dest \in Paths)
      /\ (n.op = "empty" => n.dest \in {<<t>> : t \in TrashDirs})
      /\ n.todo \in Seq(AllPairs) /\ (\A i \in Range(n.todo) : ItemOK(n, i))
      /\ (n.step.kind = "none" \/ StepOK(n.step))
      /\ n.at \in {"next", "space", "list"} /\ n.at \in StagesOf(n.op) /\ DOMAIN n = Fields
  BY <1>1, <1>2
<1> HIDE DEF n
<1>5. VisitsOK(n) /\ ~Writing(n)
  BY <1>3, NoVisits
<1>6. n.cur \in AllPairs /\ CurOK(n)
  <2>1. <<>> \in MaybePaths
    BY DEF MaybePaths
  <2> QED  BY <1>3, <1>4, <2>1, PairIs, CurIdle
<1>7. OutOK(n)
  BY <1>3 DEF OutOK
<1>8. n.later \in Seq(FullPairs) /\ \A l \in Range(n.later) : l.from # l.to
  BY <1>3, EmptyRange
<1>9. JobOK(n)
  BY <1>3, <1>4, <1>5, <1>6, <1>7, <1>8 DEF JobOK
<1>10. JobOK(job'[j]) /\ ~Writing(job'[j]) /\ job'[j].at # "copying"
  BY <1>4, <1>5, <1>9 DEF n
<1> QED  BY ONLY Grows, Core, <1>01, <1>1, <1>10, UserKept

-------------------------------------------------------------------------------
(* Commands, and undo.                                                     *)

(* The items of a command, or of an undo: one for each argument.           *)
LEMMA ItemsOf ==
  ASSUME NEW S, NEW s \in Seq(S), NEW t, DOMAIN t = DOMAIN s, t = [i \in DOMAIN t |-> t[i]], \A i \in DOMAIN s : t[i] \in AllPairs
  PROVE  t \in Seq(AllPairs) /\ \A x \in Range(t) : \E i \in DOMAIN s : x = t[i]
<1>1. DOMAIN s = 1 .. Len(s) /\ Len(s) \in Nat
  OBVIOUS
<1>2. t = [i \in 1 .. Len(s) |-> t[i]] /\ \A i \in 1 .. Len(s) : t[i] \in AllPairs
  BY <1>1
<1>3. t \in Seq(AllPairs)
  BY <1>1, <1>2
<1> QED  BY <1>3 DEF Range

LEMMA KeepsCommand ==
  ASSUME Grows, Core, Together = {}, NEW j \in Slots, NEW c \in Commands, Command(j, c)
  PROVE  Core'
<1>1. job[j].at = "unused" /\ (\A i \in Slots : ~Active(i)) /\ UNCHANGED <<fs, disk, info, undo>>
  BY DEF Command, Free, Beside
<1> DEFINE items == [i \in DOMAIN c.args |-> Pair(c.args[i], <<>>)]
           n == job'[j]
<1>2. PICK policy \in Policies(c) :
        job' = Put(j, [op |-> c.op, at |-> FirstStage(c.op), args |-> c.args, dest |-> c.dest, policy |-> policy, was |-> View, todo |-> items])
  BY DEF Command
<1> DEFINE r == [op |-> c.op, at |-> FirstStage(c.op), args |-> c.args, dest |-> c.dest, policy |-> policy, was |-> View, todo |-> items]
<1>3. DOMAIN r = {"op", "at", "args", "dest", "policy", "was", "todo"} /\ r.op = c.op /\ r.at = FirstStage(c.op) /\ r.dest = c.dest
      /\ r.policy = policy /\ r.todo = items /\ job' = Put(j, r)
  BY <1>2
<1> HIDE DEF r
<1>4. c.args \in Seq(Paths) /\ c.op \in {"copy", "move", "trash", "remove", "restore", "empty"} /\ c.dest \in MaybePaths
      /\ (c.op \in {"copy", "move", "empty"} => c.dest # <<>>) /\ (c.op = "empty" => c.dest \in {<<t>> : t \in TrashDirs})
      /\ (c.op = "restore" => Range(c.args) \subseteq Trashed)
  BY CommandsAssumption DEF MaybePaths, Trashed
<1>5. \A p \in Range(c.args) : c.op = "move" => Parent(p) # c.dest
  BY DEF Command, Refused
<1>6. /\ \A i \in DOMAIN c.args : c.args[i] \in Paths /\ c.args[i] \in Range(c.args) /\ c.args[i] # <<>>
      /\ items = [i \in DOMAIN items |-> items[i]] /\ DOMAIN items = DOMAIN c.args
      /\ \A i \in DOMAIN c.args : items[i] = Pair(c.args[i], <<>>)
  <2>1. \A i \in DOMAIN c.args : c.args[i] \in Paths /\ c.args[i] \in Range(c.args)
    BY <1>4 DEF Range
  <2>2. \A p \in Paths : p # <<>>
    BY PathsAssumption
  <2>3. items = [i \in DOMAIN items |-> items[i]] /\ DOMAIN items = DOMAIN c.args
        /\ \A i \in DOMAIN c.args : items[i] = Pair(c.args[i], <<>>)
    OBVIOUS
  <2> HIDE DEF items
  <2> QED  BY <2>1, <2>2, <2>3
<1> HIDE DEF items
<1>7. \A i \in DOMAIN c.args : items[i] \in AllPairs /\ items[i].from = c.args[i]
  <2>1. <<>> \in MaybePaths /\ \A p \in Paths : p \in MaybePaths
    BY DEF MaybePaths
  <2> QED  BY <1>6, <2>1, PairIs
<1>8. items \in Seq(AllPairs) /\ \A x \in Range(items) : \E i \in DOMAIN c.args : x = items[i]
  BY <1>4, <1>6, <1>7, ItemsOf
<1>9. DOMAIN r \subseteq Starting /\ {"op", "at", "todo"} \subseteq DOMAIN r
  BY <1>3 DEF Starting
<1>10. job' = Put(j, r) /\ job[j].at = "unused"
  BY <1>1, <1>3
<1>11. /\ \A x \in DOMAIN r : n[x] = r[x]
       /\ \A x \in Fields \ DOMAIN r : n[x] = Fresh[x]
  BY ONLY Core, <1>9, <1>10, Starts
<1>12. n.op = c.op /\ n.at = FirstStage(c.op) /\ n.dest = c.dest /\ n.policy = policy /\ n.step = NoStep
  BY <1>3, <1>11 DEF Fields, Fresh
<1> HIDE DEF n
<1>13. \A i \in Range(items) : ItemOK(n, i)
  <2> TAKE x \in Range(items)
  <2>1. PICK i \in DOMAIN c.args : x = items[i]
    BY <1>8
  <2>2. x.from = c.args[i] /\ x.from \in Range(c.args) /\ x.from # <<>>
    BY <1>6, <1>7, <2>1
  <2> QED  BY <1>4, <1>5, <1>12, <2>2 DEF ItemOK, SecondLoop, FirstLoop, FirstStage
<1>14. r.at \in {"next", "space", "list"} /\ r.at \in StagesOf(r.op)
  BY <1>3, <1>4 DEF FirstStage, StagesOf
<1>15. policy \in {"KeepBoth", "Replace", "Skip"} /\ (r.op \notin {"copy", "move"} => policy = "KeepBoth")
  BY <1>3 DEF Policies
<1>16. UndoOK(undo')
  BY <1>1 DEF Core, UndoOK
<1>17. \A i \in Slots : i # j => ~Active(i)
  BY <1>1
<1>18. /\ job'[j].policy \in {"KeepBoth", "Replace", "Skip"} /\ (r.op \notin {"copy", "move"} => job'[j].policy = "KeepBoth")
       /\ job'[j].dest \in MaybePaths /\ (r.op \in {"copy", "move"} => job'[j].dest \in Paths)
       /\ (r.op = "empty" => job'[j].dest \in {<<t>> : t \in TrashDirs})
       /\ (job'[j].step.kind = "none" \/ StepOK(job'[j].step))
  BY <1>3, <1>4, <1>12, <1>15 DEF n, NoStep, MaybePaths
<1>19. r.todo \in Seq(AllPairs) /\ \A i \in Range(r.todo) : ItemOK(job'[j], i)
  BY <1>3, <1>8, <1>13 DEF n
<1>20. UNCHANGED <<fs, disk, info>>
  BY <1>1
<1> QED  BY ONLY Grows, Core, <1>9, <1>10, <1>14, <1>16, <1>17, <1>18, <1>19, <1>20, NewJob

LEMMA KeepsUndo == ASSUME Grows, Core, Together = {}, NEW j \in Slots, Undo(j) PROVE Core'
<1> DEFINE step == Last(undo)
           op == UndoOp(step.kind)
           arg(p) == IF op = "moveBack" THEN p ELSE Pair(p.to, <<>>)
           items == [i \in DOMAIN step.pairs |-> arg(step.pairs[i])]
           n == job'[j]
<1>1. job[j].at = "unused" /\ (\A i \in Slots : ~Active(i)) /\ UNCHANGED <<fs, disk, info>> /\ undo # <<>> /\ undo' = Front(undo)
  BY DEF Undo, Free, Beside
<1>2. UndoOK(undo') /\ StepOK(step)
  BY <1>1, UndoShrinks DEF Core, UndoOK
<1> DEFINE r == [op |-> op, at |-> "next", step |-> step, todo |-> items]
<1>3. DOMAIN r = {"op", "at", "step", "todo"} /\ r.op = op /\ r.at = "next" /\ r.step = step /\ r.todo = items /\ job' = Put(j, r)
  BY DEF Undo
<1> HIDE DEF r
<1>4. op \in {"trash", "restore", "moveBack"} /\ (op = "restore" <=> step.kind = "trash")
  BY <1>2 DEF UndoOp, StepOK
<1>5. step.pairs \in Seq(FullPairs) /\ (op = "restore" => \A i \in DOMAIN step.pairs : step.pairs[i].to \in Trashed)
  BY <1>2, <1>4 DEF StepOK
<1>6. /\ items = [i \in DOMAIN items |-> items[i]] /\ DOMAIN items = DOMAIN step.pairs
      /\ \A i \in DOMAIN step.pairs : /\ items[i] = arg(step.pairs[i]) /\ step.pairs[i] \in FullPairs
  BY <1>5
<1> HIDE DEF items, step, op
<1>7. \A i \in DOMAIN step.pairs : items[i] \in AllPairs /\ items[i].from \in Paths /\ (op = "moveBack" => items[i].to \in Paths)
                                   /\ (op = "restore" => items[i].from \in Trashed)
  <2> TAKE i \in DOMAIN step.pairs
  <2>1. step.pairs[i].from \in Paths /\ step.pairs[i].to \in Paths /\ step.pairs[i] \in AllPairs /\ <<>> \in MaybePaths
    BY <1>6 DEF FullPairs, AllPairs, MaybePaths
  <2>2. Pair(step.pairs[i].to, <<>>) \in AllPairs /\ Pair(step.pairs[i].to, <<>>).from = step.pairs[i].to
    BY <2>1, PairIs DEF MaybePaths
  <2> QED  BY <1>5, <1>6, <2>1, <2>2
<1>8. items \in Seq(AllPairs) /\ \A x \in Range(items) : \E i \in DOMAIN step.pairs : x = items[i]
  BY <1>5, <1>6, <1>7, ItemsOf
<1>9. DOMAIN r \subseteq Starting /\ {"op", "at", "todo"} \subseteq DOMAIN r
  BY <1>3 DEF Starting
<1>10. job' = Put(j, r) /\ job[j].at = "unused"
  BY <1>1, <1>3
<1>11. /\ \A x \in DOMAIN r : n[x] = r[x]
       /\ \A x \in Fields \ DOMAIN r : n[x] = Fresh[x]
  BY ONLY Core, <1>9, <1>10, Starts
<1>12. n.op = op /\ n.at = "next" /\ n.dest = <<>> /\ n.policy = "KeepBoth" /\ n.step = step
  BY <1>3, <1>11 DEF Fields, Fresh
<1> HIDE DEF n
<1>13. \A i \in Range(items) : ItemOK(n, i)
  <2> TAKE x \in Range(items)
  <2>1. PICK i \in DOMAIN step.pairs : x = items[i]
    BY <1>8
  <2>2. x.from \in Paths /\ (op = "moveBack" => x.to \in Paths) /\ (op = "restore" => x.from \in Trashed) /\ x.from # <<>>
    BY <1>7, <2>1, PathsAssumption
  <2> QED  BY <1>4, <1>12, <2>2 DEF ItemOK, SecondLoop, FirstLoop
<1>14. r.at \in {"next", "space", "list"} /\ r.at \in StagesOf(r.op)
  BY <1>3, <1>4 DEF StagesOf
<1>16. UndoOK(undo') /\ UNCHANGED <<fs, disk, info>>
  BY <1>1, <1>2
<1>17. \A i \in Slots : i # j => ~Active(i)
  BY <1>1
<1>18. /\ job'[j].policy \in {"KeepBoth", "Replace", "Skip"} /\ (r.op \notin {"copy", "move"} => job'[j].policy = "KeepBoth")
       /\ job'[j].dest \in MaybePaths /\ (r.op \in {"copy", "move"} => job'[j].dest \in Paths)
       /\ (r.op = "empty" => job'[j].dest \in {<<t>> : t \in TrashDirs})
       /\ (job'[j].step.kind = "none" \/ StepOK(job'[j].step))
  BY <1>2, <1>3, <1>4, <1>12 DEF n, MaybePaths
<1>19. r.todo \in Seq(AllPairs) /\ \A i \in Range(r.todo) : ItemOK(job'[j], i)
  BY <1>3, <1>8, <1>13 DEF n
<1> QED  BY ONLY Grows, Core, <1>9, <1>10, <1>14, <1>16, <1>17, <1>18, <1>19, NewJob

-------------------------------------------------------------------------------
(* Cancel, the done callback, and the start.                               *)

LEMMA KeepsCancel == ASSUME Grows, Core, NEW j \in Slots, Cancel(j) PROVE Core'
<1> DEFINE n == job'[j]
           o == job[j]
           r == [cancel |-> TRUE]
<1>1. Active(j) /\ UNCHANGED <<fs, disk, info, undo>> /\ job' = Put(j, r) /\ DOMAIN r = {"cancel"} /\ r.cancel = TRUE
  BY DEF Cancel
<1> HIDE DEF r
<1>2. DOMAIN r \subseteq Fields /\ job' = Put(j, r)
  BY <1>1 DEF Fields
<1>3. NoOther(j) /\ SameBut(n, o, DOMAIN r) /\ \A x \in DOMAIN r : n[x] = r[x]
  BY ONLY Core, <1>2, PutCore
<1>4. /\ DOMAIN n = Fields /\ n.cancel = TRUE /\ \A x \in Fields \ {"cancel"} : n[x] = o[x]
  BY <1>1, <1>3 DEF SameBut
<1>5. /\ n.op = o.op /\ n.at = o.at /\ n.todo = o.todo /\ n.later = o.later /\ n.dest = o.dest /\ n.policy = o.policy /\ n.cur = o.cur
      /\ n.stack = o.stack /\ n.ok = o.ok /\ n.out = o.out /\ n.step = o.step
  BY <1>4 DEF Fields
<1>6. JobOK(o) /\ WriteOK(fs, disk, o) /\ CopyOK(fs, o) /\ o.at # "unused"
  BY <1>1 DEF Core, Active
<1>7. NoOther(j) /\ Active(j)
  BY <1>1, <1>3
<1>8. job'[j] = n /\ job[j] = o
  OBVIOUS
<1> HIDE DEF n, o
<1>9. \A i : ItemOK(o, i) <=> ItemOK(n, i)
  BY <1>5 DEF ItemOK, FirstLoop, SecondLoop
<1>10. CurOK(n) /\ OutOK(n) /\ VisitsOK(n)
  BY <1>5, <1>6 DEF JobOK, CurOK, OutOK, VisitsOK
<1>11. JobOK(n)
  BY <1>4, <1>5, <1>6, <1>9, <1>10 DEF JobOK
<1>12. (Writing(n) <=> Writing(o)) /\ WriteOK(fs, disk, n) /\ CopyOK(fs, n)
  BY <1>5, <1>6 DEF WriteOK, CopyOK, Writing, Hollow
<1>13. fs' = fs /\ disk' = disk /\ info' = info /\ undo' = undo
  BY <1>1
<1>14. \A i \in Slots : i # j => job'[i] = job[i]
  BY <1>7 DEF NoOther
<1>15. \A i \in Slots : JobOK(job'[i]) /\ WriteOK(fs', disk', job'[i]) /\ CopyOK(fs', job'[i])
  BY <1>8, <1>11, <1>12, <1>13, <1>14 DEF Core
<1>16. \A i \in Slots : job'[i].at = job[i].at
  BY <1>5, <1>8, <1>14
<1>17. \A i \in Slots : Writing(job'[i]) <=> Writing(job[i])
  BY <1>8, <1>12, <1>14
<1>18. \A i \in Slots : job'[i].stack = job[i].stack
  BY <1>5, <1>8, <1>14
<1>19. HalfOK'
  BY <1>13, <1>17, <1>18 DEF Core, HalfOK, Fine, Grows
<1> QED  BY <1>7, <1>13, <1>15, <1>16, <1>19 DEF Core, NoOther, Active

LEMMA KeepsCallback == ASSUME Grows, Core, NEW j \in Slots, Callback(j) PROVE Core'
<1> DEFINE n == job'[j]
           o == job[j]
           r == [at |-> "ended"]
<1>1. o.at = "returned" /\ UNCHANGED <<fs, disk, info>> /\ job' = Put(j, r) /\ DOMAIN r = {"at"} /\ r.at = "ended"
  BY DEF Callback, At
<1> HIDE DEF r
<1>2. DOMAIN r \subseteq Fields /\ job' = Put(j, r)
  BY <1>1 DEF Fields
<1>3. NoOther(j) /\ SameBut(n, o, DOMAIN r) /\ \A x \in DOMAIN r : n[x] = r[x]
  BY ONLY Core, <1>2, PutCore
<1>4. /\ DOMAIN n = Fields /\ n.at = "ended" /\ \A x \in Fields \ {"at"} : n[x] = o[x]
  BY <1>1, <1>3 DEF SameBut
<1>5. /\ n.op = o.op /\ n.todo = o.todo /\ n.later = o.later /\ n.dest = o.dest /\ n.policy = o.policy /\ n.cur = o.cur
      /\ n.stack = o.stack /\ n.ok = o.ok /\ n.out = o.out /\ n.step = o.step /\ n.cancel = o.cancel
  BY <1>4 DEF Fields
<1>6. JobOK(o) /\ o.at # "unused" /\ Active(j) /\ \A i \in Slots : i # j => ~Active(i)
  BY <1>1 DEF Core, Active
<1>7. UndoOK(undo')
  <2> DEFINE s == [kind |-> o.op, pairs |-> o.out, was |-> o.was, clean |-> Clean(j)]
  <2>1. UndoOK(undo)
    BY DEF Core, UndoOK
  <2>2. CASE undo' = undo
    BY <2>1, <2>2
  <2>3. CASE o.op \in {"copy", "move", "trash"} /\ undo' = Pushed(s)
    <3>1. s.kind = o.op /\ s.pairs = o.out
      OBVIOUS
    <3> HIDE DEF s
    <3>2. StepOK(s)
      BY <1>6, <2>3, <3>1 DEF StepOK, JobOK, OutOK
    <3>3. undo \in Seq(Range(undo))
      BY <2>1 DEF UndoOK
    <3>4. Len(undo) >= MaxUndo => undo # <<>>
      BY <3>3 DEF MaxUndo
    <3>5. undo' = Append(undo, s) \/ (undo # <<>> /\ undo' = Append(Tail(undo), s))
      BY <2>3, <3>3, <3>4 DEF Pushed, MaxUndo
    <3> QED  BY <2>1, <3>2, <3>5, UndoGrows
  <2>4. CASE o.step.kind # "none" /\ undo' = Append(undo, o.step)
    <3>1. StepOK(o.step)
      BY <1>6, <2>4 DEF JobOK
    <3> QED  BY <2>1, <2>4, <3>1, UndoGrows
  <2> QED  BY <2>2, <2>3, <2>4 DEF Callback
<1>8. n.at \in StagesOf(o.op)
  BY <1>1, <1>4, <1>6 DEF JobOK, StagesOf
<1>9. o.stack = <<>> /\ ~Writing(o)
  BY <1>1, <1>6 DEF JobOK, VisitsOK, Walking, Writing
<1>10. job'[j] = n /\ job[j] = o
  OBVIOUS
<1> HIDE DEF n, o
<1>11. \A i : ItemOK(o, i) => ItemOK(n, i)
  BY <1>4, <1>5 DEF ItemOK, FirstLoop, SecondLoop
<1>12. CurOK(n) /\ OutOK(n)
  BY <1>4, <1>5, <1>6, CurIdle DEF JobOK, OutOK
<1>13. VisitsOK(n) /\ ~Writing(n)
  BY <1>5, <1>9, NoVisits
<1>14. JobOK(n)
  BY <1>4, <1>5, <1>6, <1>8, <1>11, <1>12, <1>13 DEF JobOK
<1>15. JobOK(job'[j]) /\ ~Writing(job[j]) /\ ~Writing(job'[j]) /\ job'[j].at # "copying"
  BY <1>4, <1>9, <1>10, <1>13, <1>14
<1>16. (\A i \in Slots : i # j => ~Active(i)) /\ NoOther(j) /\ UNCHANGED <<fs, disk, info>> /\ UndoOK(undo')
  BY <1>1, <1>3, <1>6, <1>7
<1> QED  BY ONLY Grows, Core, <1>15, <1>16, UserKept

(* The start: every file whole, nothing recorded, nothing running.         *)
LEMMA FilesAtFirst == ASSUME FilesInit PROVE BInv
<1>1. TreeOK(fs)
  <2>1. \A p, q \in Paths : IsPrefix(p, q) /\ p # q <=> IsStrictPrefix(p, q)
    BY DEF IsStrictPrefix
  <2> QED  BY <2>1, PlacesAssumption DEF TreeOK, FilesInit
<1>2. disk \in [Inodes -> [1 .. Chunks -> Files \cup {0}]]
  BY DEF FilesInit
<1>3. info \in [Trashed -> Records]
  BY DEF FilesInit, Records, MaybePaths
<1>4. undo \in Seq(Range(undo)) /\ \A s \in Range(undo) : StepOK(s)
  <2>1. undo = <<>> /\ Range(<<>>) = {}
    BY EmptyRange DEF FilesInit
  <2> QED  BY <2>1
<1>5. DOMAIN job = Slots /\ \A j \in Slots : job[j] = Fresh
  BY DEF FilesInit
<1>6. JobOK(Fresh) /\ ~Writing(Fresh) /\ Fresh.at = "unused"
  <2> DEFINE r == Fresh
  <2>1. /\ DOMAIN r = Fields /\ r.op = "none" /\ r.at = "unused" /\ r.todo = <<>> /\ r.later = <<>> /\ r.dest = <<>>
        /\ r.policy = "KeepBoth" /\ r.cur = Pair(<<>>, <<>>) /\ r.stack = <<>> /\ r.ok = TRUE /\ r.cancel = FALSE /\ r.step.kind = "none"
    BY DEF Fresh, Fields, NoStep
  <2>2. r = Fresh
    OBVIOUS
  <2> HIDE DEF r
  <2>3. <<>> \in MaybePaths
    BY DEF MaybePaths
  <2>4. r.cur \in AllPairs /\ CurOK(r)
    BY <2>1, <2>3, PairIs, CurIdle
  <2>5. VisitsOK(r) /\ ~Writing(r)
    BY <2>1, NoVisits
  <2>6. OutOK(r) /\ r.at \in StagesOf(r.op)
    BY <2>1 DEF OutOK, StagesOf
  <2>7. /\ r.todo \in Seq(AllPairs) /\ (\A i \in Range(r.todo) : ItemOK(r, i))
        /\ r.later \in Seq(FullPairs) /\ \A l \in Range(r.later) : l.from # l.to
    BY <2>1, EmptyRange
  <2>8. JobOK(r)
    BY <2>1, <2>2, <2>3, <2>4, <2>5, <2>6, <2>7 DEF JobOK
  <2> QED  BY <2>1, <2>2, <2>5, <2>8
<1>7. \A j \in Slots : JobOK(job[j]) /\ WriteOK(fs, disk, job[j]) /\ CopyOK(fs, job[j]) /\ ~Active(j)
  BY <1>5, <1>6 DEF WriteOK, CopyOK, Active
<1>8. HalfOK
  <2> SUFFICES ASSUME NEW p \in Paths, fs[p] \in Inodes PROVE Fine(disk[fs[p]])
    BY DEF HalfOK
  <2>1. Tree[p] \in Files /\ fs[p] = Tree[p]
    BY DataAssumption DEF FilesInit, Files, NoEnt, Dir
  <2>2. disk[fs[p]] = [k \in 1 .. Chunks |-> Tree[p]]
    BY <2>1 DEF FilesInit
  <2> QED  BY <2>1, <2>2 DEF Fine, AllOf
<1>9. faults \in Tally /\ spent \subseteq Files
  <2>1. 0 \in 0 .. MaxFaults
    <3>1. MaxFaults \in Nat
      BY PlacesAssumption, Zenon
    <3> QED  BY ONLY <3>1
  <2> QED  BY <2>1 DEF FilesInit, Tally
<1> QED  BY <1>1, <1>2, <1>3, <1>4, <1>5, <1>7, <1>8, <1>9 DEF BInv, Core

-------------------------------------------------------------------------------
(* The invariant, and that no half file stays.                             *)

Noted == faults' \in Tally /\ Grows
LEMMA FaultNoted ==
  ASSUME faults \in Tally, NEW kind, NEW half \in SUBSET [1 .. Chunks -> Files \cup {0}], NEW records \in SUBSET Trashed,
         FaultLeaving(kind, half, records)
  PROVE  Noted
<1>1. MaxFaults \in Nat
  BY PlacesAssumption
<1> DEFINE D == [1 .. Chunks -> Files \cup {0}]
<1>2. half \in SUBSET D /\ faults \in [n : 0 .. MaxFaults, half : SUBSET D, records : SUBSET Trashed]
  BY DEF Tally
<1> HIDE DEF D
<1>3. faults' \in [n : 0 .. MaxFaults, half : SUBSET D, records : SUBSET Trashed] /\ Grows
  BY <1>1, <1>2 DEF FaultLeaving, Grows
<1> QED  BY <1>3 DEF Noted, Tally, D

LEMMA FaultCount ==
  ASSUME NEW j \in Slots, FilesNext, faults \in Tally, Core
  PROVE  Noted
<1>1. UNCHANGED faults => Noted
  BY DEF Noted, Grows
<1>2. \A kind : Fault(kind) => Noted
  BY FaultNoted DEF Fault
<1>3. \A kind, must : Fails(kind, must) => Noted
  BY <1>1, <1>2 DEF Fails
<1>4. \A must : Works(must) => Noted
  BY <1>1 DEF Works
<1>5. \A b, kind : TargetStays(b, kind) => Noted
  <2> TAKE b, kind
  <2> HAVE TargetStays(b, kind)
  <2>1. fs[b] \in Inodes
    BY DEF TargetStays, IsFile
  <2>2. {disk[fs[b]]} \in SUBSET [1 .. Chunks -> Files \cup {0}]
    BY <2>1 DEF Core
  <2>3. FaultLeaving(kind, {disk[fs[b]]}, {})
    BY DEF TargetStays
  <2> QED  BY <2>2, <2>3, FaultNoted
<1>6. \A p \in Trashed : Forget(p) => Noted
  <2> TAKE p \in Trashed
  <2> HAVE Forget(p)
  <2>1. UNCHANGED faults \/ FaultLeaving("unlink", {}, {p})
    BY DEF Forget
  <2> QED  BY <1>1, <2>1, FaultNoted
<1>7. ASSUME NEW i \in Slots, TreeStep(i) PROVE Noted
  BY <1>1, <1>2, <1>3, <1>4, <1>5, <1>7, Zenon
     DEF TreeStep, CopyDir, LeaveDir, OpenFile, CopyNothing, WriteChunk, EnterDir, RemoveEntry, SeeCancel
<1>8. ASSUME NEW i \in Slots, TrashItem(i) PROVE Noted
  <2>1. ASSUME NEW q \in FirstOpen(<<TrashOf[Head(Item(i).from)], Last(Item(i).from)>>, {r \in Trashed : fs[r] = NoEnt /\ info[r] = <<>>}),
               FaultLeaving("record", {}, {q})
        PROVE  Noted
    <3>1. q \in Trashed
      BY FirstOpenIn
    <3> QED  BY <2>1, <3>1, FaultNoted
  <2> QED  BY <1>1, <1>2, <1>8, <2>1, Zenon DEF TrashItem
<1>9. ASSUME NEW i \in Slots, Rename(i) \/ Removed(i) \/ Unrecord(i) PROVE Noted
  <2>1. job[i].at \in {"rename", "removing", "unrecord"}
    BY <1>9 DEF Rename, Removed, Unrecord, WalkDone, At
  <2>2. (job[i].op = "restore" => job[i].cur.from \in Trashed) /\ (job[i].op = "trash" => job[i].cur.to \in Trashed)
        /\ (job[i].at = "unrecord" => job[i].op = "trash")
    BY <2>1 DEF Core, JobOK, CurOK, StagesOf
  <2>3. CASE Rename(i)
    BY <1>1, <1>3, <1>6, <2>2, <2>3 DEF Rename
  <2>4. CASE Unrecord(i)
    BY <1>6, <2>2, <2>4 DEF Unrecord, At
  <2>5. CASE Removed(i)
    <3>1. UNCHANGED faults \/ (job[i].op = "restore" /\ Forget(job[i].cur.from))
      <4>1. job[i].op \in {"move", "moveBack", "restore", "trash", "remove", "empty"} /\ job[i].ok \in BOOLEAN
        BY <2>5 DEF Core, JobOK, StagesOf, Removed, WalkDone, At
      <4> QED  BY <2>5, <4>1 DEF Removed
    <3> QED  BY <1>1, <1>6, <2>2, <3>1
  <2> QED  BY <1>9, <2>3, <2>4, <2>5
<1>10. ASSUME NEW i \in Slots, ForgetDeleted(i) PROVE Noted
  <2>1. PICK stays \in SUBSET Trashed : IF stays = {} THEN UNCHANGED faults ELSE FaultLeaving("unlink", {}, stays)
    BY <1>10 DEF ForgetDeleted
  <2> QED  BY <1>1, <2>1, FaultNoted
<1>11. ASSUME NEW i \in Slots, CallStep(i) PROVE Noted
  BY <1>1, <1>2, <1>3, <1>4, <1>8, <1>9, <1>10, <1>11, Zenon DEF CallStep, Measure, LoopOver, TransferItem, MoveBackItem, RemoveItem, ListTrash,
     RemoveRecord, RestoreItem, CopyAcross, Cleared, Copied, Unwound
<1> QED  BY <1>1, <1>7, <1>11 DEF FilesNext, WorkerStep, Callback, Cancel, Undo, Command

LEMMA KeepsFilesNext ==
  ASSUME Together = {}, "flush" \notin FaultKinds, BInv, [FilesNext]_filesVars
  PROVE  BInv'
<1>1. CASE UNCHANGED filesVars
  <2>1. UNCHANGED <<fs, disk, info, job, undo, faults, spent>>
    BY <1>1 DEF filesVars
  <2>2. Core'
    BY <2>1 DEF BInv, Core, HalfOK, Fine, Active
  <2> QED  BY <2>1, <2>2 DEF BInv
<1>2. ASSUME NEW j \in Slots, Grows, WorkerStep(j) PROVE Core' /\ spent' \subseteq Files
  <2>1. Core'
    BY <1>2, KeepsTreeStep, KeepsCallStep DEF WorkerStep, BInv
  <2>2. Kept \subseteq Files
    BY DEF Kept
  <2> QED  BY <1>2, <2>1, <2>2 DEF WorkerStep, BInv
<1>3. ASSUME NEW j \in Slots, Grows, Callback(j) \/ Cancel(j) \/ Undo(j) \/ \E c \in Commands : Command(j, c)
      PROVE  Core' /\ spent' \subseteq Files
  <2>1. Core'
    BY <1>3, KeepsCallback, KeepsCancel, KeepsUndo, KeepsCommand DEF BInv
  <2>2. UNCHANGED spent
    BY <1>3 DEF Callback, Cancel, Undo, Command
  <2> QED  BY <2>1, <2>2 DEF BInv
<1>4. CASE FilesNext
  <2>1. faults' \in Tally /\ Grows
    BY <1>4, FaultCount DEF BInv, FilesNext, Noted
  <2>2. Core' /\ spent' \subseteq Files
    BY <1>2, <1>3, <1>4, <2>1 DEF FilesNext
  <2> QED  BY <2>1, <2>2 DEF BInv
<1> QED  BY <1>1, <1>4

(* The inductive invariant holds at the start, and every step keeps it.   *)
LEMMA FilesInvariant ==
  ASSUME Together = {}, "flush" \notin FaultKinds
  PROVE  FilesSpec => []BInv
<1>1. FilesInit => BInv
  BY FilesAtFirst
<1>2. BInv /\ [FilesNext]_filesVars => BInv'
  BY KeepsFilesNext
<1> QED  BY <1>1, <1>2, PTL DEF FilesSpec

LEMMA FilesTyped == ASSUME BInv PROVE FilesTypeOK
<1>1. Core /\ faults \in Tally /\ spent \subseteq Files
  BY DEF BInv
<1>2. fs \in [Paths -> {NoEnt, Dir} \cup Inodes] /\ disk \in [Inodes -> [1 .. Chunks -> Files \cup {0}]]
  BY <1>1 DEF Core, TreeOK
<1>3. \A p \in Trashed : info[p] \in Paths \cup {<<>>, Blank}
  BY <1>1 DEF Core, Records, MaybePaths
<1>4. ASSUME NEW j \in Slots
      PROVE  /\ job[j].at \in {"unused", "space", "list", "next", "next2", "rename", "measure", "clearing", "copying", "removing",
                               "unwinding", "unrecord", "forget", "returned", "ended"}
             /\ job[j].stack # <<>> => job[j].at \in {"clearing", "copying", "removing", "unwinding"}
  <2>1. JobOK(job[j])
    BY <1>1 DEF Core
  <2>2. job[j].at \in StagesOf(job[j].op)
    BY <2>1 DEF JobOK
  <2> QED  BY <2>1, <2>2 DEF JobOK, StagesOf, VisitsOK, Walking
<1> QED  BY <1>1, <1>2, <1>3, <1>4 DEF FilesTypeOK, Tally

(* Type correctness: at every step of every job (FileJobs.cpp) the tree,   *)
(* the data, the trash records and the jobs are of their kinds, and only   *)
(* a walk has visits to make.                                              *)
THEOREM FilesTyping ==
  ASSUME Together = {}, "flush" \notin FaultKinds
  PROVE  FilesSpec => []FilesTypeOK
<1>1. BInv => FilesTypeOK
  BY FilesTyped
<1> QED  BY <1>1, FilesInvariant, PTL

(* A cancel or a failed open, write, mkdir or rename, wherever it lands,   *)
(* leaves no half file once nothing is running: copyFileChunked            *)
(* (FileJobs.cpp:245) removes its target, and nothing but the file being   *)
(* written is ever half.  That removal may fail unseen: then a half file    *)
(* is there, and whole copies of it may be, and no others are.  One        *)
(* command at a time, and no failing flush.                                *)
THEOREM FilesAreWhole ==
  ASSUME Together = {}, "flush" \notin FaultKinds
  PROVE  FilesSpec => []NoHalfFile
<1>1. BInv => NoHalfFile
  <2> SUFFICES ASSUME BInv, Quiet, NEW p \in Paths, IsFile(fs, p)
                  PROVE  (\E f \in Files : Whole(p, f)) \/ disk[fs[p]] \in faults.half
    BY DEF NoHalfFile
  <2>1. ~\E j \in Slots : Writing(job[j])
    BY DEF BInv, Core, Quiet, Active, JobOK, VisitsOK, Walking, Writing
  <2> QED  BY <2>1 DEF BInv, Core, HalfOK, IsFile, Fine, Whole, AllOf
<1> QED  BY <1>1, FilesInvariant, PTL

-------------------------------------------------------------------------------
(***************************************************************************)
(* Nothing is lost, and callers are told the truth.  Neither is inductive. *)
(* Each rests on what a job in the middle of an item has still to answer   *)
(* for: that every file has a whole copy away from the place a walk is     *)
(* about to take down or write over (WalkSafe, which rests in turn on a    *)
(* copy's having covered everything below its source), that what was there *)
(* is still there or already across (Truthful), and that a place which     *)
(* freePath found free is still free when its turn comes, though other     *)
(* items of the list went first (ListsOK, PlacesOK).                       *)
(***************************************************************************)

(* What is assumed.  A trash is on the drive of what goes into it.         *)
TrashNearby == \A p \in Paths : VolumeOf(<<TrashOf[Head(p)]>>) = VolumeOf(p)
(* The names a source may get in a folder.  No two sources of a move may   *)
(* get the same one.                                                       *)
Landings(d, p) == Range(Numbered(Append(d, Last(p))))
NamesApart == \A c \in Commands : c.op = "move" =>
                \A i, k \in DOMAIN c.args : i # k => Landings(c.dest, c.args[i]) \cap Landings(c.dest, c.args[k]) = {}
(* Nothing is copied or moved up to where a folder it is in would be       *)
(* replaced by it.                                                         *)
NotOverItsFolder == \A c \in Commands : c.op \in {"copy", "move"} =>
                      \A p \in Range(c.args) : ~IsStrictPrefix(Append(c.dest, Last(p)), p)

Apart(a, b) == ~IsPrefix(a, b) /\ ~IsPrefix(b, a)
Deletes(r) == r.op \in {"remove", "empty"}
Yields(r) == r.policy = "Replace"
HasFile(t, data, p, f) == t[p] \in Inodes /\ data[t[p]] = AllOf(f)

(* Every file not given up has a whole copy that is not at p or below it.  *)
SafeFrom(t, data, gone, p) == \A f \in Files \ gone : \E q \in Paths : ~IsPrefix(p, q) /\ HasFile(t, data, q, f)
NoneLost(t, data, gone) == \A f \in Files \ gone : \E q \in Paths : HasFile(t, data, q, f)

(* Two places are apart, if there is something at the first.               *)
Parted(t, a, b) == t[a] # NoEnt => Apart(a, b)

(* As long as nothing failed, what is below "from" is across, or is still  *)
(* to be visited.                                                          *)
Across(t, data, q, p) == p \in Paths /\ t[p] \in Inodes /\ data[t[p]] = data[t[q]]
Pending(r, q) == \E v \in Range(r.stack) : (v.do = "copy" /\ IsPrefix(v.a, q)) \/ (v.do = "write" /\ v.a = q)
Covered(t, data, r) == \A q \in Paths : IsPrefix(r.cur.from, q) /\ t[q] \in Inodes
                         => Across(t, data, q, Rebase(q, r.cur.from, r.cur.to)) \/ Pending(r, q)

(* The walks, and the rename.                                              *)
WalkSafe(t, data, gone, r) ==
  /\ r.at = "copying" => /\ Parted(t, r.cur.from, r.cur.to)
                         /\ ~Yields(r) => SafeFrom(t, data, gone, r.cur.to)
                         /\ r.ok => Covered(t, data, r)
  /\ r.at = "removing" /\ ~Deletes(r) => Parted(t, r.cur.from, r.cur.to) /\ SafeFrom(t, data, gone, r.cur.from)
  /\ r.at = "clearing" => Parted(t, r.cur.from, r.cur.to) /\ Yields(r)
  /\ r.at = "rename" => /\ ~Yields(r) => t[r.cur.to] = NoEnt
                        /\ r.op = "move" => Parted(t, r.cur.from, r.cur.to)
                        /\ r.op = "trash" => VolumeOf(r.cur.from) = VolumeOf(r.cur.to)
  /\ r.op = "trash" => r.at \notin {"copying", "removing", "unwinding"}

(* What the caller is told is true.                                        *)
Truthful(t, data, r) ==
  /\ r.op # "moveBack" => r.honest = TRUE
  /\ r.op \notin {"moveBack", "remove", "empty"} =>
       /\ r.at \in {"clearing", "rename", "copying"} => r.had \subseteq Contents(t, data, r.cur.from)
       /\ r.at = "removing" => r.had \subseteq Contents(t, data, r.cur.to)

(* What is to be copied or moved is neither around where it goes nor in    *)
(* the folder it would replace.                                            *)
Outside(d, p) == ~IsPrefix(p, d) /\ ~IsStrictPrefix(Append(d, Last(p)), p)
Transferring(r) == (r.op = "copy" /\ r.at \in {"space", "next", "copying"}) \/ FirstLoop(r)
(* What move could not rename, and has to copy.                            *)
Waiting(r) == IF FirstLoop(r) \/ (r.op = "move" /\ r.at = "measure") THEN r.later
              ELSE IF SecondLoop(r) THEN r.todo ELSE <<>>
InHand(r) == r.op = "move" /\ r.at \in {"clearing", "rename", "copying", "removing"}
ListsOK(t, r) ==
  /\ Transferring(r) => \A i \in DOMAIN r.todo : Outside(r.dest, r.todo[i].from)
  /\ InHand(r) => Parent(r.cur.to) = r.dest
  /\ \A i \in DOMAIN Waiting(r) : Parent(Waiting(r)[i].to) = r.dest /\ Apart(Waiting(r)[i].from, Waiting(r)[i].to)

(* A place found free stays free until it is used.                         *)
PlacesOK(t, r) ==
  r.op = "move" /\ ~Yields(r) =>
    /\ \A i \in DOMAIN Waiting(r) : /\ t[Waiting(r)[i].to] = NoEnt
                                    /\ InHand(r) => Waiting(r)[i].to # r.cur.to
                                    /\ \A k \in DOMAIN Waiting(r) : i # k => Waiting(r)[i].to # Waiting(r)[k].to
    /\ FirstLoop(r) =>
         \A i \in DOMAIN r.todo :
           /\ InHand(r) => r.cur.to \notin Landings(r.dest, r.todo[i].from)
           /\ \A k \in DOMAIN r.later : r.later[k].to \notin Landings(r.dest, r.todo[i].from)
           /\ \A k \in DOMAIN r.todo : i # k => Landings(r.dest, r.todo[i].from) \cap Landings(r.dest, r.todo[k].from) = {}

JobSafe(t, data, gone, r) == WalkSafe(t, data, gone, r) /\ Truthful(t, data, r) /\ ListsOK(t, r) /\ PlacesOK(t, r)
LInv == Core /\ NoneLost(fs, disk, spent) /\ \A j \in Slots : JobSafe(fs, disk, spent, job[j])

-------------------------------------------------------------------------------
(* What stays when a step leaves a place, and what is below it, alone.     *)

LEMMA PartedIs ==
  ASSUME NEW t, TreeOK(t), NEW a \in Paths, NEW b \in Paths, Parted(t, a, b), NEW q \in Paths, t[q] # NoEnt, IsPrefix(a, q)
  PROVE  Apart(a, b) /\ ~IsPrefix(b, q)
<1>1. t[a] # NoEnt
  BY Kinds DEF TreeOK
<1>2. Apart(a, b)
  BY <1>1 DEF Parted
<1>3. a \in Words /\ b \in Words /\ q \in Words
  BY PathsAreWords
<1>4. IsPrefix(a, q) /\ IsPrefix(b, q) => IsPrefix(a, b) \/ IsPrefix(b, a)
  BY <1>3, PrefixOrder
<1> QED  BY <1>2, <1>4 DEF Apart

(* A step that leaves alone the files that are not at x or below it.       *)
OnlyBelow(x) == \A q \in Paths : ~IsPrefix(x, q) /\ fs[q] \in Inodes => fs'[q] = fs[q] /\ disk'[fs[q]] = disk[fs[q]]

LEMMA SafeStays ==
  ASSUME NEW x, OnlyBelow(x), SafeFrom(fs, disk, spent, x), spent \subseteq spent'
  PROVE  SafeFrom(fs', disk', spent', x) /\ NoneLost(fs', disk', spent')
BY DEF SafeFrom, NoneLost, OnlyBelow, HasFile

LEMMA ContentsStay ==
  ASSUME NEW x, OnlyBelow(x), NEW y \in Paths, \A q \in Paths : IsPrefix(y, q) /\ fs[q] \in Inodes => ~IsPrefix(x, q)
  PROVE  Contents(fs, disk, y) \subseteq Contents(fs', disk', y)
<1> SUFFICES ASSUME NEW c \in Contents(fs, disk, y) PROVE c \in Contents(fs', disk', y)
  OBVIOUS
<1>1. PICK q \in {r \in Below[y] : fs[r] \in Inodes} : c = <<SubSeq(q, Len(y) + 1, Len(q)), disk[fs[q]]>>
  BY DEF Contents
<1>2. q \in Paths /\ IsPrefix(y, q) /\ fs[q] \in Inodes
  BY BelowIs
<1>3. fs'[q] = fs[q] /\ disk'[fs[q]] = disk[fs[q]]
  BY <1>2 DEF OnlyBelow
<1>4. q \in {r \in Below[y] : fs'[r] \in Inodes}
  BY <1>2, <1>3
<1>5. c = <<SubSeq(q, Len(y) + 1, Len(q)), disk'[fs'[q]]>>
  BY <1>1, <1>3
<1> QED  BY <1>4, <1>5 DEF Contents

LEMMA KeptIs ==
  /\ Kept = {f \in Files : \E p \in Paths : HasFile(fs, disk, p, f)}
  /\ Kept' = {f \in Files : \E p \in Paths : HasFile(fs', disk', p, f)}
  /\ \A p, f : Whole(p, f) <=> HasFile(fs, disk, p, f)
  /\ NothingLost <=> NoneLost(fs, disk, spent)
BY DEF Kept, Whole, HasFile, AllOf, NothingLost, NoneLost

Spends(j) == spent' = spent \cup ((Kept \ Kept') \cap Consented(j))

LEMMA SpentGrows == ASSUME NEW j, Spends(j) PROVE spent \subseteq spent'
BY DEF Spends

LEMMA NothingSpent == ASSUME NEW j, Spends(j), UNCHANGED <<fs, disk>> PROVE spent' = spent
<1>1. Kept' = Kept
  BY KeptIs
<1> QED  BY <1>1 DEF Spends

(* A replacement: what is in hand is still somewhere. *)
LEMMA YieldStays ==
  ASSUME NEW j \in Slots, NoneLost(fs, disk, spent), Spends(j), Yields(job[j]), job[j].at # "removing", ~Deletes(job[j]),
         \A f \in Files, p \in Paths : IsPrefix(job'[j].cur.from, p) /\ HasFile(fs, disk, p, f) => \E q \in Paths : HasFile(fs', disk', q, f)
  PROVE  NoneLost(fs', disk', spent')
<1>1. SUFFICES ASSUME NEW f \in Files \ spent' PROVE \E q \in Paths : HasFile(fs', disk', q, f)
  BY DEF NoneLost
<1>2. f \in Files \ spent
  BY SpentGrows
<1>3. f \in Kept
  BY <1>2, KeptIs DEF NoneLost
<1>4. SUFFICES ASSUME f \notin Kept' PROVE FALSE
  BY KeptIs
<1>5. \A p \in Paths : IsPrefix(job'[j].cur.from, p) => ~Whole(p, f)
  BY <1>4, KeptIs
<1>6. Consented(j) = {g \in Files : \A p \in Paths : IsPrefix(job'[j].cur.from, p) => ~Whole(p, g)}
  BY DEF Consented, Yields, Deletes
<1> QED  BY <1>2, <1>3, <1>4, <1>5, <1>6 DEF Spends

(* A deletion: whatever goes was meant to.  *)
LEMMA DeleteStays ==
  ASSUME NEW j \in Slots, NoneLost(fs, disk, spent), Spends(j), Deletes(job[j]), JobOK(job[j])
  PROVE  NoneLost(fs', disk', spent')
<1>1. Consented(j) = Files
  <2>1. job[j].policy # "Replace"
    BY DEF JobOK, Deletes
  <2> QED  BY <2>1 DEF Consented, Deletes
<1>2. spent' = spent \cup (Kept \ Kept')
  <2>1. Kept \subseteq Files
    BY KeptIs
  <2> QED  BY <1>1, <2>1 DEF Spends
<1>3. ASSUME NEW f \in Files \ spent' PROVE f \in Kept'
  BY <1>2, <1>3, KeptIs DEF NoneLost
<1> QED  BY <1>3, KeptIs DEF NoneLost

(* A job that is between two items, or not running, has nothing in hand. *)
Resting == {"unused", "ended", "returned", "forget", "list", "unrecord"}
LEMMA RestingSafe ==
  ASSUME NEW r, r.at \in Resting, r.op # "moveBack" => r.honest = TRUE
  PROVE  \A t, data, gone : JobSafe(t, data, gone, r)
<1> SUFFICES ASSUME NEW t, NEW data, NEW gone PROVE JobSafe(t, data, gone, r)
  OBVIOUS
<1>1. ~FirstLoop(r) /\ ~SecondLoop(r) /\ r.at # "measure" /\ ~Transferring(r) /\ ~InHand(r)
  BY DEF FirstLoop, SecondLoop, Resting, Transferring, InHand
<1>2. Waiting(r) = <<>> /\ DOMAIN Waiting(r) = {}
  BY <1>1 DEF Waiting
<1>3. WalkSafe(t, data, gone, r)
  BY DEF WalkSafe, Resting
<1>4. Truthful(t, data, r)
  BY DEF Truthful, Resting
<1>5. ListsOK(t, r)
  BY <1>1, <1>2 DEF ListsOK
<1>6. PlacesOK(t, r)
  BY <1>1, <1>2 DEF PlacesOK
<1> QED  BY <1>3, <1>4, <1>5, <1>6 DEF JobSafe

LEMMA StillSafe ==
  ASSUME LInv, Core', NEW j \in Slots, Active(j), NoOther(j), NoneLost(fs', disk', spent'), JobSafe(fs', disk', spent', job'[j])
  PROVE  LInv'
<1>1. ASSUME NEW i \in Slots, i # j PROVE JobSafe(fs', disk', spent', job'[i])
  <2>1. job'[i] = job[i] /\ ~Active(i) /\ JobSafe(fs, disk, spent, job[i])
    BY <1>1 DEF NoOther, LInv, Core
  <2>2. job[i].at \in Resting
    BY <2>1 DEF Active, Resting
  <2>3. job[i].op # "moveBack" => job[i].honest = TRUE
    BY <2>1 DEF JobSafe, Truthful
  <2> QED  BY <2>1, <2>2, <2>3, RestingSafe
<1> QED  BY <1>1 DEF LInv

-------------------------------------------------------------------------------
(* Where the visits of a copy write.                                       *)

(* What a visit of a copy may do to the tree: its target, and folders      *)
(* above it that are not there.                                            *)
WorksAt(b) ==
  /\ \A q \in Paths : q # b /\ fs[q] # NoEnt => fs'[q] = fs[q] /\ (fs[q] \in Inodes => disk'[fs[q]] = disk[fs[q]])
  /\ \A q \in Paths : q # b /\ fs[q] = NoEnt /\ fs'[q] # NoEnt => IsPrefix(q, b) /\ fs'[q] = Dir

LEMMA UnlinkWorks == ASSUME NEW b, fs \in [Paths -> {NoEnt, Dir} \cup Inodes], fs' = Unlink(fs, b), disk' = disk PROVE WorksAt(b)
<1>1. \A q \in Paths : q # b => fs'[q] = fs[q]
  BY DEF Unlink
<1> QED  BY <1>1 DEF WorksAt

LEMMA NothingWorks == ASSUME NEW b, UNCHANGED <<fs, disk>> PROVE WorksAt(b)
BY DEF WorksAt

LEMMA RemoveTargetWorks ==
  ASSUME NEW b, fs \in [Paths -> {NoEnt, Dir} \cup Inodes], RemoveTarget(b), disk' = disk PROVE WorksAt(b)
<1>1. fs' = Unlink(fs, b) \/ fs' = fs
  BY DEF RemoveTarget
<1> QED  BY <1>1, UnlinkWorks, NothingWorks

LEMMA CopyDirWorks ==
  ASSUME Core, NEW j \in Slots, CopyDir(j)
  PROVE  WorksAt(Top(j).b) /\ (Top(j).b \in Paths => fs'[Top(j).b] \notin Inodes) /\ disk' = disk
<1> DEFINE b == Top(j).b
           there == IF IsFile(fs, b) THEN Unlink(fs, b) ELSE fs
<1>1. job[j].stack # <<>> /\ disk' = disk /\ (fs' = there \/ (fs' = MkPath(there, b) /\ CanMkPath(there, b) /\ b \in Paths))
  BY DEF CopyDir, Doing, Works
<1>2. TreeOK(fs) /\ b \in Words /\ fs \in [Paths -> {NoEnt, Dir} \cup Inodes]
  BY <1>1, TopVisit DEF Core, TreeOK
<1>3. TreeOK(there) /\ (\A q \in Paths : q # b => there[q] = fs[q]) /\ (b \in Paths => there[b] \notin Inodes)
  <2>1. CASE IsFile(fs, b)
    <3>1. b \in Paths /\ fs[b] # Dir
      BY <2>1, Kinds DEF IsFile
    <3>2. TreeOK(Unlink(fs, b)) /\ Unlink(fs, b)[b] = NoEnt /\ \A q \in Paths : q # b => Unlink(fs, b)[q] = fs[q]
      BY <1>2, <3>1, UnlinkIs
    <3> QED  BY <2>1, <3>2, Kinds
  <2>2. CASE ~IsFile(fs, b)
    BY <1>2, <2>2 DEF IsFile
  <2> QED  BY <2>1, <2>2
<1> HIDE DEF there, b
<1>4. CASE fs' = there
  <2>1. \A q \in Paths : q # b => fs'[q] = fs[q]
    BY <1>3, <1>4
  <2>2. WorksAt(b)
    BY <1>1, <2>1 DEF WorksAt
  <2>3. b \in Paths => fs'[b] \notin Inodes
    BY <1>3, <1>4
  <2> QED  BY <1>1, <2>2, <2>3 DEF b
<1>5. CASE fs' = MkPath(there, b) /\ CanMkPath(there, b) /\ b \in Paths
  <2>1. /\ \A q \in Paths : there[q] # NoEnt => fs'[q] = there[q]
        /\ \A q \in Paths : fs'[q] # there[q] => fs'[q] = Dir /\ IsPrefix(q, b)
        /\ \A q \in Paths : IsPrefix(q, b) => fs'[q] = Dir
    BY <1>2, <1>3, <1>5, MkPathIs
  <2>2. fs'[b] = Dir
    BY <1>5, <2>1, PathsAreWords, PrefixOrder
  <2>3. WorksAt(b)
    BY <1>1, <1>3, <2>1 DEF WorksAt
  <2> QED  BY <1>1, <2>2, <2>3, Kinds DEF b
<1> QED  BY <1>1, <1>4, <1>5

(* An open target: nothing else has its inode. *)
Opened(j, i) ==
  LET v == Top(j)
  IN /\ v.b \in Paths /\ fs[v.b] # Dir /\ i \in Inodes /\ Places(v.b, i)
     /\ disk' = [disk EXCEPT ![i] = Zeros]
     /\ job' = Put(j, [stack |-> <<[v EXCEPT !.do = "write", !.in = fs[v.a], !.out = i, !.k = 1]>> \o Rest(j)])
LEMMA OpenIs ==
  ASSUME Core, NEW j \in Slots, OpenFile(j)
  PROVE  \/ PopFailed(j) /\ UNCHANGED <<fs, disk>>
         \/ \E i \in Inodes : Opened(j, i)
<1> DEFINE v == Top(j)
           a == v.a
           vb == v.b
           vi == IF IsFile(fs, vb) THEN fs[vb] ELSE CHOOSE n \in FreeInodes : TRUE
           w == [v EXCEPT !.do = "write", !.in = fs[a], !.out = vi, !.k = 1]
<1>1. TreeOK(fs)
  BY DEF Core
<1>6. CASE /\ ~(IsDir(fs, vb) \/ ~HasDir(fs, vb) \/ (~IsFile(fs, vb) /\ FreeInodes = {}))
           /\ fs' = [fs EXCEPT ![vb] = vi]
           /\ disk' = [disk EXCEPT ![vi] = Zeros]
           /\ job' = Put(j, [stack |-> <<w>> \o Rest(j)])
  <2>1. vb \in Paths /\ HasDir(fs, vb) /\ fs[vb] # Dir
    BY <1>6, Zenon DEF HasDir, IsDir
  <2>2. vi \in Inodes /\ (fs[vb] = vi \/ \A p \in Paths : fs[p] # vi)
    <3>1. CASE IsFile(fs, vb)
      BY <3>1 DEF IsFile
    <3>2. CASE ~IsFile(fs, vb)
      <4>1. vi \in FreeInodes
        BY <1>6, <3>2, Zenon
      <4> QED  BY <4>1 DEF FreeInodes
    <3> QED  BY <3>1, <3>2
  <2>3. Opened(j, vi)
    <3>a. vb \in Paths
      BY <2>1
    <3>b. HasDir(fs, vb)
      BY <2>1
    <3>c. fs[vb] # Dir
      BY <2>1
    <3>d. vi \in Inodes
      BY <2>2
    <3>e. Spare(fs, vb, vi)
      BY <2>2 DEF Spare
    <3>f. fs' = [fs EXCEPT ![vb] = vi]
      BY <1>6, Zenon
    <3>1. Places(vb, vi)
      <4> HIDE DEF vb, vi
      <4> QED  BY ONLY <1>1, <3>a, <3>b, <3>c, <3>d, <3>e, <3>f, Placing
    <3> QED  BY <1>6, <2>1, <2>2, <3>1, Zenon DEF Opened
  <2> QED  BY <2>2, <2>3
<1> QED  BY <1>6, Zenon DEF OpenFile, Works, Zeros

LEMMA OpenWorks == ASSUME Core, NEW j \in Slots, OpenFile(j) PROVE WorksAt(Top(j).b)
<1>1. CASE UNCHANGED <<fs, disk>>
  BY <1>1, NothingWorks
<1>2. ASSUME NEW i \in Inodes, Opened(j, i) PROVE WorksAt(Top(j).b)
  <2>1. disk \in [Inodes -> [1 .. Chunks -> Files \cup {0}]]
    BY DEF Core
  <2>2. \A n \in Inodes : n # i => disk'[n] = disk[n]
    BY <1>2, <2>1 DEF Opened
  <2>3. \A q \in Paths : q # Top(j).b => fs'[q] = fs[q] /\ fs[q] # i
    BY <1>2 DEF Opened, Places
  <2> QED  BY <2>2, <2>3 DEF WorksAt
<1> QED  BY <1>1, <1>2, OpenIs

LEMMA WriteWorks ==
  ASSUME Core, NEW j \in Slots, WriteChunk(j)
  PROVE  WorksAt(Top(j).b)
<1>1. Writing(job[j]) /\ ((UNCHANGED disk /\ RemoveTarget(Top(j).b)) \/ UNCHANGED fs)
  BY Zenon DEF WriteChunk, TargetStays, Doing, Writing, Top
<1>2. fs \in [Paths -> {NoEnt, Dir} \cup Inodes] /\ disk \in [Inodes -> [1 .. Chunks -> Files \cup {0}]]
  BY DEF Core, TreeOK
<1>3. CASE UNCHANGED disk /\ RemoveTarget(Top(j).b)
  BY <1>2, <1>3, RemoveTargetWorks
<1>4. CASE UNCHANGED fs
  <2>1. \A n \in Inodes : n # Top(j).out => disk'[n] = disk[n]
    <3>1. UNCHANGED disk \/ disk' = [disk EXCEPT ![Top(j).out][Top(j).k] = disk[Top(j).in][Top(j).k]]
      BY DEF WriteChunk
    <3> QED  BY <1>2, <3>1
  <2>2. \A p \in Paths : fs[p] \in Inodes /\ p # Top(j).b => fs[p] # Top(j).out
    BY <1>1, WritingIs
  <2> QED  BY <1>4, <2>1, <2>2 DEF WorksAt
<1> QED  BY <1>1, <1>3, <1>4

-------------------------------------------------------------------------------
(* A step of a walk works at its place, or below it.                       *)

LEMMA SeeCancelIs ==
  ASSUME Core, NEW j \in Slots, SeeCancel(j)
  PROVE  /\ NoOther(j) /\ SameBut(job'[j], job[j], {"stack", "ok", "errs"}) /\ job'[j].stack = <<>> /\ job'[j].ok = FALSE
         /\ disk' = disk /\ (RemoveTarget(Top(j).b) \/ fs' = fs) /\ (Top(j).do # "write" => fs' = fs)
<1> DEFINE r == [stack |-> <<>>, ok |-> FALSE]
<1>1. job' = Put(j, r) /\ UNCHANGED disk /\ (RemoveTarget(Top(j).b) \/ fs' = fs) /\ (Top(j).do # "write" => fs' = fs)
  BY DEF SeeCancel, TargetStays
<1>2. DOMAIN r = {"stack", "ok"} /\ r.stack = <<>> /\ r.ok = FALSE
  OBVIOUS
<1> HIDE DEF r
<1>3. DOMAIN r \subseteq Fields
  BY <1>2 DEF Fields
<1>4. NoOther(j) /\ SameBut(job'[j], job[j], DOMAIN r) /\ \A x \in DOMAIN r : job'[j][x] = r[x]
  <2>1. job' = Put(j, r)
    BY <1>1
  <2> QED  BY <1>3, <2>1, PutCore
<1>5. SameBut(job'[j], job[j], {"stack", "ok", "errs"})
  BY <1>2, <1>4 DEF SameBut
<1> QED  BY <1>1, <1>2, <1>4, <1>5

(* A step of a walk moves on in its visits, and changes nothing else of    *)
(* the job.                                                                *)
LEMMA TreeStepIs ==
  ASSUME Core, NEW j \in Slots, TreeStep(j)
  PROVE  /\ NoOther(j) /\ SameBut(job'[j], job[j], {"stack", "ok", "errs"}) /\ job[j].stack # <<>>
         /\ Active(j) /\ job[j].at \in Walking /\ JobOK(job[j])
<1>1. job[j].stack # <<>>
  BY Zenon DEF TreeStep, CopyDir, LeaveDir, OpenFile, CopyNothing, WriteChunk, EnterDir, RemoveEntry, SeeCancel, Doing
<1>2. \/ Pop(j) \/ PopFailed(j) \/ SeeCancel(j)
      \/ \E s : job' = Put(j, [stack |-> s])
  BY Zenon DEF TreeStep, CopyDir, LeaveDir, OpenFile, CopyNothing, WriteChunk, EnterDir, RemoveEntry
<1>3. ASSUME NEW s, job' = Put(j, [stack |-> s]) PROVE NoOther(j) /\ SameBut(job'[j], job[j], {"stack", "ok", "errs"})
  BY <1>3, StackPut
<1>4. NoOther(j) /\ SameBut(job'[j], job[j], {"stack", "ok", "errs"})
  BY <1>1, <1>2, <1>3, AnyPop, SeeCancelIs
<1> QED  BY <1>1, <1>4, TopVisit

LEMMA CopyWorks ==
  ASSUME Core, NEW j \in Slots, TreeStep(j), job[j].at = "copying"
  PROVE  WorksAt(Top(j).b) /\ (fs[job[j].cur.from] = NoEnt => UNCHANGED <<fs, disk>>)
<1>1. job[j].stack # <<>> /\ Top(j).do \in {"copy", "leave", "write"}
  BY TreeStepIs, TopVisit
<1>2. TreeOK(fs) /\ fs \in [Paths -> {NoEnt, Dir} \cup Inodes]
  BY DEF Core, TreeOK
<1>3. fs[job[j].cur.from] = NoEnt => fs[Top(j).a] = NoEnt
  BY <1>1, <1>2, CopyVisit, BelowNothing, BelowIs
<1>4. CASE CopyDir(j)
  <2>1. fs[Top(j).a] = Dir
    BY <1>4 DEF CopyDir, IsDir
  <2> QED  BY <1>3, <1>4, <2>1, Kinds, CopyDirWorks
<1>5. CASE LeaveDir(j) \/ CopyNothing(j)
  BY <1>5, NothingWorks DEF LeaveDir, CopyNothing
<1>6. CASE OpenFile(j)
  <2>1. fs[Top(j).a] \in Inodes
    BY <1>6, Zenon DEF OpenFile, IsFile
  <2> QED  BY <1>3, <1>6, <2>1, Kinds, OpenWorks
<1>7. CASE WriteChunk(j)
  <2>1. Writing(job[j])
    BY <1>7, Zenon DEF WriteChunk, Doing, Writing, Top
  <2>2. fs[Top(j).a] \in Inodes
    BY <2>1, WritingIs
  <2> QED  BY <1>3, <1>7, <2>2, Kinds, WriteWorks
<1>8. CASE SeeCancel(j)
  <2>1. disk' = disk /\ (RemoveTarget(Top(j).b) \/ fs' = fs) /\ (Top(j).do # "write" => fs' = fs)
    BY <1>8, SeeCancelIs
  <2>2. WorksAt(Top(j).b)
    BY <1>2, <2>1, RemoveTargetWorks, NothingWorks
  <2>3. ASSUME fs[job[j].cur.from] = NoEnt PROVE Top(j).do # "write"
    <3>1. Top(j).do = "write" => Writing(job[j])
      BY <1>1 DEF Writing, Top
    <3> QED  BY <1>3, <2>3, <3>1, WritingIs, Kinds
  <2> QED  BY <2>1, <2>2, <2>3
<1>9. ~EnterDir(j) /\ ~RemoveEntry(j)
  BY <1>1 DEF EnterDir, RemoveEntry, Doing
<1> QED  BY <1>4, <1>5, <1>6, <1>7, <1>8, <1>9 DEF TreeStep

(* Where a walk that is no copy removes things. *)
Site(r) == IF r.at = "removing" THEN r.cur.from ELSE r.cur.to
LEMMA RemovalWorks ==
  ASSUME Core, NEW j \in Slots, TreeStep(j), job[j].at # "copying"
  PROVE  /\ disk' = disk /\ Site(job[j]) \in Paths
         /\ fs' = fs \/ \E p \in Paths : IsPrefix(Site(job[j]), p) /\ fs[p] # NoEnt /\ fs' = Unlink(fs, p)
<1>1. job[j].stack # <<>> /\ Top(j).do \in {"rm", "rmdir"} /\ Top(j) \in Range(job[j].stack) /\ job[j].at \in Walking /\ JobOK(job[j])
      /\ Top(j).a \in Paths
  <2>1. job[j].stack # <<>> /\ job[j].at \in Walking
    BY TreeStepIs
  <2>2. Top(j).do \notin {"copy", "leave", "write"} /\ Top(j) \in Visiting /\ Top(j).a \in Paths /\ Top(j) \in Range(job[j].stack) /\ JobOK(job[j])
    BY <2>1, TopVisit
  <2> QED  BY <2>1, <2>2 DEF Visiting
<1>2. Site(job[j]) \in Paths
  BY <1>1 DEF JobOK, CurOK, Walking, Site
<1>3. Top(j).a \in Below[Site(job[j])]
  BY <1>1 DEF JobOK, VisitsOK, Walking, Site
<1>4. IsPrefix(Site(job[j]), Top(j).a)
  BY <1>2, <1>3, BelowIs
<1>5. CASE EnterDir(j)
  BY <1>2, <1>5 DEF EnterDir
<1>6. CASE RemoveEntry(j)
  <2>1. disk' = disk /\ (fs' = fs \/ (fs' = Unlink(fs, Top(j).a) /\ (Exists(fs, Top(j).a) \/ IsDir(fs, Top(j).a))))
    BY <1>6 DEF RemoveEntry, Works
  <2> QED  BY <1>1, <1>2, <1>4, <2>1, Kinds DEF Exists, IsDir
<1>7. CASE SeeCancel(j)
  BY <1>1, <1>2, <1>7, SeeCancelIs
<1>8. ~CopyDir(j) /\ ~LeaveDir(j) /\ ~OpenFile(j) /\ ~CopyNothing(j) /\ ~WriteChunk(j)
  BY <1>1, Zenon DEF CopyDir, LeaveDir, OpenFile, CopyNothing, WriteChunk, Doing
<1> QED  BY <1>5, <1>6, <1>7, <1>8 DEF TreeStep

(* Either way, what is not at the place or below it stays.                 *)
LEMMA WorksBelow ==
  ASSUME NEW x \in Paths, NEW b \in Words, IsPrefix(x, b), WorksAt(b)
  PROVE  /\ OnlyBelow(x)
         /\ \A q \in Paths : q # x /\ Parent(q) = Parent(x) /\ fs[q] = NoEnt => fs'[q] = NoEnt
<1>1. x \in Words
  BY PathsAreWords
<1>2. OnlyBelow(x)
  BY <1>1, Kinds DEF OnlyBelow, WorksAt
<1>3. ASSUME NEW q \in Paths, q # x, Parent(q) = Parent(x), fs[q] = NoEnt PROVE fs'[q] = NoEnt
  <2>1. q \in Words /\ Len(q) = Len(x)
    <3>1. Len(q) \in Nat /\ Len(x) \in Nat /\ q \in Words
      BY PathsAreWords
    <3>2. Len(Parent(q)) = Len(q) - 1 /\ Len(Parent(x)) = Len(x) - 1
      BY ParentIs
    <3> QED  BY <1>3, <3>1, <3>2
  <2>2. ~IsPrefix(x, q) /\ ~IsPrefix(q, x)
    BY <1>1, <1>3, <2>1, PrefixOrder
  <2>3. ~IsPrefix(q, b)
    BY <1>1, <2>1, <2>2, PrefixOrder
  <2>4. q # b
    BY <2>2
  <2> QED  BY <1>3, <2>3, <2>4 DEF WorksAt
<1> QED  BY <1>2, <1>3

LEMMA RemovesBelow ==
  ASSUME NEW x, disk' = disk, fs' = fs \/ \E p \in Paths : IsPrefix(x, p) /\ fs[p] # NoEnt /\ fs' = Unlink(fs, p), TreeOK(fs)
  PROVE  OnlyBelow(x) /\ \A q \in Paths : fs'[q] = fs[q] \/ fs'[q] = NoEnt
BY DEF OnlyBelow, Unlink, TreeOK

-------------------------------------------------------------------------------
(* What a copy has covered stays covered.                                  *)

(* While a copy runs, what it copies from stays as it is, and what is      *)
(* across stays across.                                                    *)
LEMMA SourceSame ==
  ASSUME Core, NEW j \in Slots, TreeStep(j), job[j].at = "copying", Apart(job[j].cur.from, job[j].cur.to),
         NEW q \in Paths, IsPrefix(job[j].cur.from, q), fs'[q] \in Inodes
  PROVE  fs[q] = fs'[q] /\ disk'[fs[q]] = disk[fs[q]] /\ ~IsPrefix(job[j].cur.to, q)
<1>1. job[j].stack # <<>> /\ WorksAt(Top(j).b)
  BY TreeStepIs, CopyWorks
<1>2. job[j].cur.from \in Words /\ job[j].cur.to \in Words /\ q \in Words /\ IsPrefix(job[j].cur.to, Top(j).b)
  BY <1>1, CopyVisit, PathsAreWords
<1>3. ~IsPrefix(job[j].cur.to, q)
  BY <1>2, PrefixOrder DEF Apart
<1>4. q # Top(j).b
  BY <1>2, <1>3
<1>5. fs[q] = fs'[q]
  BY <1>1, <1>4, Kinds DEF WorksAt
<1>6. disk'[fs[q]] = disk[fs[q]]
  BY <1>1, <1>4, <1>5, Kinds DEF WorksAt
<1> QED  BY <1>3, <1>5, <1>6

LEMMA AcrossStays ==
  ASSUME Core, NEW j \in Slots, TreeStep(j), job[j].at = "copying", Apart(job[j].cur.from, job[j].cur.to),
         NEW q \in Paths, IsPrefix(job[j].cur.from, q), fs'[q] \in Inodes, q # Top(j).a,
         Across(fs, disk, q, Rebase(q, job[j].cur.from, job[j].cur.to))
  PROVE  Across(fs', disk', q, Rebase(q, job[j].cur.from, job[j].cur.to))
<1> DEFINE a == job[j].cur.from
           b == job[j].cur.to
           p == Rebase(q, a, b)
<1>1. job[j].stack # <<>> /\ WorksAt(Top(j).b)
  BY TreeStepIs, CopyWorks
<1>2. a \in Words /\ b \in Words /\ q \in Words /\ Top(j).a \in Words /\ IsPrefix(a, Top(j).a) /\ Top(j).b = Rebase(Top(j).a, a, b)
  BY <1>1, CopyVisit, PathsAreWords
<1>3. Rebase(p, b, a) = q /\ Rebase(Top(j).b, b, a) = Top(j).a
  BY <1>2, RebaseThere
<1>4. p # Top(j).b
  BY <1>3
<1>5. p \in Paths /\ fs[p] \in Inodes /\ disk[fs[p]] = disk[fs[q]]
  BY DEF Across
<1>6. fs'[p] = fs[p] /\ disk'[fs[p]] = disk[fs[p]]
  BY <1>1, <1>4, <1>5, Kinds DEF WorksAt
<1>7. fs[q] = fs'[q] /\ disk'[fs[q]] = disk[fs[q]]
  BY SourceSame
<1> QED  BY <1>5, <1>6, <1>7 DEF Across

Visited(j, q) == (Top(j).do = "copy" /\ IsPrefix(Top(j).a, q)) \/ (Top(j).do = "write" /\ Top(j).a = q)
LEMMA PendingStays ==
  ASSUME Core, NEW j \in Slots, job[j].stack # <<>>, NEW q, Pending(job[j], q), Range(Rest(j)) \subseteq Range(job'[j].stack)
  PROVE  Pending(job'[j], q) \/ Visited(j, q)
<1>1. Range(job[j].stack) = {Top(j)} \cup Range(Rest(j))
  BY TopVisit
<1> QED  BY <1>1 DEF Pending, Visited

(* What a visit leaves to do, for the files it was to see to. *)
SeesTo(j, q) == Pending(job'[j], q) \/ Across(fs', disk', q, Rebase(q, job[j].cur.from, job[j].cur.to))

LEMMA CopyDirSeesTo ==
  ASSUME Core, NEW j \in Slots, CopyDir(j), job'[j].ok, NEW q \in Paths, fs[q] \in Inodes
  PROVE  Range(Rest(j)) \subseteq Range(job'[j].stack) /\ (Visited(j, q) => Pending(job'[j], q)) /\ Top(j).a # q
<1> DEFINE a == Top(j).a
           b == Top(j).b
           kids == KidsIn(fs, a)
           vs == Visits("copy", kids, a, b)
           w == Visit("leave", a, b)
           s == vs \o <<w>> \o Rest(j)
<1>1. job[j].stack # <<>> /\ Top(j).do = "copy" /\ fs[a] = Dir
  BY DEF CopyDir, Doing, IsDir
<1>2. TreeOK(fs) /\ a \in Paths /\ b \in Words /\ Rest(j) \in Seq(Visiting) /\ a \in Words
  BY <1>1, TopVisit, PathsAreWords DEF Core
<1>3. ~PopFailed(j)
  BY PopIs
<1>4. job' = Put(j, [stack |-> s])
  BY <1>3 DEF CopyDir
<1>5. kids \in Seq(Paths) /\ Range(kids) = {k \in Kids[a] : fs[k] # NoEnt}
  BY <1>2, KidsInAre
<1>6. w \in Visiting
  BY <1>2, VisitIs
<1>7. \A p \in Range(kids) : IsPrefix(a, p)
  BY <1>2, <1>5, KidsAre
<1>8. "copy" \in {"copy", "rm"} /\ kids \in Seq(Paths) /\ a \in Words /\ b \in Words
  BY <1>2, <1>5
<1> HIDE DEF kids, w, b
<1>9. /\ vs \in Seq(Visiting)
      /\ \A p \in Range(kids) : \E v \in Range(vs) : v.do = "copy" /\ v.a = p
  <2> HIDE DEF a
  <2>1. /\ Visits("copy", kids, a, b) \in Seq(Visiting)
        /\ \A p \in Range(kids) : \E v \in Range(Visits("copy", kids, a, b)) : v.do = "copy" /\ v.a = p
    BY <1>7, <1>8, VisitsAre
  <2> QED  BY <2>1
<1> HIDE DEF vs
<1>10. Range(s) = Range(vs) \cup {w} \cup Range(Rest(j))
  BY <1>2, <1>6, <1>9, ThreeParts
<1> HIDE DEF s
<1>11. job'[j].stack = s
  BY <1>4, StackPut
<1>12. a # q
  BY <1>1, Kinds
<1>13. ASSUME Visited(j, q) PROVE Pending(job'[j], q)
  <2>1. IsPrefix(a, q) /\ a # q
    BY <1>1, <1>12, <1>13 DEF Visited
  <2>2. PICK k \in Kids[a] : IsPrefix(k, q)
    BY <1>2, <2>1, KidsAre
  <2>3. k \in Paths /\ fs[k] # NoEnt
    <3>1. k \in Paths
      BY <1>2, <2>2, KidsAre
    <3> QED  BY <1>2, <2>2, <3>1, Kinds DEF TreeOK
  <2>4. k \in Range(kids)
    BY <1>5, <2>2, <2>3
  <2>5. PICK v \in Range(vs) : v.do = "copy" /\ v.a = k
    BY <1>9, <2>4
  <2> QED  BY <1>10, <1>11, <2>2, <2>5 DEF Pending
<1> QED  BY <1>10, <1>11, <1>12, <1>13 DEF a

LEMMA PutOnTop ==
  ASSUME Core, NEW j \in Slots, job[j].stack # <<>>, NEW w \in Visiting, job' = Put(j, [stack |-> <<w>> \o Rest(j)])
  PROVE  Range(job'[j].stack) = {w} \cup Range(Rest(j))
<1>1. Rest(j) \in Seq(Visiting)
  BY TopVisit
<1>2. Range(<<w>> \o Rest(j)) = {w} \cup Range(Rest(j))
  BY <1>1, Pushing
<1>3. job'[j].stack = <<w>> \o Rest(j)
  BY StackPut
<1> QED  BY <1>2, <1>3

LEMMA OpenFileSeesTo ==
  ASSUME Core, NEW j \in Slots, OpenFile(j), job'[j].ok, NEW q \in Paths, fs[q] \in Inodes
  PROVE  Range(Rest(j)) \subseteq Range(job'[j].stack) /\ (Visited(j, q) \/ q = Top(j).a => Pending(job'[j], q))
<1>1. job[j].stack # <<>> /\ Top(j).do = "copy" /\ fs[Top(j).a] \in Inodes
  BY Zenon DEF OpenFile, Doing, IsFile
<1>2. ~PopFailed(j)
  BY PopIs
<1>3. PICK i \in Inodes : Opened(j, i)
  BY <1>2, OpenIs
<1> DEFINE w == [Top(j) EXCEPT !.do = "write", !.in = fs[Top(j).a], !.out = i, !.k = 1]
<1>4. w \in Visiting /\ w.do = "write" /\ w.a = Top(j).a
  <2>1. Top(j) \in Visiting /\ i \in Nat /\ fs[Top(j).a] \in Nat
    BY <1>1, TopVisit, DataAssumption
  <2> QED  BY <2>1 DEF Visiting
<1>5. job' = Put(j, [stack |-> <<w>> \o Rest(j)])
  BY <1>3 DEF Opened
<1>6. w \in Visiting
  BY <1>4
<1> HIDE DEF w
<1>7. Range(job'[j].stack) = {w} \cup Range(Rest(j))
  BY <1>1, <1>5, <1>6, PutOnTop
<1>8. Visited(j, q) => q = Top(j).a
  <2>1. TreeOK(fs) /\ Top(j).a \in Paths
    BY <1>1, TopVisit DEF Core
  <2> QED  BY <1>1, <2>1, Kinds, BelowNothing DEF Visited
<1> QED  BY <1>4, <1>7, <1>8 DEF Pending

LEMMA WriteSeesTo ==
  ASSUME Core, "flush" \notin FaultKinds, NEW j \in Slots, WriteChunk(j), job'[j].ok, NEW q \in Paths
  PROVE  /\ Range(Rest(j)) \subseteq Range(job'[j].stack)
         /\ Visited(j, q) => q = Top(j).a
         /\ q = Top(j).a => SeesTo(j, q)
<1> DEFINE v == Top(j)
           w == [v EXCEPT !.k = v.k + 1]
<1>1. job[j].stack # <<>> /\ v.do = "write" /\ Writing(job[j])
  BY Zenon DEF WriteChunk, Doing, Writing, Top
<1>2. v \in Visiting /\ job[j].at = "copying"
  BY <1>1, TopVisit
<1>3. /\ v.b \in Paths /\ v.k \in 1 .. Chunks /\ v.in \in Inodes /\ v.out \in Inodes /\ v.in # v.out
      /\ fs[v.a] = v.in /\ fs[v.b] = v.out
      /\ \A i \in 1 .. v.k - 1 : disk[v.out][i] = disk[v.in][i]
  <2> HIDE DEF v
  <2> QED  BY <1>1, WritingIs, TopVisit DEF v
<1>4. ~PopFailed(j)
  BY PopIs
<1>5. /\ disk' = [disk EXCEPT ![v.out][v.k] = disk[v.in][v.k]]
      /\ job' = Put(j, [stack |-> IF v.k = Chunks THEN Rest(j) ELSE <<w>> \o Rest(j)])
      /\ UNCHANGED fs
  BY <1>4 DEF WriteChunk, Fault, FaultLeaving
<1>6. Visited(j, q) => q = v.a
  BY <1>1 DEF Visited
<1>7. CASE v.k # Chunks
  <2>1. w \in Visiting /\ w.do = "write" /\ w.a = v.a
    <3>1. v.k \in Nat
      BY <1>3
    <3> QED  BY <1>1, <1>2, <3>1 DEF Visiting
  <2>2. w \in Visiting /\ job' = Put(j, [stack |-> <<w>> \o Rest(j)])
    BY <1>5, <1>7, <2>1
  <2> HIDE DEF w
  <2>3. Range(job'[j].stack) = {w} \cup Range(Rest(j))
    BY <1>1, <2>2, PutOnTop
  <2> QED  BY <1>6, <2>1, <2>3 DEF Pending, SeesTo
<1>8. CASE v.k = Chunks
  <2>1. Pop(j)
    BY <1>5, <1>8 DEF Pop
  <2>2. job'[j].stack = Rest(j)
    BY <2>1, PopIs
  <2>3. disk \in [Inodes -> [1 .. Chunks -> Files \cup {0}]]
    BY DEF Core
  <2>4. v.k \in Nat /\ Chunks \in Nat /\ v.k <= Chunks /\ v.k >= 1
    BY <1>3, DataAssumption
  <2>5. /\ disk'[v.in] = disk[v.in] /\ disk'[v.out] \in [1 .. Chunks -> Files \cup {0}]
        /\ \A i \in 1 .. Chunks : disk'[v.out][i] = disk[v.in][i]
    <3>1. v.out \in Inodes /\ v.in \in Inodes /\ v.in # v.out /\ v.k \in 1 .. Chunks /\ \A i \in 1 .. v.k - 1 : disk[v.out][i] = disk[v.in][i]
      BY <1>3
    <3>2. disk' = [disk EXCEPT ![v.out][v.k] = disk[v.in][v.k]] /\ v.k = Chunks
      BY <1>5, <1>8
    <3> HIDE DEF v
    <3>3. disk[v.in][v.k] \in Files \cup {0} /\ disk[v.out] \in [1 .. Chunks -> Files \cup {0}]
      BY <2>3, <3>1
    <3>4. disk'[v.out] = [disk[v.out] EXCEPT ![v.k] = disk[v.in][v.k]] /\ disk'[v.in] = disk[v.in]
      BY <2>3, <3>1, <3>2
    <3>5. disk'[v.out] \in [1 .. Chunks -> Files \cup {0}]
      BY <3>3, <3>4
    <3>6. \A i \in 1 .. Chunks : disk'[v.out][i] = disk[v.in][i]
      BY <2>4, <3>1, <3>2, <3>3, <3>4
    <3> QED  BY <3>4, <3>5, <3>6
  <2>6. disk'[v.out] = disk'[v.in]
    <3> DEFINE x == disk'[v.out]
               y == disk[v.in]
               D == Files \cup {0}
    <3>1. x \in [1 .. Chunks -> D] /\ y \in [1 .. Chunks -> D] /\ \A i \in 1 .. Chunks : x[i] = y[i]
      BY <1>3, <2>3, <2>5
    <3> HIDE DEF x, y, D
    <3>2. x = [i \in 1 .. Chunks |-> x[i]] /\ y = [i \in 1 .. Chunks |-> y[i]]
      BY <3>1
    <3>3. x = y
      BY <3>1, <3>2
    <3> QED  BY <2>5, <3>3 DEF x, y
  <2>7. Across(fs', disk', v.a, v.b)
    BY <1>3, <1>5, <2>6 DEF Across
  <2>8. Top(j).b = Rebase(Top(j).a, job[j].cur.from, job[j].cur.to)
    BY <1>1, <1>2, CopyVisit
  <2> QED  BY <1>6, <2>2, <2>7, <2>8 DEF SeesTo
<1> QED  BY <1>7, <1>8

-------------------------------------------------------------------------------
(* Every visit leaves the copy covered.                                    *)

LEMMA OtherSeesTo ==
  ASSUME Core, NEW j \in Slots, LeaveDir(j) \/ CopyNothing(j) \/ SeeCancel(j), job'[j].ok, NEW q \in Paths
  PROVE  /\ Range(Rest(j)) \subseteq Range(job'[j].stack) /\ ~Visited(j, q)
         /\ UNCHANGED <<fs, disk>>
<1>1. ~SeeCancel(j) /\ ~CopyNothing(j)
  BY SeeCancelIs, PopIs DEF CopyNothing
<1>2. Pop(j) /\ Top(j).do = "leave" /\ UNCHANGED <<fs, disk>>
  BY <1>1 DEF LeaveDir, Doing
<1>3. job'[j].stack = Rest(j)
  BY <1>2, PopIs
<1> QED  BY <1>2, <1>3 DEF Visited

LEMMA CoveredKept ==
  ASSUME Core, "flush" \notin FaultKinds, NEW j \in Slots, TreeStep(j), job[j].at = "copying",
         Parted(fs, job[j].cur.from, job[j].cur.to), Covered(fs, disk, job[j]), job'[j].ok
  PROVE  Covered(fs', disk', job'[j])
<1>1. job[j].stack # <<>> /\ Top(j).do \in {"copy", "leave", "write"} /\ job'[j].cur = job[j].cur /\ TreeOK(fs)
  BY TreeStepIs, TopVisit DEF SameBut, Fields, Core
<1>2. job[j].cur.from \in Paths /\ job[j].cur.to \in Paths /\ Top(j).a \in Paths
  BY <1>1, CopyVisit
<1>3. SUFFICES ASSUME NEW q \in Paths, IsPrefix(job[j].cur.from, q), fs'[q] \in Inodes
               PROVE  SeesTo(j, q)
  BY <1>1 DEF Covered, SeesTo
<1>4. Apart(job[j].cur.from, job[j].cur.to)
  <2>1. CASE fs[job[j].cur.from] = NoEnt
    <3>1. fs' = fs
      BY <2>1, CopyWorks
    <3>2. fs[q] = NoEnt
      BY <1>1, <1>2, <1>3, <2>1, BelowNothing, BelowIs
    <3> QED  BY <1>3, <3>1, <3>2, Kinds
  <2> QED  BY <2>1 DEF Parted
<1>5. fs[q] \in Inodes
  BY <1>3, <1>4, SourceSame
<1>6. Across(fs, disk, q, Rebase(q, job[j].cur.from, job[j].cur.to)) \/ Pending(job[j], q)
  BY <1>3, <1>5 DEF Covered
<1>7. /\ Range(Rest(j)) \subseteq Range(job'[j].stack)
      /\ Visited(j, q) => SeesTo(j, q)
      /\ q = Top(j).a => SeesTo(j, q) \/ UNCHANGED <<fs, disk>>
  <2>1. CASE CopyDir(j)
    BY <1>5, <2>1, CopyDirSeesTo DEF SeesTo
  <2>2. CASE OpenFile(j)
    BY <1>5, <2>2, OpenFileSeesTo DEF SeesTo
  <2>3. CASE WriteChunk(j)
    BY <2>3, WriteSeesTo
  <2>4. CASE LeaveDir(j) \/ CopyNothing(j) \/ SeeCancel(j)
    BY <2>4, OtherSeesTo
  <2>5. ~EnterDir(j) /\ ~RemoveEntry(j)
    BY <1>1 DEF EnterDir, RemoveEntry, Doing
  <2> QED  BY <2>1, <2>2, <2>3, <2>4, <2>5 DEF TreeStep
<1>8. CASE Pending(job[j], q)
  BY <1>1, <1>7, <1>8, PendingStays DEF SeesTo
<1>9. CASE Across(fs, disk, q, Rebase(q, job[j].cur.from, job[j].cur.to))
  <2>1. CASE q # Top(j).a
    BY <1>3, <1>4, <1>9, <2>1, AcrossStays DEF SeesTo
  <2>2. CASE q = Top(j).a
    <3>1. UNCHANGED <<fs, disk>> => SeesTo(j, q)
      BY <1>9 DEF SeesTo, Across
    <3> QED  BY <1>7, <2>2, <3>1
  <2> QED  BY <2>1, <2>2
<1> QED  BY <1>6, <1>8, <1>9

(***************************************************************************)
(* The steps of the walks.                                                 *)
(***************************************************************************)
Moved == {"stack", "ok", "errs"}
LEMMA SameLists ==
  ASSUME NEW r, NEW n, SameBut(n, r, Moved)
  PROVE  /\ Waiting(n) = Waiting(r) /\ (InHand(n) <=> InHand(r)) /\ (FirstLoop(n) <=> FirstLoop(r)) /\ (Yields(n) <=> Yields(r))
         /\ (Transferring(n) <=> Transferring(r)) /\ (SecondLoop(n) <=> SecondLoop(r)) /\ (Deletes(n) <=> Deletes(r))
         /\ n.op = r.op /\ n.at = r.at /\ n.cur = r.cur /\ n.todo = r.todo /\ n.later = r.later /\ n.dest = r.dest
         /\ n.had = r.had /\ n.honest = r.honest /\ n.policy = r.policy
<1>1. /\ n.op = r.op /\ n.at = r.at /\ n.cur = r.cur /\ n.todo = r.todo /\ n.later = r.later /\ n.dest = r.dest
      /\ n.had = r.had /\ n.honest = r.honest /\ n.policy = r.policy
  BY DEF SameBut, Fields, Moved
<1> QED  BY <1>1 DEF Waiting, InHand, FirstLoop, Yields, Transferring, SecondLoop, Deletes

LEMMA ListsStay ==
  ASSUME NEW t, NEW u, NEW r, NEW n, SameBut(n, r, Moved), ListsOK(t, r)
  PROVE  ListsOK(u, n)
BY SameLists DEF ListsOK

LEMMA PlacesStay ==
  ASSUME NEW t, NEW u, NEW r, NEW n, SameBut(n, r, Moved), PlacesOK(t, r), 
         r.op = "move" /\ ~Yields(r) => \A i \in DOMAIN Waiting(r) : u[Waiting(r)[i].to] = NoEnt
  PROVE  PlacesOK(u, n)
BY SameLists DEF PlacesOK

-------------------------------------------------------------------------------
(* The steps of a copy.                                                    *)

LEMMA OkOnlyFalls == ASSUME Core, NEW j \in Slots, TreeStep(j), job'[j].ok PROVE job[j].ok
<1>1. ASSUME NEW s, job' = Put(j, [stack |-> s]) PROVE job'[j].ok = job[j].ok
  <2> DEFINE r == [stack |-> s]
  <2>1. DOMAIN r = {"stack"} /\ job' = Put(j, r)
    BY <1>1
  <2> HIDE DEF r
  <2>2. DOMAIN r \subseteq Fields
    BY <2>1 DEF Fields
  <2>3. SameBut(job'[j], job[j], DOMAIN r)
    BY <2>1, <2>2, PutCore
  <2> QED  BY <2>1, <2>3 DEF SameBut, Fields
<1>2. \/ Pop(j) \/ PopFailed(j) \/ SeeCancel(j)
      \/ \E s : job' = Put(j, [stack |-> s])
  BY Zenon DEF TreeStep, CopyDir, LeaveDir, OpenFile, CopyNothing, WriteChunk, EnterDir, RemoveEntry
<1>3. ~PopFailed(j) /\ ~SeeCancel(j)
  BY PopIs, SeeCancelIs
<1> QED  BY <1>1, <1>2, <1>3 DEF Pop

LEMMA WaitingIn ==
  ASSUME NEW r, JobOK(r), NEW i \in DOMAIN Waiting(r)
  PROVE  Waiting(r)[i].to \in Paths /\ Waiting(r)[i].from \in Paths
<1>1. CASE Waiting(r) = r.later
  <2>1. r.later \in Seq(FullPairs)
    BY DEF JobOK
  <2>2. r.later[i] \in FullPairs
    BY <1>1, <2>1
  <2> QED  BY <1>1, <2>2 DEF FullPairs
<1>2. CASE Waiting(r) = r.todo /\ SecondLoop(r)
  <2>1. r.todo \in Seq(AllPairs) /\ \A x \in Range(r.todo) : ItemOK(r, x)
    BY DEF JobOK
  <2>2. r.todo[i] \in AllPairs /\ r.todo[i] \in Range(r.todo)
    BY <1>2, <2>1 DEF Range
  <2>3. ItemOK(r, r.todo[i])
    BY <2>1, <2>2
  <2>4. r.todo[i].to \in Paths /\ r.todo[i].from # <<>>
    BY <1>2, <2>3 DEF ItemOK, SecondLoop
  <2>5. r.todo[i].from \in MaybePaths
    BY <2>2 DEF AllPairs
  <2> QED  BY <1>2, <2>4, <2>5 DEF MaybePaths
<1>3. CASE Waiting(r) = <<>>
  BY <1>3
<1> QED  BY <1>1, <1>2, <1>3 DEF Waiting

LEMMA YieldsTransfers == ASSUME NEW r, JobOK(r), Yields(r) PROVE r.op \in {"copy", "move"} /\ ~Deletes(r)
BY DEF JobOK, Yields, Deletes

LEMMA FreeStaysFree ==
  ASSUME NEW r, JobOK(r), ListsOK(fs, r), PlacesOK(fs, r), InHand(r) \/ r.op # "move", r.op = "move" => r.cur.to \in Paths,
         \A q \in Paths : q # r.cur.to /\ Parent(q) = Parent(r.cur.to) /\ fs[q] = NoEnt => fs'[q] = NoEnt
  PROVE  r.op = "move" /\ ~Yields(r) => \A i \in DOMAIN Waiting(r) : fs'[Waiting(r)[i].to] = NoEnt
<1> SUFFICES ASSUME r.op = "move", ~Yields(r), NEW i \in DOMAIN Waiting(r) PROVE fs'[Waiting(r)[i].to] = NoEnt
  OBVIOUS
<1>1. Waiting(r)[i].to \in Paths
  BY WaitingIn
<1>2. Parent(Waiting(r)[i].to) = Parent(r.cur.to)
  BY DEF ListsOK
<1>3. fs[Waiting(r)[i].to] = NoEnt /\ Waiting(r)[i].to # r.cur.to
  BY DEF PlacesOK
<1> QED  BY <1>1, <1>2, <1>3

(* A file in hand is still there when only its target's place is touched.  *)
LEMMA InHandStays ==
  ASSUME Core, NEW a \in Paths, NEW b \in Paths, Parted(fs, a, b), OnlyBelow(b)
  PROVE  /\ Contents(fs, disk, a) \subseteq Contents(fs', disk', a)
         /\ \A f \in Files, p \in Paths : IsPrefix(a, p) /\ HasFile(fs, disk, p, f) => \E q \in Paths : HasFile(fs', disk', q, f)
<1>1. TreeOK(fs)
  BY DEF Core
<1>2. \A q \in Paths : IsPrefix(a, q) /\ fs[q] \in Inodes => ~IsPrefix(b, q)
  BY <1>1, PartedIs, Kinds
<1>3. Contents(fs, disk, a) \subseteq Contents(fs', disk', a)
  BY <1>2, ContentsStay
<1> QED  BY <1>2, <1>3 DEF OnlyBelow, HasFile

LEMMA CopySafe ==
  ASSUME Core, "flush" \notin FaultKinds, NEW j \in Slots, TreeStep(j), Spends(j), job[j].at = "copying",
         NoneLost(fs, disk, spent), JobSafe(fs, disk, spent, job[j])
  PROVE  NoneLost(fs', disk', spent') /\ JobSafe(fs', disk', spent', job'[j])
<1> DEFINE r == job[j]
           n == job'[j]
           a == r.cur.from
           b == r.cur.to
<1>1. SameBut(n, r, Moved) /\ JobOK(r) /\ r.stack # <<>> /\ spent \subseteq spent'
  BY TreeStepIs, SpentGrows DEF Moved
<1>2. /\ Waiting(n) = Waiting(r) /\ (InHand(n) <=> InHand(r)) /\ (Yields(n) <=> Yields(r))
      /\ n.op = r.op /\ n.at = r.at /\ n.cur = r.cur /\ n.had = r.had /\ n.honest = r.honest
  BY <1>1, SameLists
<1>3. a \in Paths /\ b \in Paths /\ IsPrefix(b, Top(j).b) /\ Top(j).b \in Words
  BY <1>1, CopyVisit
<1>4. Parted(fs, a, b) /\ (~Yields(r) => SafeFrom(fs, disk, spent, b)) /\ (r.ok => Covered(fs, disk, r)) /\ r.op # "trash"
  BY DEF JobSafe, WalkSafe
<1>5. WorksAt(Top(j).b) /\ (fs[a] = NoEnt => UNCHANGED <<fs, disk>>)
  BY CopyWorks
<1>6. OnlyBelow(b) /\ \A q \in Paths : q # b /\ Parent(q) = Parent(b) /\ fs[q] = NoEnt => fs'[q] = NoEnt
  <2> HIDE DEF b
  <2> QED  BY <1>3, <1>5, WorksBelow
<1>7. Parted(fs', a, b)
  BY <1>4, <1>5 DEF Parted
<1>8. ~Yields(r) => SafeFrom(fs', disk', spent', b) /\ NoneLost(fs', disk', spent')
  BY <1>1, <1>4, <1>6, SafeStays
<1>9. n.ok => Covered(fs', disk', n)
  BY <1>4, OkOnlyFalls, CoveredKept
<1>10. /\ Contents(fs, disk, a) \subseteq Contents(fs', disk', a)
       /\ \A f \in Files, p \in Paths : IsPrefix(a, p) /\ HasFile(fs, disk, p, f) => \E q \in Paths : HasFile(fs', disk', q, f)
  <2> HIDE DEF a, b
  <2> QED  BY <1>3, <1>4, <1>6, InHandStays
<1>11. NoneLost(fs', disk', spent')
  <2>1. CASE Yields(r)
    <3>1. ~Deletes(job[j])
      BY <1>1, <2>1, YieldsTransfers
    <3>2. job'[j].cur.from = a
      BY <1>2
    <3> QED  BY <1>10, <2>1, <3>1, <3>2, YieldStays
  <2> QED  BY <1>8, <2>1
<1>12. WalkSafe(fs', disk', spent', n)
  BY <1>2, <1>4, <1>7, <1>8, <1>9 DEF WalkSafe
<1>13. Truthful(fs', disk', n)
  <2>1. Truthful(fs, disk, r)
    BY DEF JobSafe
  <2> QED  BY <1>2, <1>10, <2>1 DEF Truthful
<1>14. ListsOK(fs', n) /\ PlacesOK(fs', n)
  <2>1. ListsOK(fs, r) /\ PlacesOK(fs, r)
    BY DEF JobSafe
  <2>2. InHand(r) \/ r.op # "move"
    BY DEF InHand
  <2>3. r.op = "move" /\ ~Yields(r) => \A i \in DOMAIN Waiting(r) : fs'[Waiting(r)[i].to] = NoEnt
    <3> HIDE DEF r
    <3> QED  BY <1>1, <1>3, <1>6, <2>1, <2>2, FreeStaysFree
  <2> HIDE DEF r, n
  <2> QED  BY <1>1, <2>1, <2>3, ListsStay, PlacesStay
<1> QED  BY <1>11, <1>12, <1>13, <1>14 DEF JobSafe

-------------------------------------------------------------------------------
(* The steps of a removal, and all steps of the walks.                     *)

LEMMA ListsAfterRemoval ==
  ASSUME NEW j \in Slots, SameBut(job'[j], job[j], Moved), JobOK(job[j]), ListsOK(fs, job[j]), PlacesOK(fs, job[j]),
         \A q \in Paths : fs'[q] = fs[q] \/ fs'[q] = NoEnt
  PROVE  ListsOK(fs', job'[j]) /\ PlacesOK(fs', job'[j])
<1>1. job[j].op = "move" /\ ~Yields(job[j]) => \A i \in DOMAIN Waiting(job[j]) : fs'[Waiting(job[j])[i].to] = NoEnt
  <2> SUFFICES ASSUME job[j].op = "move", ~Yields(job[j]), NEW i \in DOMAIN Waiting(job[j])
               PROVE  fs'[Waiting(job[j])[i].to] = NoEnt
    OBVIOUS
  <2>1. fs[Waiting(job[j])[i].to] = NoEnt
    BY DEF PlacesOK
  <2>2. Waiting(job[j])[i].to \in Paths
    BY WaitingIn
  <2> QED  BY <2>1, <2>2
<1> QED  BY <1>1, ListsStay, PlacesStay

LEMMA RemoveSafe ==
  ASSUME Core, NEW j \in Slots, TreeStep(j), Spends(j), job[j].at = "removing",
         NoneLost(fs, disk, spent), JobSafe(fs, disk, spent, job[j])
  PROVE  NoneLost(fs', disk', spent') /\ JobSafe(fs', disk', spent', job'[j])
<1> DEFINE r == job[j]
           n == job'[j]
           a == r.cur.from
           b == r.cur.to
<1>1. SameBut(n, r, Moved) /\ JobOK(r) /\ spent \subseteq spent' /\ TreeOK(fs)
  BY TreeStepIs, SpentGrows DEF Moved, Core
<1>2. n.op = r.op /\ n.at = r.at /\ n.cur = r.cur /\ n.had = r.had /\ n.honest = r.honest /\ (Deletes(n) <=> Deletes(r))
  BY <1>1, SameLists
<1>3. disk' = disk /\ a \in Paths /\ (fs' = fs \/ \E p \in Paths : IsPrefix(a, p) /\ fs[p] # NoEnt /\ fs' = Unlink(fs, p))
  BY RemovalWorks DEF Site
<1>4. OnlyBelow(a) /\ \A q \in Paths : fs'[q] = fs[q] \/ fs'[q] = NoEnt
  <2> HIDE DEF a
  <2> QED  BY <1>1, <1>3, RemovesBelow
<1>5. ListsOK(fs', n) /\ PlacesOK(fs', n)
  <2>1. ListsOK(fs, r) /\ PlacesOK(fs, r)
    BY DEF JobSafe
  <2> QED  BY <1>1, <1>4, <2>1, ListsAfterRemoval
<1>6. CASE Deletes(r)
  <2>1. NoneLost(fs', disk', spent')
    BY <1>1, <1>6, DeleteStays
  <2>2. WalkSafe(fs', disk', spent', n)
    BY <1>2, <1>6 DEF WalkSafe, Deletes
  <2>3. Truthful(fs', disk', n)
    <3>1. Truthful(fs, disk, r)
      BY DEF JobSafe
    <3> QED  BY <1>2, <1>6, <3>1 DEF Truthful, Deletes
  <2> QED  BY <1>5, <2>1, <2>2, <2>3 DEF JobSafe
<1>7. CASE ~Deletes(r)
  <2>1. Parted(fs, a, b) /\ SafeFrom(fs, disk, spent, a) /\ r.op # "trash"
    BY <1>7 DEF JobSafe, WalkSafe
  <2>2. b \in Paths
    BY <1>1, <1>7 DEF JobOK, CurOK, Deletes
  <2>3. SafeFrom(fs', disk', spent', a) /\ NoneLost(fs', disk', spent')
    BY <1>1, <1>4, <2>1, SafeStays
  <2>4. Parted(fs', a, b)
    BY <1>3, <1>4, <2>1 DEF Parted
  <2>5. WalkSafe(fs', disk', spent', n)
    BY <1>2, <2>1, <2>3, <2>4 DEF WalkSafe
  <2>6. Contents(fs, disk, b) \subseteq Contents(fs', disk', b)
    <3>1. \A q \in Paths : IsPrefix(b, q) /\ fs[q] \in Inodes => ~IsPrefix(a, q)
      <4> HIDE DEF a, b
      <4> QED  BY <1>1, <1>3, <2>1, <2>2, PartedIs, Kinds
    <3> HIDE DEF a, b
    <3> QED  BY <1>4, <2>2, <3>1, ContentsStay
  <2>7. Truthful(fs', disk', n)
    <3>1. Truthful(fs, disk, r)
      BY DEF JobSafe
    <3> QED  BY <1>2, <2>6, <3>1 DEF Truthful
  <2> QED  BY <1>5, <2>3, <2>5, <2>7 DEF JobSafe
<1> QED  BY <1>6, <1>7

LEMMA ClearSafe ==
  ASSUME Core, NEW j \in Slots, TreeStep(j), Spends(j), job[j].at = "clearing",
         NoneLost(fs, disk, spent), JobSafe(fs, disk, spent, job[j])
  PROVE  NoneLost(fs', disk', spent') /\ JobSafe(fs', disk', spent', job'[j])
<1> DEFINE r == job[j]
           n == job'[j]
           a == r.cur.from
           b == r.cur.to
<1>1. SameBut(n, r, Moved) /\ JobOK(r) /\ spent \subseteq spent' /\ TreeOK(fs)
  BY TreeStepIs, SpentGrows DEF Moved, Core
<1>2. n.op = r.op /\ n.at = r.at /\ n.cur = r.cur /\ n.had = r.had /\ n.honest = r.honest /\ (Yields(n) <=> Yields(r))
  BY <1>1, SameLists
<1>3. disk' = disk /\ b \in Paths /\ (fs' = fs \/ \E p \in Paths : IsPrefix(b, p) /\ fs[p] # NoEnt /\ fs' = Unlink(fs, p))
  BY RemovalWorks DEF Site
<1>4. OnlyBelow(b) /\ \A q \in Paths : fs'[q] = fs[q] \/ fs'[q] = NoEnt
  <2> HIDE DEF b
  <2> QED  BY <1>1, <1>3, RemovesBelow
<1>5. ListsOK(fs', n) /\ PlacesOK(fs', n)
  <2>1. ListsOK(fs, r) /\ PlacesOK(fs, r)
    BY DEF JobSafe
  <2> QED  BY <1>1, <1>4, <2>1, ListsAfterRemoval
<1>6. Parted(fs, a, b) /\ Yields(r) /\ a \in Paths
  BY <1>1 DEF JobSafe, WalkSafe, JobOK, CurOK
<1>7. /\ Contents(fs, disk, a) \subseteq Contents(fs', disk', a)
      /\ \A f \in Files, p \in Paths : IsPrefix(a, p) /\ HasFile(fs, disk, p, f) => \E q \in Paths : HasFile(fs', disk', q, f)
  <2> HIDE DEF a, b
  <2> QED  BY <1>3, <1>4, <1>6, InHandStays
<1>8. NoneLost(fs', disk', spent')
  <2>1. ~Deletes(job[j])
    BY <1>1, <1>6, YieldsTransfers
  <2>2. job'[j].cur.from = a
    BY <1>2
  <2> QED  BY <1>6, <1>7, <2>1, <2>2, YieldStays
<1>9. Parted(fs', a, b)
  BY <1>4, <1>6 DEF Parted
<1>10. WalkSafe(fs', disk', spent', n)
  BY <1>2, <1>6, <1>9 DEF WalkSafe
<1>11. Truthful(fs', disk', n)
  <2>1. Truthful(fs, disk, r)
    BY DEF JobSafe
  <2> QED  BY <1>2, <1>7, <2>1 DEF Truthful
<1> QED  BY <1>5, <1>8, <1>10, <1>11 DEF JobSafe

LEMMA TreeSafe ==
  ASSUME LInv, Core', "flush" \notin FaultKinds, NEW j \in Slots, TreeStep(j), Spends(j)
  PROVE  LInv'
<1>1. Core /\ NoneLost(fs, disk, spent) /\ JobSafe(fs, disk, spent, job[j])
  BY DEF LInv
<1>2. NoOther(j) /\ Active(j) /\ job[j].at \in Walking /\ JobOK(job[j])
  BY <1>1, TreeStepIs
<1>3. job[j].at # "unwinding"
  <2>1. job[j].at = "unwinding" => job[j].op = "trash"
    BY <1>2 DEF JobOK, StagesOf
  <2> QED  BY <1>1, <2>1 DEF JobSafe, WalkSafe
<1>4. NoneLost(fs', disk', spent') /\ JobSafe(fs', disk', spent', job'[j])
  <2>1. CASE job[j].at = "copying"
    BY <1>1, <2>1, CopySafe
  <2>2. CASE job[j].at = "removing"
    BY <1>1, <2>2, RemoveSafe
  <2>3. CASE job[j].at = "clearing"
    BY <1>1, <2>3, ClearSafe
  <2> QED  BY <1>2, <1>3, <2>1, <2>2, <2>3 DEF Walking
<1> QED  BY <1>2, <1>4, StillSafe

-------------------------------------------------------------------------------
(* The calls: what a step leaves of a job.                                 *)

LEMMA StageIs ==
  ASSUME Core, NEW j \in Slots, NEW stage, ToStage(j, stage)
  PROVE  NoOther(j) /\ SameBut(job'[j], job[j], {"at", "errs"}) /\ job'[j].at = stage
<1>1. ASSUME NEW r, job' = Put(j, r), DOMAIN r \subseteq {"at", "errs"}, "at" \in DOMAIN r, r.at = stage
      PROVE  NoOther(j) /\ SameBut(job'[j], job[j], {"at", "errs"}) /\ job'[j].at = stage
  <2>1. DOMAIN r \subseteq Fields
    BY <1>1 DEF Fields
  <2>2. NoOther(j) /\ SameBut(job'[j], job[j], DOMAIN r) /\ \A x \in DOMAIN r : job'[j][x] = r[x]
    BY ONLY Core, <1>1, <2>1, PutCore
  <2> QED  BY <1>1, <2>2 DEF SameBut
<1>2. CASE job' = Put(j, [at |-> stage])
  <2> DEFINE r == [at |-> stage]
  <2>1. DOMAIN r = {"at"} /\ r.at = stage /\ job' = Put(j, r)
    BY <1>2
  <2> HIDE DEF r
  <2> QED  BY <1>1, <2>1
<1>3. CASE Error(j, stage)
  <2> DEFINE r == [at |-> stage, errs |-> TRUE]
  <2>1. DOMAIN r = {"at", "errs"} /\ r.at = stage /\ job' = Put(j, r)
    BY <1>3 DEF Error
  <2> HIDE DEF r
  <2> QED  BY <1>1, <2>1
<1> QED  BY <1>2, <1>3 DEF ToStage

LEMMA SkipIs ==
  ASSUME Core, NEW j \in Slots, NEW failed, Skip(j, failed)
  PROVE  NoOther(j) /\ SameBut(job'[j], job[j], {"todo", "errs"}) /\ job'[j].todo = Tail(job[j].todo)
<1> DEFINE r == [todo |-> Tail(job[j].todo), errs |-> job[j].errs \/ failed]
<1>1. DOMAIN r = {"todo", "errs"} /\ r.todo = Tail(job[j].todo) /\ job' = Put(j, r)
  BY DEF Skip
<1> HIDE DEF r
<1>2. DOMAIN r \subseteq Fields
  BY <1>1 DEF Fields
<1>3. NoOther(j) /\ SameBut(job'[j], job[j], DOMAIN r) /\ \A x \in DOMAIN r : job'[j][x] = r[x]
  BY <1>1, <1>2, PutCore
<1> QED  BY <1>1, <1>3

LEMMA WalkIs ==
  ASSUME Core, NEW j \in Slots, NEW stage, NEW do, job' = Walk(j, stage, do)
  PROVE  /\ NoOther(j) /\ SameBut(job'[j], job[j], {"at", "ok", "stack"}) /\ job'[j].at = stage
         /\ stage \in {"copying", "removing"} => job'[j].stack = <<Visit(do, job[j].cur.from, job[j].cur.to)>>
<1> DEFINE a == IF stage \in {"clearing", "unwinding"} THEN job[j].cur.to ELSE job[j].cur.from
           st == <<Visit(do, a, job[j].cur.to)>>
           r == [at |-> stage, ok |-> TRUE, stack |-> st]
<1>1. DOMAIN r = {"at", "ok", "stack"} /\ r.at = stage /\ r.stack = st
  OBVIOUS
<1>2. job' = Put(j, r)
  BY DEF Walk
<1>3. stage \in {"copying", "removing"} => a = job[j].cur.from
  OBVIOUS
<1> HIDE DEF r, a
<1>4. DOMAIN r \subseteq Fields
  BY <1>1 DEF Fields
<1>5. NoOther(j) /\ SameBut(job'[j], job[j], DOMAIN r) /\ \A x \in DOMAIN r : job'[j][x] = r[x]
  BY ONLY Core, <1>2, <1>4, PutCore
<1> QED  BY <1>1, <1>3, <1>5

Told(j, tree) == job[j].honest /\ (job[j].op \notin {"remove", "empty"} => Holds(disk, tree, job[j].cur.to, job[j].had))
LEMMA ReportIs ==
  ASSUME Core, NEW j \in Slots, NEW tree, NEW stage, job' = Report(j, tree, stage)
  PROVE  /\ NoOther(j) /\ SameBut(job'[j], job[j], {"at", "out", "honest"}) /\ job'[j].at = stage
         /\ job'[j].honest = Told(j, tree)
<1> DEFINE r == [at |-> stage, out |-> Append(job[j].out, job[j].cur), honest |-> Told(j, tree)]
<1>1. DOMAIN r = {"at", "out", "honest"} /\ r.at = stage /\ r.honest = Told(j, tree)
  OBVIOUS
<1>2. job' = Put(j, r)
  BY DEF Report, Told
<1> HIDE DEF r
<1>3. DOMAIN r \subseteq Fields
  BY <1>1 DEF Fields
<1>4. NoOther(j) /\ SameBut(job'[j], job[j], DOMAIN r) /\ \A x \in DOMAIN r : job'[j][x] = r[x]
  BY ONLY Core, <1>2, <1>3, PutCore
<1> QED  BY <1>1, <1>4

(* A step that touches no file.                                            *)
LEMMA NoFileTouched ==
  ASSUME LInv, Core', NEW j \in Slots, Active(j), Spends(j), UNCHANGED <<fs, disk>>, NoOther(j), JobSafe(fs, disk, spent, job'[j])
  PROVE  LInv'
<1>1. spent' = spent
  BY NothingSpent
<1>2. NoneLost(fs', disk', spent') /\ JobSafe(fs', disk', spent', job'[j])
  BY <1>1 DEF LInv
<1> QED  BY <1>2, StillSafe

(* Only copy and move have places of their own to look after.              *)
LEMMA NoPlaces ==
  ASSUME NEW r, r.op \notin {"copy", "move"}
  PROVE  \A t : ListsOK(t, r) /\ PlacesOK(t, r)
BY DEF ListsOK, PlacesOK, Transferring, InHand, Waiting, FirstLoop, SecondLoop

Between == {"space", "next", "next2", "measure"}
LEMMA BetweenSafe ==
  ASSUME NEW r, r.at \in Between \cup Resting, r.op # "moveBack" => r.honest = TRUE
  PROVE  \A t, data, gone : WalkSafe(t, data, gone, r) /\ Truthful(t, data, r)
BY DEF WalkSafe, Truthful, Between, Resting

LEMMA HonestSoFar ==
  ASSUME NEW r, NEW n, NEW t, NEW data, Truthful(t, data, r), n.op = r.op, n.honest = r.honest
  PROVE  n.op # "moveBack" => n.honest = TRUE
BY DEF Truthful

(* The items that are left, in their places.                               *)
LEMMA TailOf ==
  ASSUME NEW S, NEW s \in Seq(S), s # <<>>
  PROVE  /\ Tail(s) \in Seq(S) /\ \A i \in DOMAIN Tail(s) : i + 1 \in DOMAIN s /\ i + 1 # 1 /\ Tail(s)[i] = s[i + 1]
         /\ 1 \in DOMAIN s /\ Head(s) = s[1]
         /\ \A i, k \in DOMAIN Tail(s) : i # k => i + 1 # k + 1
OBVIOUS

LEMMA MeasureSafe == ASSUME LInv, Core', NEW j \in Slots, Measure(j), Spends(j) PROVE LInv'
<1>1. UNCHANGED <<fs, disk>> /\ job[j].at \in {"space", "measure"}
  BY DEF Measure, At
<1>2. Core /\ JobSafe(fs, disk, spent, job[j])
  BY DEF LInv
<1>3. Active(j) /\ JobOK(job[j]) /\ Truthful(fs, disk, job[j]) /\ ListsOK(fs, job[j]) /\ PlacesOK(fs, job[j])
  BY <1>1, <1>2, Idle DEF JobSafe, Walking
<1>4. CASE ToStage(j, "returned")
  <2>1. NoOther(j) /\ SameBut(job'[j], job[j], {"at", "errs"}) /\ job'[j].at = "returned"
    BY <1>2, <1>4, StageIs
  <2>2. job'[j].op = job[j].op /\ job'[j].honest = job[j].honest
    BY <2>1 DEF SameBut, Fields
  <2>3. JobSafe(fs, disk, spent, job'[j])
    <3>1. job'[j].op # "moveBack" => job'[j].honest = TRUE
      BY <1>3, <2>2, HonestSoFar
    <3>2. job'[j].at \in Resting
      BY <2>1 DEF Resting
    <3> QED  BY <3>1, <3>2, RestingSafe
  <2> QED  BY <1>1, <1>3, <2>1, <2>3, NoFileTouched
<1>5. CASE At(j, "space") /\ ToStage(j, "next")
  <2>1. NoOther(j) /\ SameBut(job'[j], job[j], {"at", "errs"}) /\ job'[j].at = "next"
    BY <1>2, <1>5, StageIs
  <2>2. job'[j].op = job[j].op /\ job'[j].honest = job[j].honest /\ job'[j].todo = job[j].todo /\ job'[j].dest = job[j].dest
        /\ job'[j].later = job[j].later
    BY <2>1 DEF SameBut, Fields
  <2>3. job[j].op = "copy" /\ job[j].at = "space"
    BY <1>3, <1>5 DEF At, JobOK, StagesOf
  <2>4. WalkSafe(fs, disk, spent, job'[j]) /\ Truthful(fs, disk, job'[j])
    BY <1>3, <2>1, <2>2, HonestSoFar, BetweenSafe DEF Between
  <2>5. ListsOK(fs, job'[j]) /\ PlacesOK(fs, job'[j])
    BY <1>3, <2>2, <2>3 DEF ListsOK, PlacesOK, Transferring, InHand, Waiting, FirstLoop, SecondLoop
  <2> QED  BY <1>1, <1>3, <2>1, <2>4, <2>5, NoFileTouched DEF JobSafe
<1>6. CASE job[j].at = "measure" /\ job' = Put(j, [at |-> "next2", todo |-> job[j].later, later |-> <<>>])
  <2> DEFINE r == [at |-> "next2", todo |-> job[j].later, later |-> <<>>]
             n == job'[j]
  <2>1. DOMAIN r = {"at", "todo", "later"} /\ r.at = "next2" /\ r.todo = job[j].later /\ r.later = <<>> /\ job' = Put(j, r)
    BY <1>6
  <2> HIDE DEF r
  <2>2. DOMAIN r \subseteq Fields
    BY <2>1 DEF Fields
  <2>3. NoOther(j) /\ SameBut(n, job[j], DOMAIN r) /\ \A x \in DOMAIN r : n[x] = r[x]
    BY <1>2, <2>1, <2>2, PutCore
  <2>4. n.at = "next2" /\ n.todo = job[j].later /\ n.op = job[j].op /\ n.dest = job[j].dest /\ n.policy = job[j].policy
        /\ n.honest = job[j].honest
    BY <2>1, <2>3 DEF SameBut, Fields
  <2>5. job[j].op = "move"
    BY <1>3, <1>6 DEF JobOK, StagesOf
  <2>6. Waiting(n) = Waiting(job[j]) /\ ~InHand(n) /\ ~FirstLoop(n) /\ ~Transferring(n) /\ (Yields(n) <=> Yields(job[j]))
    BY <1>6, <2>4, <2>5 DEF Waiting, InHand, FirstLoop, SecondLoop, Transferring, Yields
  <2>7. ListsOK(fs, n) /\ PlacesOK(fs, n)
    BY <1>3, <2>4, <2>5, <2>6 DEF ListsOK, PlacesOK
  <2>8. WalkSafe(fs, disk, spent, n) /\ Truthful(fs, disk, n)
    BY <1>3, <2>4, HonestSoFar, BetweenSafe DEF Between
  <2> QED  BY <1>1, <1>3, <2>3, <2>7, <2>8, NoFileTouched DEF JobSafe
<1> QED  BY <1>1, <1>4, <1>5, <1>6 DEF Measure, ToStage, At

-------------------------------------------------------------------------------
(* Steps of a call that touch no file of an item.                          *)

(* What every step of a call starts from.                                  *)
LEMMA CallFrom ==
  ASSUME LInv, NEW j \in Slots, job[j].at \notin Walking \/ job[j].stack = <<>>, job[j].at # "unused", job[j].at # "ended"
  PROVE  /\ Core /\ JobSafe(fs, disk, spent, job[j]) /\ Active(j) /\ JobOK(job[j]) /\ TreeOK(fs) /\ NoneLost(fs, disk, spent)
         /\ WalkSafe(fs, disk, spent, job[j]) /\ Truthful(fs, disk, job[j]) /\ ListsOK(fs, job[j]) /\ PlacesOK(fs, job[j])
BY DEF LInv, JobSafe, Core, Active

(* A step that leads to a stage where nothing is in hand. *)
LEMMA RestsSafe ==
  ASSUME LInv, Core', NEW j \in Slots, Active(j), Spends(j), UNCHANGED <<fs, disk>>, NoOther(j), SameBut(job'[j], job[j], {"at", "errs"}),
         job'[j].at \in Resting
  PROVE  LInv'
<1>1. Truthful(fs, disk, job[j])
  BY DEF LInv, JobSafe
<1>2. job'[j].op = job[j].op /\ job'[j].honest = job[j].honest
  BY DEF SameBut, Fields
<1>3. job'[j].op # "moveBack" => job'[j].honest = TRUE
  BY <1>1, <1>2, HonestSoFar
<1>4. JobSafe(fs, disk, spent, job'[j])
  BY <1>3, RestingSafe
<1> QED  BY <1>4, NoFileTouched

LEMMA LoopOverSafe == ASSUME LInv, Core', NEW j \in Slots, LoopOver(j), Spends(j) PROVE LInv'
<1> DEFINE n == job'[j]
           r == job[j]
           stage == IF At(j, "next") /\ job[j].later # <<>> THEN "measure"
                    ELSE IF job[j].op = "remove" THEN "forget" ELSE "returned"
<1>1. UNCHANGED <<fs, disk>> /\ job[j].at \in {"next", "next2"} /\ job' = Put(j, [at |-> stage])
  BY DEF LoopOver, At
<1>2. Core /\ Active(j) /\ JobOK(r) /\ Truthful(fs, disk, r) /\ ListsOK(fs, r) /\ PlacesOK(fs, r)
  BY <1>1, CallFrom DEF Walking
<1>3. NoOther(j) /\ SameBut(n, r, {"at", "errs"}) /\ n.at = stage
  <2> HIDE DEF stage
  <2>1. ToStage(j, stage)
    BY <1>1 DEF ToStage
  <2> QED  BY <1>2, <2>1, StageIs
<1>4. CASE stage \in Resting
  BY <1>1, <1>2, <1>3, <1>4, RestsSafe
<1>5. CASE r.at = "next" /\ r.later # <<>> /\ stage = "measure"
  <2>1. n.op = r.op /\ n.dest = r.dest /\ n.policy = r.policy /\ n.honest = r.honest /\ n.later = r.later /\ n.todo = r.todo
    BY <1>3 DEF SameBut, Fields
  <2>2. r.op = "move"
    BY <1>2, <1>5 DEF JobOK
  <2>3. Waiting(n) = Waiting(r) /\ ~InHand(n) /\ ~FirstLoop(n) /\ ~Transferring(n) /\ (Yields(n) <=> Yields(r))
    BY <1>3, <1>5, <2>1, <2>2 DEF Waiting, InHand, FirstLoop, SecondLoop, Transferring, Yields
  <2>4. ListsOK(fs, n) /\ PlacesOK(fs, n)
    BY <1>2, <2>1, <2>2, <2>3 DEF ListsOK, PlacesOK
  <2>5. WalkSafe(fs, disk, spent, n) /\ Truthful(fs, disk, n)
    BY <1>2, <1>3, <1>5, <2>1, HonestSoFar, BetweenSafe DEF Between
  <2> QED  BY <1>1, <1>2, <1>3, <2>4, <2>5, NoFileTouched DEF JobSafe
<1>6. stage \in Resting \/ (r.at = "next" /\ r.later # <<>> /\ stage = "measure")
  BY DEF Resting, At
<1> QED  BY <1>4, <1>5, <1>6

LEMMA UnwoundSafe == ASSUME LInv, Core', NEW j \in Slots, Unwound(j), Spends(j) PROVE LInv'
<1>1. UNCHANGED <<fs, disk>> /\ ToStage(j, "unrecord") /\ job[j].at = "unwinding" /\ job[j].stack = <<>>
  BY DEF Unwound, WalkDone, At, ToStage
<1>2. Core /\ Active(j)
  BY <1>1, CallFrom
<1>3. NoOther(j) /\ SameBut(job'[j], job[j], {"at", "errs"}) /\ job'[j].at \in Resting
  BY <1>1, <1>2, StageIs DEF Resting
<1> QED  BY <1>1, <1>2, <1>3, RestsSafe

LEMMA ForgetDeletedSafe == ASSUME LInv, Core', NEW j \in Slots, ForgetDeleted(j), Spends(j) PROVE LInv'
<1>1. UNCHANGED <<fs, disk>> /\ ToStage(j, "returned") /\ job[j].at = "forget"
  BY DEF ForgetDeleted, At, ToStage
<1>2. Core /\ Active(j)
  BY <1>1, CallFrom DEF Walking
<1>3. NoOther(j) /\ SameBut(job'[j], job[j], {"at", "errs"}) /\ job'[j].at \in Resting
  BY <1>1, <1>2, StageIs DEF Resting
<1> QED  BY <1>1, <1>2, <1>3, RestsSafe

(* On to the next item, of a call that has no places of its own.           *)
LEMMA NextSafe ==
  ASSUME LInv, Core', NEW j \in Slots, Active(j), Spends(j), UNCHANGED <<fs, disk>>, NoOther(j), SameBut(job'[j], job[j], {"at", "todo", "errs"}),
         job'[j].at = "next", job[j].op \notin {"copy", "move"}
  PROVE  LInv'
<1>1. Truthful(fs, disk, job[j])
  BY DEF LInv, JobSafe
<1>2. job'[j].op = job[j].op /\ job'[j].honest = job[j].honest
  BY DEF SameBut, Fields
<1>3. WalkSafe(fs, disk, spent, job'[j]) /\ Truthful(fs, disk, job'[j])
  BY <1>1, <1>2, HonestSoFar, BetweenSafe DEF Between
<1>4. ListsOK(fs, job'[j]) /\ PlacesOK(fs, job'[j])
  BY <1>2, NoPlaces
<1> QED  BY <1>3, <1>4, NoFileTouched DEF JobSafe

LEMMA UnrecordSafe == ASSUME LInv, Core', NEW j \in Slots, Unrecord(j), Spends(j) PROVE LInv'
<1>1. UNCHANGED <<fs, disk>> /\ ToStage(j, "next") /\ job[j].at = "unrecord"
  BY DEF Unrecord, At, ToStage
<1>2. Core /\ Active(j) /\ JobOK(job[j])
  BY <1>1, CallFrom DEF Walking
<1>3. job[j].op = "trash"
  BY <1>1, <1>2 DEF JobOK, StagesOf
<1>4. NoOther(j) /\ SameBut(job'[j], job[j], {"at", "errs"}) /\ job'[j].at = "next"
  BY <1>1, <1>2, StageIs
<1>5. SameBut(job'[j], job[j], {"at", "todo", "errs"})
  BY <1>4 DEF SameBut
<1> QED  BY <1>1, <1>2, <1>3, <1>4, <1>5, NextSafe

(* An item is skipped. *)
LEMMA SkippedSafe ==
  ASSUME LInv, Core', NEW j \in Slots, job[j].at = "next", Spends(j), UNCHANGED <<fs, disk>>, NEW failed, Skip(j, failed),
         job[j].op \notin {"copy", "move"}
  PROVE  LInv'
<1>1. Core /\ Active(j)
  BY CallFrom DEF Walking
<1>2. NoOther(j) /\ SameBut(job'[j], job[j], {"todo", "errs"})
  BY <1>1, SkipIs
<1>3. SameBut(job'[j], job[j], {"at", "todo", "errs"}) /\ job'[j].at = "next"
  BY <1>2 DEF SameBut, Fields
<1> QED  BY <1>1, <1>2, <1>3, NextSafe

LEMMA RemoveRecordSafe == ASSUME LInv, Core', NEW j \in Slots, RemoveRecord(j), Spends(j) PROVE LInv'
<1>1. UNCHANGED <<fs, disk>> /\ job[j].at = "next" /\ job[j].op = "empty" /\ \E failed \in BOOLEAN : Skip(j, failed)
  BY DEF RemoveRecord, Taking, At
<1> QED  BY <1>1, SkippedSafe

LEMMA ListTrashSafe == ASSUME LInv, Core', NEW j \in Slots, ListTrash(j), Spends(j) PROVE LInv'
<1> DEFINE records == SetToSeq({p \in Kids[job[j].dest] : info[p] # <<>>})
           td == [i \in DOMAIN KidsIn(fs, job[j].dest) |-> Pair(KidsIn(fs, job[j].dest)[i], <<>>)]
                                \o [i \in DOMAIN records |-> Pair(<<>>, records[i])]
           r == [at |-> "next", todo |-> td]
<1>1. UNCHANGED <<fs, disk>> /\ job[j].at = "list" /\ job' = Put(j, r)
  BY DEF ListTrash, At
<1>2. Core /\ Active(j) /\ JobOK(job[j])
  BY <1>1, CallFrom DEF Walking
<1>3. job[j].op = "empty"
  BY <1>1, <1>2 DEF JobOK, StagesOf
<1>4. DOMAIN r = {"at", "todo"} /\ r.at = "next"
  OBVIOUS
<1> HIDE DEF r
<1>5. DOMAIN r \subseteq Fields
  BY <1>4 DEF Fields
<1>6. NoOther(j) /\ SameBut(job'[j], job[j], DOMAIN r) /\ \A x \in DOMAIN r : job'[j][x] = r[x]
  BY <1>1, <1>2, <1>5, PutCore
<1>7. SameBut(job'[j], job[j], {"at", "todo", "errs"}) /\ job'[j].at = "next"
  BY <1>4, <1>6 DEF SameBut
<1> QED  BY <1>1, <1>2, <1>3, <1>6, <1>7, NextSafe

-------------------------------------------------------------------------------
(* moveBack, restore, trash and remove take an item up.                    *)

(* A step that takes no file away. *)
AllStay == disk' = disk /\ \A q \in Paths : fs[q] # NoEnt => fs'[q] = fs[q]
LEMMA StayIs ==
  ASSUME AllStay, TreeOK(fs), spent \subseteq spent'
  PROVE  /\ NoneLost(fs, disk, spent) => NoneLost(fs', disk', spent')
         /\ \A p \in Paths : Contents(fs, disk, p) \subseteq Contents(fs', disk', p)
<1>1. \A q \in Paths : fs[q] \in Inodes => fs'[q] = fs[q] /\ disk'[fs[q]] = disk[fs[q]]
  BY Kinds DEF AllStay
<1>2. NoneLost(fs, disk, spent) => NoneLost(fs', disk', spent')
  BY <1>1 DEF NoneLost, HasFile
<1>3. ASSUME NEW p \in Paths, NEW c \in Contents(fs, disk, p) PROVE c \in Contents(fs', disk', p)
  <2>1. PICK q \in {r \in Below[p] : fs[r] \in Inodes} : c = <<SubSeq(q, Len(p) + 1, Len(q)), disk[fs[q]]>>
    BY <1>3 DEF Contents
  <2>2. fs'[q] = fs[q] /\ disk'[fs[q]] = disk[fs[q]]
    BY <1>1, <2>1, BelowIs
  <2>3. q \in {r \in Below[p] : fs'[r] \in Inodes} /\ c = <<SubSeq(q, Len(p) + 1, Len(q)), disk'[fs'[q]]>>
    BY <2>1, <2>2
  <2> QED  BY <2>3 DEF Contents
<1> QED  BY <1>2, <1>3

(* An item of moveBack, restore or trash, on its way to a free place.      *)
LEMMA OnItsWaySafe ==
  ASSUME LInv, Core', NEW j \in Slots, Active(j), Spends(j), NoOther(j), SameBut(job'[j], job[j], TakenFields), AllStay,
         NEW a \in Paths, NEW b \in Paths, job'[j].cur = Pair(a, b), job'[j].at = "rename", job'[j].had = Contents(fs, disk, a),
         fs'[b] = NoEnt, job[j].op \in {"moveBack", "restore", "trash"}, job[j].op = "trash" => VolumeOf(a) = VolumeOf(b)
  PROVE  LInv'
<1> DEFINE n == job'[j]
<1>1. n.op = job[j].op /\ n.honest = job[j].honest /\ n.cur.from = a /\ n.cur.to = b
  BY PairIs DEF SameBut, Fields, TakenFields
<1>2. NoneLost(fs, disk, spent) /\ Truthful(fs, disk, job[j]) /\ TreeOK(fs) /\ spent \subseteq spent'
  BY SpentGrows DEF LInv, JobSafe, Core
<1>3. NoneLost(fs', disk', spent') /\ Contents(fs, disk, a) \subseteq Contents(fs', disk', a)
  BY <1>2, StayIs
<1>4. n.op # "moveBack" => n.honest = TRUE
  BY <1>1, <1>2, HonestSoFar
<1>5. WalkSafe(fs', disk', spent', n)
  BY <1>1 DEF WalkSafe
<1>6. Truthful(fs', disk', n)
  BY <1>1, <1>3, <1>4 DEF Truthful
<1>7. ListsOK(fs', n) /\ PlacesOK(fs', n)
  BY <1>1, NoPlaces
<1> QED  BY <1>3, <1>5, <1>6, <1>7, StillSafe DEF JobSafe

(* The place something goes back to, its folder made, is free. *)
LEMMA BackIsFree ==
  ASSUME Core, NEW p \in Paths, fs' = IF CanMkPath(fs, Parent(p)) THEN MkPath(fs, Parent(p)) ELSE fs, NEW back \in FreeNames(fs, p)
  PROVE  back \in Paths /\ fs'[back] = NoEnt
<1> DEFINE d == Parent(p)
           S == {q \in Paths : fs[q] = NoEnt}
<1>1. back \in FirstOpen(p, S)
  BY DEF FreeNames
<1>2. back \in Paths /\ fs[back] = NoEnt
  BY <1>1, FirstOpenIn
<1>3. d \in Words /\ p \in Words /\ Len(p) # 0
  BY ParentIs, PathsAreWords
<1>4. p = Append(d, Last(p))
  <2>1. p \in Seq(PathNames) /\ p # <<>>
    BY <1>3 DEF Words
  <2> QED  BY <2>1 DEF Parent, Front, Last
<1>5. Parent(back) = d
  <2> DEFINE x == Last(p)
  <2>1. back \in FirstOpen(p, S) /\ d \in Words /\ p = Append(d, x)
    BY <1>1, <1>3, <1>4
  <2> HIDE DEF d, S, x
  <2>2. Parent(back) = d
    BY ONLY <2>1, FirstOpenIs
  <2> QED  BY <2>2
<1>6. TreeOK(fs)
  BY DEF Core
<1>7. CASE CanMkPath(fs, d)
  <2>1. \A q \in Paths : MkPath(fs, d)[q] # fs[q] => IsPrefix(q, d)
    <3> HIDE DEF d
    <3> QED  BY <1>3, <1>6, <1>7, MkPathIs
  <2>2. ~IsPrefix(back, d)
    <3>1. IsPrefix(d, back) /\ d # back /\ back \in Words
      BY <1>2, <1>5, ParentIs, PathsAreWords
    <3> QED  BY <1>3, <3>1, PrefixOrder
  <2> QED  BY <1>2, <1>7, <2>1, <2>2
<1>8. CASE ~CanMkPath(fs, d)
  BY <1>2, <1>8
<1> QED  BY <1>2, <1>7, <1>8

LEMMA MoveBackItemSafe == ASSUME LInv, Core', NEW j \in Slots, MoveBackItem(j), Spends(j) PROVE LInv'
<1>1. job[j].at = "next" /\ job[j].op = "moveBack" /\ job[j].todo # <<>> /\ disk' = disk
  BY DEF MoveBackItem, Taking, At
<1>2. Core /\ Active(j) /\ job[j].stack = <<>>
  BY <1>1, Idle DEF LInv, Walking
<1>3. Item(j).from \in Paths /\ Item(j).to \in Paths
  BY <1>1, <1>2, ItemIs DEF ItemOK
<1>4. CASE Skip(j, TRUE) /\ UNCHANGED fs
  BY <1>1, <1>4, SkippedSafe
<1>5. ASSUME NEW back \in FreeNames(fs, Item(j).from), GoesToRename(j, Item(j).to, back),
             fs' = IF CanMkPath(fs, Parent(Item(j).from)) THEN MkPath(fs, Parent(Item(j).from)) ELSE fs
      PROVE  LInv'
  <2> DEFINE a == Item(j).to
             p == Item(j).from
  <2>1. p \in Paths /\ a \in Paths /\ back \in FreeNames(fs, p) /\ fs' = (IF CanMkPath(fs, Parent(p)) THEN MkPath(fs, Parent(p)) ELSE fs)
        /\ GoesToRename(j, a, back)
    BY <1>3, <1>5
  <2> HIDE DEF a, p
  <2>2. back \in Paths /\ fs'[back] = NoEnt
    BY <1>2, <2>1, BackIsFree
  <2>3. AllStay
    BY <1>1, <1>2, <2>1, MadeFolder DEF AllStay
  <2>4. /\ NoOther(j) /\ SameBut(job'[j], job[j], TakenFields)
        /\ job'[j].cur = Pair(a, back) /\ job'[j].at = "rename" /\ job'[j].had = Contents(fs, disk, a)
    BY ONLY <1>2, <2>1, TakenRename
  <2>5. job[j].op = "moveBack" /\ (job[j].op = "trash" => VolumeOf(a) = VolumeOf(back))
    BY <1>1
  <2> QED  BY <1>2, <2>1, <2>2, <2>3, <2>4, <2>5, OnItsWaySafe
<1> QED  BY <1>4, <1>5 DEF MoveBackItem, GoesToRename

LEMMA RestoreItemSafe == ASSUME LInv, Core', NEW j \in Slots, RestoreItem(j), Spends(j) PROVE LInv'
<1>1. job[j].at = "next" /\ job[j].op = "restore" /\ job[j].todo # <<>> /\ disk' = disk
  BY DEF RestoreItem, Taking, At
<1>2. Core /\ Active(j) /\ job[j].stack = <<>>
  BY <1>1, Idle DEF LInv, Walking
<1>3. Item(j).from \in Paths /\ Item(j).from \in Trashed
  BY <1>1, <1>2, ItemIs DEF ItemOK
<1>4. info[Item(j).from] \in Records
  BY <1>2, <1>3 DEF Core
<1>5. CASE Skip(j, TRUE) /\ UNCHANGED fs
  BY <1>1, <1>5, SkippedSafe
<1>6. ASSUME NEW back \in FreeNames(fs, info[Item(j).from]), GoesToRename(j, Item(j).from, back), Restorable(Item(j).from),
             fs' = IF CanMkPath(fs, Parent(info[Item(j).from])) THEN MkPath(fs, Parent(info[Item(j).from])) ELSE fs
      PROVE  LInv'
  <2> DEFINE a == Item(j).from
             p == info[Item(j).from]
  <2>1. p \in Paths /\ a \in Paths /\ back \in FreeNames(fs, p) /\ fs' = (IF CanMkPath(fs, Parent(p)) THEN MkPath(fs, Parent(p)) ELSE fs)
        /\ GoesToRename(j, a, back)
    <3>1. p \in Paths
      BY <1>4, <1>6 DEF Records, MaybePaths, Restorable
    <3> QED  BY <1>3, <1>6, <3>1
  <2> HIDE DEF a, p
  <2>2. back \in Paths /\ fs'[back] = NoEnt
    BY <1>2, <2>1, BackIsFree
  <2>3. AllStay
    BY <1>1, <1>2, <2>1, MadeFolder DEF AllStay
  <2>4. /\ NoOther(j) /\ SameBut(job'[j], job[j], TakenFields)
        /\ job'[j].cur = Pair(a, back) /\ job'[j].at = "rename" /\ job'[j].had = Contents(fs, disk, a)
    BY ONLY <1>2, <2>1, TakenRename
  <2>5. job[j].op = "restore" /\ (job[j].op = "trash" => VolumeOf(a) = VolumeOf(back))
    BY <1>1
  <2> QED  BY <1>2, <2>1, <2>2, <2>3, <2>4, <2>5, OnItsWaySafe
<1> QED  BY <1>5, <1>6 DEF RestoreItem, GoesToRename

(* A name in a trash is a name on its drive. *)
LEMMA InThatTrash == ASSUME NEW a, NEW x, NEW S, NEW q \in FirstOpen(<<a, x>>, S) PROVE Head(q) = a
<1> DEFINE own == <<a, x>>
<1>1. PICK i \in DOMAIN Numbered(own) : q = Numbered(own)[i]
  BY DEF FirstOpen
<1>2. Parent(own) = <<a>>
  <2>1. Len(own) = 2 /\ own[1] = a
    OBVIOUS
  <2>2. Parent(own) = SubSeq(own, 1, 1)
    BY <2>1 DEF Parent, Front
  <2> QED  BY <2>2
<1>3. q = own \/ \E y : q = Append(<<a>>, y)
  BY <1>1, <1>2 DEF Numbered
<1> QED  BY <1>3

LEMMA TrashItemSafe == ASSUME LInv, Core', TrashNearby, NEW j \in Slots, TrashItem(j), Spends(j) PROVE LInv'
<1>1. job[j].at = "next" /\ job[j].op = "trash" /\ job[j].todo # <<>> /\ UNCHANGED <<fs, disk>>
  BY DEF TrashItem, Taking, At
<1>2. Core /\ Active(j) /\ job[j].stack = <<>>
  BY <1>1, Idle DEF LInv, Walking
<1>3. Item(j).from \in Paths
  BY <1>1, <1>2, ItemIs
<1>4. CASE Skip(j, TRUE)
  BY <1>1, <1>4, SkippedSafe
<1>5. ASSUME NEW q \in FirstOpen(<<TrashOf[Head(Item(j).from)], Last(Item(j).from)>>, {r \in Trashed : fs[r] = NoEnt /\ info[r] = <<>>}),
             GoesToRename(j, Item(j).from, q)
      PROVE  LInv'
  <2> DEFINE a == Item(j).from
  <2>1. q \in Trashed /\ q \in Paths /\ fs[q] = NoEnt
    BY FirstOpenIn DEF Trashed
  <2>2. VolumeOf(a) = VolumeOf(q)
    <3>1. Head(q) = TrashOf[Head(a)]
      BY <1>5, InThatTrash
    <3>2. VolumeOf(<<TrashOf[Head(a)]>>) = VolumeOf(a)
      BY <1>3 DEF TrashNearby
    <3> QED  BY <3>1, <3>2 DEF VolumeOf
  <2>3. a \in Paths /\ GoesToRename(j, a, q)
    BY <1>3, <1>5
  <2> HIDE DEF a
  <2>4. AllStay
    BY <1>1 DEF AllStay
  <2>5. /\ NoOther(j) /\ SameBut(job'[j], job[j], TakenFields)
        /\ job'[j].cur = Pair(a, q) /\ job'[j].at = "rename" /\ job'[j].had = Contents(fs, disk, a)
    BY ONLY <1>2, <2>3, TakenRename
  <2> QED  BY <1>1, <1>2, <2>1, <2>2, <2>3, <2>4, <2>5, OnItsWaySafe
<1> QED  BY <1>4, <1>5 DEF TrashItem, GoesToRename

LEMMA RemoveItemSafe == ASSUME LInv, Core', NEW j \in Slots, RemoveItem(j), Spends(j) PROVE LInv'
<1> DEFINE a == Item(j).from
           b == <<>>
           n == job'[j]
<1>1. job[j].at = "next" /\ job[j].op \in {"remove", "empty"} /\ UNCHANGED <<fs, disk>>
  BY DEF RemoveItem, Taking, At
<1>2. Core /\ Active(j) /\ Truthful(fs, disk, job[j])
  BY <1>1, CallFrom DEF Walking
<1>3. Goes(j, "removing", <<Visit("rm", a, b)>>, a, b)
  BY DEF RemoveItem, Goes
<1>4. NoOther(j) /\ SameBut(n, job[j], TakenFields) /\ n.at = "removing" /\ n.op = job[j].op
  <2> DEFINE st == <<Visit("rm", a, b)>>
  <2>1. Goes(j, "removing", st, a, b)
    BY <1>3
  <2> HIDE DEF st, a, b
  <2>2. TakenUp(j, "removing", st, a, b)
    BY ONLY <1>2, <2>1, TakenIs
  <2> QED  BY <2>2 DEF TakenUp
<1>5. n.honest = job[j].honest
  BY <1>4 DEF SameBut, Fields, TakenFields
<1>6. ListsOK(fs, n) /\ PlacesOK(fs, n)
  BY <1>1, <1>4, NoPlaces
<1>7. WalkSafe(fs, disk, spent, n) /\ Truthful(fs, disk, n)
  BY <1>1, <1>2, <1>4, <1>5 DEF WalkSafe, Truthful, Deletes
<1> QED  BY <1>1, <1>2, <1>4, <1>6, <1>7, NoFileTouched DEF JobSafe

-------------------------------------------------------------------------------
(* An item is reported, or given up.                                       *)

(* Nothing is in hand any more; the lists are what they were.              *)
LEMMA ListsAfter ==
  ASSUME NEW r, NEW n, NEW t, NEW u, ListsOK(t, r), PlacesOK(t, r), ~InHand(n), Waiting(n) = Waiting(r),
         n.op = r.op, n.todo = r.todo, n.later = r.later, n.dest = r.dest, n.policy = r.policy,
         FirstLoop(n) => FirstLoop(r), Transferring(n) => Transferring(r),
         r.op = "move" /\ ~Yields(r) => \A i \in DOMAIN Waiting(r) : u[Waiting(r)[i].to] = NoEnt
  PROVE  ListsOK(u, n) /\ PlacesOK(u, n)
<1>1. Yields(n) <=> Yields(r)
  BY DEF Yields
<1>2. ListsOK(u, n)
  BY DEF ListsOK
<1>3. PlacesOK(u, n)
  BY <1>1 DEF PlacesOK
<1> QED  BY <1>2, <1>3

(* From the end of an item on to the next. *)
LEMMA ListsAfterItem ==
  ASSUME NEW r, NEW n, NEW X \in SUBSET {"at", "ok", "stack", "errs", "out", "honest"}, SameBut(n, r, X), ListsOK(fs, r), PlacesOK(fs, r),
         \/ r.op = "copy" /\ r.at = "copying" /\ n.at = "next"
         \/ r.op = "move" /\ r.at \in {"copying", "removing"} /\ n.at = "next2"
         \/ r.op = "move" /\ r.at = "rename" /\ n.at = "next"
         \/ r.op \notin {"copy", "move"},
         r.op = "move" /\ ~Yields(r) => \A i \in DOMAIN Waiting(r) : fs'[Waiting(r)[i].to] = NoEnt
  PROVE  ListsOK(fs', n) /\ PlacesOK(fs', n)
<1>1. /\ n.op = r.op /\ n.todo = r.todo /\ n.later = r.later /\ n.dest = r.dest /\ n.policy = r.policy
  BY DEF SameBut, Fields
<1>2. CASE r.op \notin {"copy", "move"}
  BY <1>1, <1>2, NoPlaces
<1>3. CASE r.op \in {"copy", "move"}
  <2>1. ~InHand(n) /\ Waiting(n) = Waiting(r) /\ (FirstLoop(n) => FirstLoop(r)) /\ (Transferring(n) => Transferring(r))
    BY <1>1, <1>3 DEF InHand, Waiting, FirstLoop, SecondLoop, Transferring
  <2> QED  BY <1>1, <2>1, ListsAfter
<1> QED  BY <1>2, <1>3

(* Places that were free are free where the tree is what it was. *)
LEMMA FreeAsBefore ==
  ASSUME NEW r, PlacesOK(fs, r), fs' = fs
  PROVE  r.op = "move" /\ ~Yields(r) => \A i \in DOMAIN Waiting(r) : fs'[Waiting(r)[i].to] = NoEnt
BY DEF PlacesOK

(* The pair is given to the caller. *)
LEMMA ReportSafe ==
  ASSUME LInv, Core', NEW j \in Slots, Active(j), NoneLost(fs', disk', spent'), NEW stage \in {"next", "next2"},
         job' = Report(j, fs', stage), disk' = disk,
         job[j].op \notin {"moveBack", "remove", "empty"} => job[j].had \subseteq Contents(fs', disk, job[j].cur.to),
         \/ job[j].op = "copy" /\ job[j].at = "copying" /\ stage = "next"
         \/ job[j].op = "move" /\ job[j].at = "removing" /\ stage = "next2"
         \/ job[j].op = "move" /\ job[j].at = "rename" /\ stage = "next"
         \/ job[j].op \notin {"copy", "move"},
         job[j].op = "move" /\ ~Yields(job[j]) => \A i \in DOMAIN Waiting(job[j]) : fs'[Waiting(job[j])[i].to] = NoEnt
  PROVE  LInv'
<1> DEFINE n == job'[j]
           X == {"at", "out", "honest"}
<1>1. Core /\ Truthful(fs, disk, job[j]) /\ ListsOK(fs, job[j]) /\ PlacesOK(fs, job[j])
  BY DEF LInv, JobSafe
<1>2. NoOther(j) /\ SameBut(n, job[j], X) /\ n.at = stage /\ n.honest = Told(j, fs')
  BY <1>1, ReportIs
<1>3. n.op = job[j].op
  BY <1>2 DEF SameBut, Fields
<1>4. n.op # "moveBack" => n.honest = TRUE
  <2>1. job[j].op # "moveBack" => job[j].honest = TRUE
    BY <1>1 DEF Truthful
  <2> QED  BY <1>2, <1>3, <2>1 DEF Told, Holds
<1>5. WalkSafe(fs', disk', spent', n) /\ Truthful(fs', disk', n)
  BY <1>2, <1>4, BetweenSafe DEF Between
<1>6. X \in SUBSET {"at", "ok", "stack", "errs", "out", "honest"}
  OBVIOUS
<1>7. ListsOK(fs', n) /\ PlacesOK(fs', n)
  <2> HIDE DEF X, n
  <2>1. SameBut(n, job[j], X) /\ n.at = stage
    BY <1>2
  <2> QED  BY <1>1, <1>6, <2>1, ListsAfterItem
<1> QED  BY <1>2, <1>5, <1>7, StillSafe DEF JobSafe

(* On to the next item. *)
LEMMA GivenUpSafe ==
  ASSUME LInv, Core', NEW j \in Slots, Active(j), Spends(j), UNCHANGED <<fs, disk>>, NEW stage \in {"next", "next2"}, ToStage(j, stage),
         \/ job[j].op = "copy" /\ job[j].at = "copying" /\ stage = "next"
         \/ job[j].op = "move" /\ job[j].at \in {"copying", "removing"} /\ stage = "next2"
         \/ job[j].op = "move" /\ job[j].at = "rename" /\ stage = "next"
         \/ job[j].op \notin {"copy", "move"}
  PROVE  LInv'
<1> DEFINE n == job'[j]
           X == {"at", "errs"}
<1>1. Core /\ Truthful(fs, disk, job[j]) /\ ListsOK(fs, job[j]) /\ PlacesOK(fs, job[j])
  BY DEF LInv, JobSafe
<1>2. NoOther(j) /\ SameBut(n, job[j], X) /\ n.at = stage
  BY <1>1, StageIs
<1>3. n.op = job[j].op /\ n.honest = job[j].honest
  BY <1>2 DEF SameBut, Fields
<1>4. WalkSafe(fs, disk, spent, n) /\ Truthful(fs, disk, n)
  BY <1>1, <1>2, <1>3, HonestSoFar, BetweenSafe DEF Between
<1>5. X \in SUBSET {"at", "ok", "stack", "errs", "out", "honest"}
  OBVIOUS
<1>6. ListsOK(fs, n) /\ PlacesOK(fs, n)
  <2> HIDE DEF X, n
  <2>1. SameBut(n, job[j], X) /\ n.at = stage /\ fs' = fs
    BY <1>2
  <2>2. job[j].op = "move" /\ ~Yields(job[j]) => \A i \in DOMAIN Waiting(job[j]) : fs'[Waiting(job[j])[i].to] = NoEnt
    BY <1>1, FreeAsBefore
  <2>3. ListsOK(fs', n) /\ PlacesOK(fs', n)
    BY <1>1, <1>5, <2>1, <2>2, ListsAfterItem
  <2> QED  BY <2>1, <2>3
<1> QED  BY <1>2, <1>4, <1>6, NoFileTouched DEF JobSafe

LEMMA ClearedSafe == ASSUME LInv, Core', NEW j \in Slots, Cleared(j), Spends(j) PROVE LInv'
<1> DEFINE r == job[j]
           n == job'[j]
<1>1. UNCHANGED <<fs, disk>> /\ ToStage(j, "rename") /\ r.at = "clearing" /\ r.stack = <<>>
  BY DEF Cleared, WalkDone, At, ToStage
<1>2. Core /\ Active(j) /\ JobOK(r) /\ WalkSafe(fs, disk, spent, r) /\ Truthful(fs, disk, r) /\ ListsOK(fs, r) /\ PlacesOK(fs, r)
  BY <1>1, CallFrom
<1>3. NoOther(j) /\ SameBut(n, r, {"at", "errs"}) /\ n.at = "rename"
  BY <1>1, <1>2, StageIs
<1>4. /\ n.op = r.op /\ n.honest = r.honest /\ n.cur = r.cur /\ n.had = r.had /\ n.todo = r.todo /\ n.later = r.later
      /\ n.dest = r.dest /\ n.policy = r.policy
  BY <1>3 DEF SameBut, Fields
<1>5. r.op = "move"
  BY <1>1, <1>2 DEF JobOK, StagesOf
<1>6. Waiting(n) = Waiting(r) /\ InHand(n) /\ InHand(r) /\ FirstLoop(n) /\ FirstLoop(r) /\ Transferring(n) /\ Transferring(r)
      /\ (Yields(n) <=> Yields(r))
  BY <1>1, <1>3, <1>4, <1>5 DEF Waiting, InHand, FirstLoop, SecondLoop, Transferring, Yields
<1>7. ListsOK(fs, n)
  BY <1>2, <1>4, <1>6 DEF ListsOK
<1>8. PlacesOK(fs, n)
  BY <1>2, <1>4, <1>6 DEF PlacesOK
<1>9. Parted(fs, r.cur.from, r.cur.to) /\ Yields(r)
  BY <1>1, <1>2 DEF WalkSafe
<1>10. WalkSafe(fs, disk, spent, n)
  BY <1>3, <1>4, <1>5, <1>6, <1>9 DEF WalkSafe
<1>11. Truthful(fs, disk, n)
  BY <1>1, <1>2, <1>3, <1>4 DEF Truthful
<1> QED  BY <1>1, <1>2, <1>3, <1>7, <1>8, <1>10, <1>11, NoFileTouched DEF JobSafe

-------------------------------------------------------------------------------
(* What is across need not be where it came from.                          *)

(* A path has the same tail wherever it is put. *)
LEMMA SameTail ==
  ASSUME NEW q \in Words, NEW a \in Words, NEW b \in Words, IsPrefix(a, q)
  PROVE  SubSeq(Rebase(q, a, b), Len(b) + 1, Len(Rebase(q, a, b))) = SubSeq(q, Len(a) + 1, Len(q))
<1> DEFINE p == Rebase(q, a, b)
           s == SubSeq(p, Len(b) + 1, Len(p))
           u == SubSeq(q, Len(a) + 1, Len(q))
<1>1. /\ p \in Words /\ Len(p) = Len(b) + Len(q) - Len(a) /\ Len(a) <= Len(q)
      /\ \A i \in Len(b) + 1 .. Len(b) + Len(q) - Len(a) : p[i] = q[i - Len(b) + Len(a)]
  BY RebaseIs, PrefixIs
<1>2. p \in Seq(PathNames) /\ q \in Seq(PathNames) /\ Len(a) \in Nat /\ Len(b) \in Nat /\ Len(q) \in Nat /\ Len(p) \in Nat
  BY <1>1 DEF Words
<1> HIDE DEF p
<1>3. s \in Seq(PathNames) /\ Len(s) = Len(q) - Len(a) /\ \A i \in 1 .. Len(q) - Len(a) : s[i] = p[i + Len(b)]
  BY <1>1, <1>2
<1>4. u \in Seq(PathNames) /\ Len(u) = Len(q) - Len(a) /\ \A i \in 1 .. Len(q) - Len(a) : u[i] = q[i + Len(a)]
  BY <1>1, <1>2
<1> HIDE DEF s, u
<1>5. ASSUME NEW i \in 1 .. Len(q) - Len(a) PROVE s[i] = u[i]
  <2> DEFINE k == i + Len(b)
  <2>1. k \in Len(b) + 1 .. Len(b) + Len(q) - Len(a) /\ k - Len(b) + Len(a) = i + Len(a)
    BY <1>1, <1>2
  <2>2. s[i] = p[k] /\ u[i] = q[i + Len(a)]
    BY <1>3, <1>4
  <2>3. p[k] = q[k - Len(b) + Len(a)]
    <3> HIDE DEF k
    <3> QED  BY <1>1, <2>1
  <2> QED  BY <2>1, <2>2, <2>3
<1>6. s = u
  BY <1>3, <1>4, <1>5, SeqEqual
<1> QED  BY <1>6 DEF s, u, p

(* What is below one place is below the other.                             *)
BothHave(t, data, a, b) == \A q \in Paths : IsPrefix(a, q) /\ t[q] \in Inodes => Across(t, data, q, Rebase(q, a, b))
LEMMA BothContain ==
  ASSUME NEW t, NEW data, NEW a \in Paths, NEW b \in Paths, BothHave(t, data, a, b)
  PROVE  Contents(t, data, a) \subseteq Contents(t, data, b)
<1> SUFFICES ASSUME NEW c \in Contents(t, data, a) PROVE c \in Contents(t, data, b)
  OBVIOUS
<1>1. PICK q \in {r \in Below[a] : t[r] \in Inodes} : c = <<SubSeq(q, Len(a) + 1, Len(q)), data[t[q]]>>
  BY DEF Contents
<1> DEFINE p == Rebase(q, a, b)
<1>2. q \in Paths /\ IsPrefix(a, q) /\ t[q] \in Inodes /\ q \in Words /\ a \in Words /\ b \in Words
  BY <1>1, BelowIs, PathsAreWords
<1>3. p \in Paths /\ t[p] \in Inodes /\ data[t[p]] = data[t[q]]
  BY <1>2 DEF BothHave, Across
<1>4. IsPrefix(b, p) /\ SubSeq(p, Len(b) + 1, Len(p)) = SubSeq(q, Len(a) + 1, Len(q))
  BY <1>2, RebaseThere, SameTail
<1> HIDE DEF p
<1>5. p \in {r \in Below[b] : t[r] \in Inodes}
  BY <1>3, <1>4, BelowIs
<1>6. c = <<SubSeq(p, Len(b) + 1, Len(p)), data[t[p]]>>
  BY <1>1, <1>3, <1>4
<1> QED  BY <1>5, <1>6 DEF Contents

(* What is across need not be where it came from.                          *)
LEMMA AcrossIsSafe ==
  ASSUME Core, NoneLost(fs, disk, spent), NEW a \in Paths, NEW b \in Paths, BothHave(fs, disk, a, b), Parted(fs, a, b)
  PROVE  SafeFrom(fs, disk, spent, a)
<1> SUFFICES ASSUME NEW f \in Files \ spent PROVE \E q \in Paths : ~IsPrefix(a, q) /\ HasFile(fs, disk, q, f)
  BY DEF SafeFrom
<1>1. PICK q \in Paths : HasFile(fs, disk, q, f)
  BY DEF NoneLost
<1>2. CASE ~IsPrefix(a, q)
  BY <1>1, <1>2
<1>3. CASE IsPrefix(a, q)
  <2> DEFINE p == Rebase(q, a, b)
  <2>1. fs[q] \in Inodes /\ fs[q] # NoEnt /\ TreeOK(fs)
    BY <1>1, Kinds DEF HasFile, Core
  <2>2. p \in Paths /\ fs[p] \in Inodes /\ disk[fs[p]] = disk[fs[q]]
    BY <1>3, <2>1 DEF BothHave, Across
  <2>3. HasFile(fs, disk, p, f)
    BY <1>1, <2>2 DEF HasFile
  <2>4. Apart(a, b)
    BY <1>3, <2>1, PartedIs
  <2>5. IsPrefix(b, p) /\ a \in Words /\ b \in Words /\ p \in Words
    BY <1>3, PathsAreWords, RebaseThere
  <2>6. ~IsPrefix(a, p)
    BY <2>4, <2>5, PrefixOrder DEF Apart
  <2> QED  BY <2>2, <2>3, <2>6
<1> QED  BY <1>2, <1>3

LEMMA CopiedSafe == ASSUME LInv, Core', NEW j \in Slots, Copied(j), Spends(j) PROVE LInv'
<1> DEFINE r == job[j]
           n == job'[j]
           a == r.cur.from
           b == r.cur.to
<1>1. UNCHANGED <<fs, disk>> /\ r.at = "copying" /\ r.stack = <<>>
  BY DEF Copied, WalkDone, At
<1>2. Core /\ Active(j) /\ JobOK(r) /\ WalkSafe(fs, disk, spent, r) /\ Truthful(fs, disk, r) /\ ListsOK(fs, r) /\ PlacesOK(fs, r)
      /\ NoneLost(fs, disk, spent) /\ JobSafe(fs, disk, spent, r)
  BY <1>1, CallFrom
<1>3. Parted(fs, a, b) /\ (r.ok => Covered(fs, disk, r)) /\ r.op # "trash" /\ a \in Paths /\ b \in Paths
  BY <1>1, <1>2 DEF WalkSafe, JobOK, CurOK
<1>4. r.op \in {"copy", "move", "moveBack", "restore"}
  BY <1>1, <1>2, <1>3 DEF JobOK, StagesOf
<1>5. r.ok => BothHave(fs, disk, a, b)
  <2>1. ~\E q : Pending(r, q)
    BY <1>1, EmptyRange DEF Pending
  <2> QED  BY <1>3, <2>1 DEF Covered, BothHave
<1>6. r.ok /\ r.op # "moveBack" => r.had \subseteq Contents(fs, disk, b)
  <2>1. r.op # "moveBack" => r.had \subseteq Contents(fs, disk, a)
    BY <1>1, <1>2, <1>4 DEF Truthful
  <2>2. BothHave(fs, disk, a, b) => Contents(fs, disk, a) \subseteq Contents(fs, disk, b)
    <3> HIDE DEF a, b
    <3> QED  BY <1>3, BothContain
  <2> QED  BY <1>5, <2>1, <2>2
<1>7. spent' = spent /\ NoneLost(fs', disk', spent')
  BY <1>1, <1>2, NothingSpent
<1>8. r.op = "move" /\ ~Yields(r) => \A i \in DOMAIN Waiting(r) : fs'[Waiting(r)[i].to] = NoEnt
  BY <1>1, <1>2, FreeAsBefore
<1>9. CASE job' = Report(j, fs, "next") /\ ((r.op = "copy" /\ r.ok) \/ r.op = "moveBack")
  <2>1. job' = Report(j, fs', "next") /\ disk' = disk
    BY <1>1, <1>9
  <2>2. r.op \notin {"moveBack", "remove", "empty"} => r.had \subseteq Contents(fs', disk, b)
    BY <1>1, <1>6, <1>9
  <2>3. \/ r.op = "copy" /\ r.at = "copying" /\ "next" = "next"
        \/ r.op \notin {"copy", "move"}
    BY <1>1, <1>9
  <2> QED  BY <1>2, <1>7, <1>8, <2>1, <2>2, <2>3, ReportSafe
<1>10. CASE ToStage(j, "next") /\ r.op \in {"copy", "restore"}
  BY <1>1, <1>2, <1>10, GivenUpSafe
<1>11. CASE ToStage(j, "next2") /\ r.op = "move"
  BY <1>1, <1>2, <1>11, GivenUpSafe
<1>12. CASE job' = Walk(j, "removing", "rm") /\ r.ok /\ r.op # "copy"
  <2> DEFINE X == {"at", "ok", "stack"}
  <2>1. NoOther(j) /\ SameBut(n, r, X) /\ n.at = "removing"
    BY <1>2, <1>12, WalkIs
  <2>2. /\ n.op = r.op /\ n.honest = r.honest /\ n.cur = r.cur /\ n.had = r.had /\ n.todo = r.todo /\ n.later = r.later
        /\ n.dest = r.dest /\ n.policy = r.policy
    BY <2>1 DEF SameBut, Fields
  <2>3. SafeFrom(fs, disk, spent, a)
    <3> HIDE DEF a, b
    <3> QED  BY <1>2, <1>3, <1>5, <1>12, AcrossIsSafe
  <2>4. WalkSafe(fs, disk, spent, n)
    BY <1>3, <2>1, <2>2, <2>3 DEF WalkSafe
  <2>5. Truthful(fs, disk, n)
    BY <1>2, <1>6, <1>12, <2>1, <2>2 DEF Truthful
  <2>6. ListsOK(fs, n) /\ PlacesOK(fs, n)
    <3>1. CASE r.op = "move"
      <4>1. Waiting(n) = Waiting(r) /\ InHand(n) /\ InHand(r) /\ ~FirstLoop(n) /\ ~Transferring(n) /\ (Yields(n) <=> Yields(r))
        BY <1>1, <2>1, <2>2, <3>1 DEF Waiting, InHand, FirstLoop, SecondLoop, Transferring, Yields
      <4>2. ListsOK(fs, n)
        BY <1>2, <2>2, <4>1 DEF ListsOK
      <4>3. PlacesOK(fs, n)
        BY <1>2, <2>2, <4>1 DEF PlacesOK
      <4> QED  BY <4>2, <4>3
    <3>2. CASE r.op # "move"
      BY <1>12, <2>2, <3>2, NoPlaces
    <3> QED  BY <3>1, <3>2
  <2> QED  BY <1>1, <1>2, <2>1, <2>4, <2>5, <2>6, NoFileTouched DEF JobSafe
<1>13. \/ job' = Report(j, fs, "next") /\ ((r.op = "copy" /\ r.ok) \/ r.op = "moveBack")
       \/ ToStage(j, "next") /\ r.op \in {"copy", "restore"}
       \/ ToStage(j, "next2") /\ r.op = "move"
       \/ job' = Walk(j, "removing", "rm") /\ r.ok /\ r.op # "copy"
  <2>1. CASE r.ok
    BY <1>4, <2>1 DEF Copied, CopyIsWhole, ToStage
  <2>2. CASE ~r.ok
    BY <1>4, <2>2 DEF Copied, CopyIsWhole, ToStage
  <2> QED  BY <2>1, <2>2
<1> QED  BY <1>9, <1>10, <1>11, <1>12, <1>13

LEMMA RemovedSafe == ASSUME LInv, Core', NEW j \in Slots, Removed(j), Spends(j) PROVE LInv'
<1> DEFINE r == job[j]
<1>1. UNCHANGED <<fs, disk>> /\ r.at = "removing" /\ r.stack = <<>>
  BY DEF Removed, WalkDone, At
<1>2. Core /\ Active(j) /\ JobOK(r) /\ WalkSafe(fs, disk, spent, r) /\ Truthful(fs, disk, r) /\ PlacesOK(fs, r) /\ NoneLost(fs, disk, spent)
  BY <1>1, CallFrom
<1>3. r.op \in {"move", "moveBack", "restore", "remove", "empty"}
  BY <1>1, <1>2 DEF JobOK, StagesOf, WalkSafe
<1>4. NoneLost(fs', disk', spent')
  BY <1>1, <1>2, NothingSpent
<1>5. r.op = "move" /\ ~Yields(r) => \A i \in DOMAIN Waiting(r) : fs'[Waiting(r)[i].to] = NoEnt
  BY <1>1, <1>2, FreeAsBefore
<1>6. r.op \notin {"moveBack", "remove", "empty"} => r.had \subseteq Contents(fs', disk, r.cur.to)
  BY <1>1, <1>2 DEF Truthful
<1>7. CASE \E stage \in {"next", "next2"} : job' = Report(j, fs', stage) /\ (r.op = "move" <=> stage = "next2")
  BY <1>1, <1>2, <1>3, <1>4, <1>5, <1>6, <1>7, ReportSafe
<1>8. CASE ToStage(j, "next") /\ r.op # "move"
  BY <1>1, <1>2, <1>3, <1>8, GivenUpSafe
<1>9. \/ \E stage \in {"next", "next2"} : job' = Report(j, fs, stage) /\ (r.op = "move" <=> stage = "next2")
      \/ ToStage(j, "next") /\ r.op # "move"
  <2>1. CASE r.op = "move"
    BY <2>1 DEF Removed
  <2>2. CASE r.op = "moveBack"
    BY <2>2 DEF Removed
  <2>3. CASE r.op \in {"remove", "empty", "restore"}
    <3>1. CASE r.ok
      BY <2>3, <3>1 DEF Removed
    <3>2. CASE ~r.ok
      BY <2>3, <3>2 DEF Removed, ToStage
    <3> QED  BY <3>1, <3>2
  <2> QED  BY <1>3, <2>1, <2>2, <2>3
<1> QED  BY <1>1, <1>7, <1>8, <1>9

-------------------------------------------------------------------------------
(* The rename that works.                                                  *)

LEMMA DrivesApart == ASSUME NEW a \in Paths, NEW b \in Paths, VolumeOf(a) # VolumeOf(b) PROVE Apart(a, b)
<1>1. a \in Words /\ b \in Words /\ Len(a) \in Nat \ {0} /\ Len(b) \in Nat \ {0}
  BY PathsAreWords
<1>2. a[1] # b[1]
  <2>1. Head(a) # Head(b)
    BY DEF VolumeOf
  <2>2. a \in Seq(PathNames) /\ b \in Seq(PathNames)
    BY <1>1 DEF Words
  <2> QED  BY <1>1, <2>1, <2>2
<1>3. ~IsPrefix(a, b) /\ ~IsPrefix(b, a)
  BY <1>1, <1>2, PrefixIs
<1> QED  BY <1>3 DEF Apart

(* Nothing is below a free place. *)
LEMMA FreeIsSafe ==
  ASSUME NEW t, NEW data, NEW gone, TreeOK(t), NEW b \in Paths, t[b] = NoEnt, NoneLost(t, data, gone)
  PROVE  SafeFrom(t, data, gone, b)
<1>1. ASSUME NEW q \in Paths, IsPrefix(b, q) PROVE t[q] \notin Inodes
  BY <1>1, BelowNothing, BelowIs, Kinds
<1> QED  BY <1>1 DEF SafeFrom, NoneLost, HasFile

(* A copy starts with all there is to copy before it. *)
LEMMA CoverStart ==
  ASSUME NEW t, NEW data, NEW r, NEW a \in Paths, NEW b \in Paths, r.cur.from = a, r.stack = <<Visit("copy", a, b)>>
  PROVE  Covered(t, data, r)
<1> DEFINE v == Visit("copy", a, b)
<1>1. v.do = "copy" /\ v.a = a /\ v \in Visiting
  BY PathsAreWords, VisitIs
<1>2. r.stack = <<v>>
  OBVIOUS
<1> HIDE DEF v
<1>3. v \in Range(r.stack)
  BY <1>2 DEF Range
<1>4. \A q : IsPrefix(a, q) => Pending(r, q)
  BY <1>1, <1>3 DEF Pending
<1> QED  BY <1>4 DEF Covered

(* What rename carries over.                                               *)
LEMMA CarriedOver ==
  ASSUME Core, NEW a \in Paths, NEW b \in Paths, RenameErr(fs, a, b) = "ok", fs' = Renamed(fs, a, b), disk' = disk
  PROVE  /\ \A q \in Paths : IsPrefix(a, q) /\ fs[q] # NoEnt => Rebase(q, a, b) \in Paths /\ fs'[Rebase(q, a, b)] = fs[q]
         /\ \A q \in Paths : ~IsPrefix(a, q) /\ ~IsPrefix(b, q) => fs'[q] = fs[q]
         /\ \A q \in Paths : IsPrefix(a, q) /\ ~IsPrefix(b, q) => fs'[q] = NoEnt
         /\ Contents(fs, disk, a) \subseteq Contents(fs', disk, b)
<1>1. TreeOK(fs)
  BY DEF Core
<1>2. /\ \A q \in Paths : IsPrefix(a, q) /\ fs[q] # NoEnt => Rebase(q, a, b) \in Paths /\ fs'[Rebase(q, a, b)] = fs[q]
      /\ \A q \in Paths : ~IsPrefix(a, q) /\ ~IsPrefix(b, q) => fs'[q] = fs[q]
      /\ \A q \in Paths : IsPrefix(a, q) /\ ~IsPrefix(b, q) => fs'[q] = NoEnt
  BY <1>1, RenamedIs
<1>3. ASSUME NEW c \in Contents(fs, disk, a) PROVE c \in Contents(fs', disk, b)
  <2>1. PICK q \in {r \in Below[a] : fs[r] \in Inodes} : c = <<SubSeq(q, Len(a) + 1, Len(q)), disk[fs[q]]>>
    BY <1>3 DEF Contents
  <2> DEFINE p == Rebase(q, a, b)
  <2>2. q \in Paths /\ IsPrefix(a, q) /\ fs[q] \in Inodes /\ fs[q] # NoEnt /\ q \in Words /\ a \in Words /\ b \in Words
    BY <2>1, BelowIs, PathsAreWords, Kinds
  <2>3. p \in Paths /\ fs'[p] = fs[q]
    BY <1>2, <2>2
  <2>4. IsPrefix(b, p) /\ SubSeq(p, Len(b) + 1, Len(p)) = SubSeq(q, Len(a) + 1, Len(q))
    BY <2>2, RebaseThere, SameTail
  <2> HIDE DEF p
  <2>5. p \in {r \in Below[b] : fs'[r] \in Inodes}
    BY <2>2, <2>3, <2>4, BelowIs
  <2>6. c = <<SubSeq(p, Len(b) + 1, Len(p)), disk[fs'[p]]>>
    BY <2>1, <2>3, <2>4
  <2> QED  BY <2>5, <2>6 DEF Contents
<1> QED  BY <1>2, <1>3

(* The rename that works. *)
LEMMA RenamesSafe ==
  ASSUME LInv, Core', NEW j \in Slots, job[j].at = "rename", Spends(j), disk' = disk,
         RenameErr(fs, job[j].cur.from, job[j].cur.to) = "ok",
         fs' = Renamed(fs, job[j].cur.from, job[j].cur.to), job' = Report(j, fs', "next")
  PROVE  LInv'
<1> DEFINE r == job[j]
           a == r.cur.from
           b == r.cur.to
<1>1. Core /\ Active(j) /\ JobOK(r) /\ WalkSafe(fs, disk, spent, r) /\ Truthful(fs, disk, r) /\ PlacesOK(fs, r) /\ ListsOK(fs, r)
      /\ NoneLost(fs, disk, spent) /\ TreeOK(fs)
  BY CallFrom DEF Walking
<1>2. a \in Paths /\ b \in Paths
  BY <1>1 DEF JobOK, CurOK
<1>3. /\ \A q \in Paths : IsPrefix(a, q) /\ fs[q] # NoEnt => Rebase(q, a, b) \in Paths /\ fs'[Rebase(q, a, b)] = fs[q]
      /\ \A q \in Paths : ~IsPrefix(a, q) /\ ~IsPrefix(b, q) => fs'[q] = fs[q]
      /\ \A q \in Paths : IsPrefix(a, q) /\ ~IsPrefix(b, q) => fs'[q] = NoEnt
      /\ Contents(fs, disk, a) \subseteq Contents(fs', disk, b)
  <2>1. RenameErr(fs, a, b) = "ok" /\ fs' = Renamed(fs, a, b)
    OBVIOUS
  <2> HIDE DEF a, b
  <2> QED  BY <1>1, <1>2, <2>1, CarriedOver
<1>4. r.op \in {"move", "moveBack", "restore", "trash"}
  BY <1>1 DEF JobOK, StagesOf
<1>5. \A f \in Files, p \in Paths : IsPrefix(a, p) /\ HasFile(fs, disk, p, f) => \E q \in Paths : HasFile(fs', disk', q, f)
  <2> SUFFICES ASSUME NEW f \in Files, NEW p \in Paths, IsPrefix(a, p), HasFile(fs, disk, p, f)
               PROVE  \E q \in Paths : HasFile(fs', disk', q, f)
    OBVIOUS
  <2>1. fs[p] \in Inodes /\ disk[fs[p]] = AllOf(f) /\ disk' = disk
    BY DEF HasFile
  <2>2. fs[p] # NoEnt
    BY <2>1, Kinds
  <2>3. Rebase(p, a, b) \in Paths /\ fs'[Rebase(p, a, b)] = fs[p]
    BY <1>3, <2>2
  <2>4. HasFile(fs', disk', Rebase(p, a, b), f)
    BY <2>1, <2>3 DEF HasFile
  <2> QED  BY <2>3, <2>4
<1>6. NoneLost(fs', disk', spent')
  <2>1. CASE Yields(r)
    <3>1. NoOther(j) /\ SameBut(job'[j], r, {"at", "out", "honest"})
      BY <1>1, ReportIs
    <3>2. job'[j].cur.from = a
      BY <3>1 DEF SameBut, Fields
    <3> QED  BY <1>1, <1>4, <1>5, <2>1, <3>2, YieldStays DEF Deletes
  <2>2. CASE ~Yields(r)
    <3>1. fs[b] = NoEnt
      BY <1>1, <2>2 DEF WalkSafe
    <3>2. SafeFrom(fs, disk, spent, b)
      BY <1>1, <1>2, <3>1, FreeIsSafe
    <3>3. ASSUME NEW f \in Files \ spent' PROVE \E q \in Paths : HasFile(fs', disk', q, f)
      <4>1. f \in Files \ spent
        BY SpentGrows
      <4>2. PICK p \in Paths : ~IsPrefix(b, p) /\ HasFile(fs, disk, p, f)
        BY <3>2, <4>1 DEF SafeFrom
      <4>3. CASE IsPrefix(a, p)
        BY <1>5, <4>2, <4>3
      <4>4. CASE ~IsPrefix(a, p)
        BY <1>3, <4>2, <4>4 DEF HasFile
      <4> QED  BY <4>3, <4>4
    <3> QED  BY <3>3 DEF NoneLost
  <2> QED  BY <2>1, <2>2
<1>7. r.op \notin {"moveBack", "remove", "empty"} => r.had \subseteq Contents(fs', disk, b)
  BY <1>1, <1>3 DEF Truthful
<1>8. r.op = "move" /\ ~Yields(r) => \A i \in DOMAIN Waiting(r) : fs'[Waiting(r)[i].to] = NoEnt
  <2>1. ASSUME NEW q \in Paths, q # b, Parent(q) = Parent(b), fs[q] = NoEnt PROVE fs'[q] = NoEnt
    <3>1. ~IsPrefix(b, q)
      <4>1. q \in Words /\ b \in Words /\ Parent(q) \in Words /\ ~(IsPrefix(q, Parent(q)))
        <5>1. Parent(q) \in Words /\ IsPrefix(Parent(q), q) /\ Parent(q) # q /\ q \in Words
          BY ParentIs, PathsAreWords
        <5> QED  BY <1>2, <5>1, PathsAreWords, PrefixOrder
      <4>2. Len(q) = Len(b)
        <5>1. Len(Parent(q)) = Len(q) - 1 /\ Len(Parent(b)) = Len(b) - 1 /\ Len(q) \in Nat /\ Len(b) \in Nat
          <6> HIDE DEF b
          <6> QED  BY <1>2, ParentIs, PathsAreWords
        <5> QED  BY <2>1, <5>1
      <4> QED  BY <2>1, <4>1, <4>2, PrefixOrder
    <3> QED  BY <1>3, <2>1, <3>1
  <2>2. InHand(r) \/ r.op # "move"
    BY DEF InHand
  <2>3. r.op = "move" => r.cur.to \in Paths
    BY <1>2
  <2> QED  BY <1>1, <2>1, <2>2, <2>3, FreeStaysFree
<1> QED  BY <1>1, <1>4, <1>6, <1>7, <1>8, ReportSafe

-------------------------------------------------------------------------------
(* The rename that does not.                                               *)

LEMMA ErrnoSays ==
  ASSUME NEW t, NEW a, NEW b
  PROVE  /\ RenameErr(t, a, b) = "EXDEV" <=> VolumeOf(a) # VolumeOf(b)
         /\ RenameErr(t, a, b) = "ENOTEMPTY" => t[a] # NoEnt
BY DEF RenameErr, Exists

LEMMA AppendedIs ==
  ASSUME NEW S, NEW s \in Seq(S), NEW x \in S
  PROVE  \A i \in DOMAIN Append(s, x) : (i \in DOMAIN s /\ Append(s, x)[i] = s[i]) \/ (i \notin DOMAIN s /\ i = Len(s) + 1 /\ Append(s, x)[i] = x)
<1>1. DOMAIN s = 1 .. Len(s) /\ Len(s) \in Nat
  OBVIOUS
<1>2. DOMAIN Append(s, x) = 1 .. Len(s) + 1 /\ \A i \in 1 .. Len(s) + 1 : Append(s, x)[i] = IF i = Len(s) + 1 THEN x ELSE s[i]
  OBVIOUS
<1> QED  BY <1>1, <1>2

(* What move cannot rename is put off. *)
LEMMA PutOffSafe ==
  ASSUME LInv, Core', NEW j \in Slots, job[j].at = "rename", job[j].op = "move", Spends(j), UNCHANGED <<fs, disk>>,
         RenameErr(fs, job[j].cur.from, job[j].cur.to) \in {"EXDEV", "ENOTEMPTY"},
         job' = Put(j, [at |-> "next", later |-> Append(job[j].later, job[j].cur)])
  PROVE  LInv'
<1> DEFINE r == job[j]
           n == job'[j]
           a == r.cur.from
           b == r.cur.to
           rec == [at |-> "next", later |-> Append(r.later, r.cur)]
<1>1. Core /\ Active(j) /\ JobOK(r) /\ WalkSafe(fs, disk, spent, r) /\ Truthful(fs, disk, r) /\ PlacesOK(fs, r) /\ ListsOK(fs, r)
  BY CallFrom DEF Walking
<1>2. a \in Paths /\ b \in Paths /\ r.cur \in FullPairs /\ r.later \in Seq(FullPairs)
  BY <1>1, OnItsWay DEF JobOK, CurOK
<1>3. DOMAIN rec = {"at", "later"} /\ rec.at = "next" /\ rec.later = Append(r.later, r.cur) /\ job' = Put(j, rec)
  OBVIOUS
<1> HIDE DEF rec
<1>4. DOMAIN rec \subseteq Fields
  BY <1>3 DEF Fields
<1>5. NoOther(j) /\ SameBut(n, r, DOMAIN rec) /\ \A x \in DOMAIN rec : n[x] = rec[x]
  BY <1>1, <1>3, <1>4, PutCore
<1>6. /\ n.at = "next" /\ n.later = Append(r.later, r.cur) /\ n.op = "move" /\ n.honest = r.honest /\ n.todo = r.todo
      /\ n.dest = r.dest /\ n.policy = r.policy
  BY <1>3, <1>5 DEF SameBut, Fields
<1>7. Apart(a, b)
  <2>1. CASE RenameErr(fs, a, b) = "EXDEV"
    <3>1. VolumeOf(a) # VolumeOf(b)
      BY <2>1, ErrnoSays
    <3> HIDE DEF a, b
    <3> QED  BY <1>2, <3>1, DrivesApart
  <2>2. CASE RenameErr(fs, a, b) = "ENOTEMPTY"
    <3>1. fs[a] # NoEnt
      BY <2>2, ErrnoSays
    <3> QED  BY <1>1, <3>1 DEF WalkSafe, Parted
  <2> QED  BY <2>1, <2>2
<1>8. /\ Waiting(n) = Append(r.later, r.cur) /\ Waiting(r) = r.later /\ ~InHand(n) /\ InHand(r) /\ FirstLoop(n) /\ FirstLoop(r)
      /\ Transferring(n) /\ Transferring(r) /\ (Yields(n) <=> Yields(r))
  BY <1>6, Zenon DEF Waiting, InHand, FirstLoop, SecondLoop, Transferring, Yields
<1>9. \A i \in DOMAIN Waiting(n) : (i \in DOMAIN r.later /\ Waiting(n)[i] = r.later[i]) \/ (i \notin DOMAIN r.later /\ i = Len(r.later) + 1 /\ Waiting(n)[i] = r.cur)
  <2> DEFINE s == r.later
             x == r.cur
  <2>1. s \in Seq(FullPairs) /\ x \in FullPairs /\ Waiting(n) = Append(s, x)
    BY <1>2, <1>8, Zenon
  <2> HIDE DEF s, x, n
  <2>2. \A i \in DOMAIN Append(s, x) : (i \in DOMAIN s /\ Append(s, x)[i] = s[i]) \/ (i \notin DOMAIN s /\ i = Len(s) + 1 /\ Append(s, x)[i] = x)
    BY <2>1, AppendedIs
  <2> QED  BY <2>1, <2>2 DEF s, x
<1>10. ListsOK(fs, n)
  <2>1. ASSUME NEW i \in DOMAIN Waiting(n) PROVE Parent(Waiting(n)[i].to) = n.dest /\ Apart(Waiting(n)[i].from, Waiting(n)[i].to)
    <3>1. CASE i \in DOMAIN r.later /\ Waiting(n)[i] = r.later[i]
      BY <1>1, <1>6, <1>8, <3>1 DEF ListsOK
    <3>2. CASE Waiting(n)[i] = r.cur
      BY <1>1, <1>6, <1>7, <1>8, <3>2 DEF ListsOK
    <3> QED  BY <1>9, <3>1, <3>2
  <2>2. Transferring(n) => \A i \in DOMAIN n.todo : Outside(n.dest, n.todo[i].from)
    BY <1>1, <1>6, <1>8 DEF ListsOK
  <2> QED  BY <1>8, <2>1, <2>2, Zenon DEF ListsOK
<1>11. PlacesOK(fs, n)
  <2> SUFFICES ASSUME ~Yields(r)
      PROVE  /\ \A i \in DOMAIN Waiting(n) : /\ fs[Waiting(n)[i].to] = NoEnt
                                             /\ \A k \in DOMAIN Waiting(n) : i # k => Waiting(n)[i].to # Waiting(n)[k].to
             /\ \A i \in DOMAIN n.todo :
                  /\ \A k \in DOMAIN n.later : n.later[k].to \notin Landings(n.dest, n.todo[i].from)
                  /\ \A k \in DOMAIN n.todo : i # k => Landings(n.dest, n.todo[i].from) \cap Landings(n.dest, n.todo[k].from) = {}
    BY <1>8, Zenon DEF PlacesOK
  <2>1. /\ \A i \in DOMAIN r.later : /\ fs[r.later[i].to] = NoEnt /\ r.later[i].to # b
                                     /\ \A k \in DOMAIN r.later : i # k => r.later[i].to # r.later[k].to
        /\ \A i \in DOMAIN r.todo :
             /\ b \notin Landings(r.dest, r.todo[i].from)
             /\ \A k \in DOMAIN r.later : r.later[k].to \notin Landings(r.dest, r.todo[i].from)
             /\ \A k \in DOMAIN r.todo : i # k => Landings(r.dest, r.todo[i].from) \cap Landings(r.dest, r.todo[k].from) = {}
    BY <1>1, <1>8 DEF PlacesOK
  <2>2. fs[b] = NoEnt
    BY <1>1 DEF WalkSafe
  <2>3. ASSUME NEW i \in DOMAIN Waiting(n)
        PROVE  /\ fs[Waiting(n)[i].to] = NoEnt
               /\ \A k \in DOMAIN Waiting(n) : i # k => Waiting(n)[i].to # Waiting(n)[k].to
               /\ \A k \in DOMAIN n.todo : Waiting(n)[i].to \notin Landings(n.dest, n.todo[k].from)
    <3>1. fs[Waiting(n)[i].to] = NoEnt
      BY <1>9, <2>1, <2>2
    <3>2. ASSUME NEW k \in DOMAIN Waiting(n), i # k PROVE Waiting(n)[i].to # Waiting(n)[k].to
      <4>1. \A h \in {i, k} : (h \in DOMAIN r.later /\ Waiting(n)[h] = r.later[h]) \/ (h = Len(r.later) + 1 /\ Waiting(n)[h] = r.cur)
        BY <1>9
      <4>2. CASE i \in DOMAIN r.later /\ Waiting(n)[i] = r.later[i] /\ k \in DOMAIN r.later /\ Waiting(n)[k] = r.later[k]
        BY <2>1, <3>2, <4>2
      <4>3. CASE i \in DOMAIN r.later /\ Waiting(n)[i] = r.later[i] /\ Waiting(n)[k] = r.cur
        BY <2>1, <4>3
      <4>4. CASE Waiting(n)[i] = r.cur /\ k \in DOMAIN r.later /\ Waiting(n)[k] = r.later[k]
        BY <2>1, <4>4
      <4> QED  BY <3>2, <4>1, <4>2, <4>3, <4>4
    <3>3. \A k \in DOMAIN n.todo : Waiting(n)[i].to \notin Landings(n.dest, n.todo[k].from)
      BY <1>6, <1>9, <2>1, Zenon
    <3> QED  BY <3>1, <3>2, <3>3
  <2>4. \A i, k \in DOMAIN n.todo : i # k => Landings(n.dest, n.todo[i].from) \cap Landings(n.dest, n.todo[k].from) = {}
    BY <1>6, <2>1, Zenon
  <2>5. n.later = Waiting(n)
    BY <1>6, <1>8
  <2> HIDE DEF n
  <2> QED  BY <2>3, <2>4, <2>5, Zenon
<1>12. WalkSafe(fs, disk, spent, n) /\ Truthful(fs, disk, n)
  BY <1>1, <1>6, HonestSoFar, BetweenSafe DEF Between
<1> QED  BY <1>1, <1>5, <1>10, <1>11, <1>12, NoFileTouched DEF JobSafe

(* What moveBack or restore cannot rename is copied. *)
LEMMA CopiesInsteadSafe ==
  ASSUME LInv, Core', NEW j \in Slots, job[j].at = "rename", job[j].op \in {"moveBack", "restore", "trash"}, Spends(j), UNCHANGED <<fs, disk>>,
         RenameErr(fs, job[j].cur.from, job[j].cur.to) = "EXDEV", job' = Walk(j, "copying", "copy")
  PROVE  LInv'
<1> DEFINE r == job[j]
           n == job'[j]
           a == r.cur.from
           b == r.cur.to
<1>1. /\ Core /\ Active(j) /\ JobOK(r) /\ WalkSafe(fs, disk, spent, r) /\ Truthful(fs, disk, r) /\ TreeOK(fs)
      /\ NoneLost(fs, disk, spent)
  BY CallFrom DEF Walking
<1>2. a \in Paths /\ b \in Paths
  BY <1>1 DEF JobOK, CurOK
<1>3. NoOther(j) /\ SameBut(n, r, {"at", "ok", "stack"}) /\ n.at = "copying" /\ n.stack = <<Visit("copy", a, b)>>
  BY <1>1, WalkIs
<1>4. n.op = r.op /\ n.honest = r.honest /\ n.cur = r.cur /\ n.had = r.had
  BY <1>3 DEF SameBut, Fields
<1>5. VolumeOf(a) # VolumeOf(b)
  BY ErrnoSays
<1>6. Apart(a, b)
  <2> HIDE DEF a, b
  <2> QED  BY <1>2, <1>5, DrivesApart
<1>7. fs[b] = NoEnt /\ r.op # "trash"
  <2>1. ~Yields(r)
    BY <1>1, YieldsTransfers
  <2> QED  BY <1>1, <1>5, <2>1 DEF WalkSafe
<1>8. SafeFrom(fs, disk, spent, b)
  <2> HIDE DEF b
  <2> QED  BY <1>1, <1>2, <1>7, FreeIsSafe
<1>9. Covered(fs, disk, n)
  <2>1. n.cur.from = a /\ n.stack = <<Visit("copy", a, b)>>
    BY <1>3, <1>4
  <2> HIDE DEF n, a, b
  <2> QED  BY <1>2, <2>1, CoverStart
<1>10. WalkSafe(fs, disk, spent, n)
  BY <1>3, <1>4, <1>6, <1>7, <1>8, <1>9 DEF WalkSafe, Parted
<1>11. Truthful(fs, disk, n)
  BY <1>1, <1>3, <1>4 DEF Truthful
<1>12. ListsOK(fs, n) /\ PlacesOK(fs, n)
  BY <1>4, NoPlaces
<1> QED  BY <1>1, <1>3, <1>10, <1>11, <1>12, NoFileTouched DEF JobSafe

LEMMA RenameSafe == ASSUME LInv, Core', NEW j \in Slots, Rename(j), Spends(j) PROVE LInv'
<1> DEFINE r == job[j]
           err == RenameErr(fs, r.cur.from, r.cur.to)
<1>1. r.at = "rename" /\ disk' = disk
  BY DEF Rename, At
<1>2. Core /\ Active(j) /\ JobOK(r)
  BY <1>1, CallFrom DEF Walking
<1>3. r.op \in {"move", "moveBack", "restore", "trash"}
  BY <1>1, <1>2 DEF JobOK, StagesOf
<1>4. CASE err = "ok" /\ fs' = Renamed(fs, r.cur.from, r.cur.to) /\ job' = Report(j, fs', "next")
  BY <1>1, <1>4, RenamesSafe
<1>5. CASE CrossesOver(j, err) /\ UNCHANGED fs /\ r.op = "move" /\ job' = Put(j, [at |-> "next", later |-> Append(r.later, r.cur)])
  <2>1. err \in {"EXDEV", "ENOTEMPTY"}
    BY <1>5 DEF CrossesOver
  <2> QED  BY <1>1, <1>5, <2>1, PutOffSafe
<1>6. CASE CrossesOver(j, err) /\ UNCHANGED fs /\ r.op # "move" /\ job' = Walk(j, "copying", "copy")
  <2>1. err = "EXDEV"
    BY <1>6 DEF CrossesOver
  <2> QED  BY <1>1, <1>3, <1>6, <2>1, CopiesInsteadSafe
<1>7. CASE UNCHANGED fs /\ Error(j, "next")
  <2>1. ToStage(j, "next")
    BY <1>7 DEF ToStage
  <2> QED  BY <1>1, <1>2, <1>3, <1>7, <2>1, GivenUpSafe
<1>8. CASE UNCHANGED fs /\ Error(j, "unrecord")
  <2>1. ToStage(j, "unrecord")
    BY <1>8 DEF ToStage
  <2>2. NoOther(j) /\ SameBut(job'[j], r, {"at", "errs"}) /\ job'[j].at \in Resting
    BY <1>2, <2>1, StageIs DEF Resting
  <2> QED  BY <1>1, <1>2, <1>8, <2>2, RestsSafe
<1> QED  BY <1>4, <1>5, <1>6, <1>7, <1>8 DEF Rename

-------------------------------------------------------------------------------
(* copyAcross, and the rest of the list.                                   *)

LEMMA CopyAcrossSafe == ASSUME LInv, Core', NEW j \in Slots, CopyAcross(j), Spends(j) PROVE LInv'
<1> DEFINE r == job[j]
           n == job'[j]
           a == Item(j).from
           b == Item(j).to
           st == <<Visit("copy", a, b)>>
<1>1. r.at = "next2" /\ r.todo # <<>> /\ UNCHANGED <<fs, disk>> /\ Goes(j, "copying", st, a, b)
  BY DEF CopyAcross, At, Goes
<1>2. /\ Core /\ Active(j) /\ JobOK(r) /\ Truthful(fs, disk, r) /\ TreeOK(fs) /\ NoneLost(fs, disk, spent)
      /\ ListsOK(fs, r) /\ PlacesOK(fs, r)
  BY <1>1, CallFrom DEF Walking
<1>3. r.op = "move"
  BY <1>1, <1>2 DEF JobOK, StagesOf
<1>4. a \in Paths /\ b \in Paths
  BY <1>1, <1>2, <1>3, ItemIs DEF ItemOK, SecondLoop
<1>5. /\ NoOther(j) /\ SameBut(n, r, TakenFields) /\ n.todo = Tail(r.todo) /\ n.ok = TRUE
      /\ n.cur = Pair(a, b) /\ n.at = "copying" /\ n.stack = st /\ n.op = r.op /\ n.had = Contents(fs, disk, a)
  <2> HIDE DEF st, a, b
  <2>1. TakenUp(j, "copying", st, a, b)
    BY ONLY <1>1, <1>2, TakenIs
  <2> QED  BY <2>1 DEF TakenUp
<1>6. n.cur.from = a /\ n.cur.to = b /\ n.honest = r.honest /\ n.dest = r.dest /\ n.policy = r.policy
  BY <1>5, PairIs DEF SameBut, Fields, TakenFields
<1>7. /\ Waiting(n) = Tail(r.todo) /\ Waiting(r) = r.todo /\ InHand(n) /\ ~InHand(r) /\ ~FirstLoop(n) /\ ~Transferring(n)
      /\ (Yields(n) <=> Yields(r))
  BY <1>1, <1>3, <1>5, <1>6 DEF Waiting, InHand, FirstLoop, SecondLoop, Transferring, Yields
<1>8. /\ \A i \in DOMAIN Tail(r.todo) : i + 1 \in DOMAIN r.todo /\ i + 1 # 1 /\ Tail(r.todo)[i] = r.todo[i + 1]
      /\ 1 \in DOMAIN r.todo /\ a = r.todo[1].from /\ b = r.todo[1].to
      /\ \A i, k \in DOMAIN Tail(r.todo) : i # k => i + 1 # k + 1
  <2>1. r.todo \in Seq(AllPairs)
    BY <1>2 DEF JobOK
  <2> QED  BY <1>1, <2>1, TailOf DEF Item
<1>9. Apart(a, b) /\ Parent(b) = r.dest
  BY <1>2, <1>7, <1>8 DEF ListsOK
<1>10. ~Yields(r) => fs[b] = NoEnt /\ \A i \in DOMAIN Waiting(n) : Waiting(n)[i].to # b
  <2> SUFFICES ASSUME ~Yields(r) PROVE fs[b] = NoEnt /\ \A i \in DOMAIN Waiting(n) : Waiting(n)[i].to # b
    OBVIOUS
  <2>1. \A i \in DOMAIN r.todo : /\ fs[r.todo[i].to] = NoEnt
                                 /\ \A k \in DOMAIN r.todo : i # k => r.todo[i].to # r.todo[k].to
    BY <1>2, <1>3, <1>7 DEF PlacesOK
  <2>2. fs[b] = NoEnt
    BY <1>8, <2>1
  <2>3. ASSUME NEW i \in DOMAIN Waiting(n) PROVE Waiting(n)[i].to # b
    BY <1>7, <1>8, <2>1
  <2> QED  BY <2>2, <2>3
<1>11. ~Yields(r) => SafeFrom(fs, disk, spent, b)
  <2> HIDE DEF b
  <2> QED  BY <1>2, <1>4, <1>10, FreeIsSafe
<1>12. Covered(fs, disk, n)
  <2>1. n.cur.from = a /\ n.stack = <<Visit("copy", a, b)>>
    BY <1>5, <1>6
  <2> HIDE DEF n, a, b
  <2> QED  BY <1>4, <2>1, CoverStart
<1>13. WalkSafe(fs, disk, spent, n)
  BY <1>3, <1>5, <1>6, <1>7, <1>9, <1>11, <1>12 DEF WalkSafe, Parted
<1>14. Truthful(fs, disk, n)
  BY <1>2, <1>5, <1>6 DEF Truthful
<1>15. ListsOK(fs, n)
  <2>1. ASSUME NEW i \in DOMAIN Waiting(n) PROVE Parent(Waiting(n)[i].to) = n.dest /\ Apart(Waiting(n)[i].from, Waiting(n)[i].to)
    BY <1>2, <1>6, <1>7, <1>8 DEF ListsOK
  <2> QED  BY <1>6, <1>7, <1>9, <2>1 DEF ListsOK
<1>16. PlacesOK(fs, n)
  <2>1. ASSUME ~Yields(r), NEW i \in DOMAIN Waiting(n)
        PROVE  /\ fs[Waiting(n)[i].to] = NoEnt
               /\ \A k \in DOMAIN Waiting(n) : i # k => Waiting(n)[i].to # Waiting(n)[k].to
    BY <1>2, <1>3, <1>7, <1>8, <2>1 DEF PlacesOK
  <2> QED  BY <1>6, <1>7, <1>10, <2>1 DEF PlacesOK
<1> QED  BY <1>1, <1>2, <1>5, <1>13, <1>14, <1>15, <1>16, NoFileTouched DEF JobSafe

(* The next item of the first loop is taken up, and the rest is as it was.  *)
LEMMA RestOfLists ==
  ASSUME NEW r, NEW n, NEW u, ListsOK(fs, r), PlacesOK(fs, r), r.todo \in Seq(AllPairs), r.todo # <<>>, r.at = "next", r.op \in {"copy", "move"},
         n.op = r.op, n.todo = Tail(r.todo), n.later = r.later, n.dest = r.dest, n.policy = r.policy,
         n.at = "next" \/ (r.op = "copy" /\ n.at = "copying") \/ (r.op = "move" /\ n.at \in {"clearing", "rename"}),
         r.op = "move" => u = fs,
         InHand(n) => Parent(n.cur.to) = r.dest /\ (~Yields(r) => n.cur.to \in Landings(r.dest, r.todo[1].from))
  PROVE  ListsOK(u, n) /\ PlacesOK(u, n)
<1>1. /\ Waiting(n) = Waiting(r) /\ (r.op = "move" => Waiting(r) = r.later) /\ (FirstLoop(n) <=> r.op = "move") /\ (FirstLoop(r) <=> r.op = "move")
      /\ Transferring(r) /\ (Yields(n) <=> Yields(r)) /\ ~InHand(r)
  BY DEF Waiting, InHand, FirstLoop, SecondLoop, Transferring, Yields
<1>2. /\ \A i \in DOMAIN n.todo : i + 1 \in DOMAIN r.todo /\ i + 1 # 1 /\ n.todo[i] = r.todo[i + 1]
      /\ 1 \in DOMAIN r.todo
      /\ \A i, k \in DOMAIN n.todo : i # k => i + 1 # k + 1
  BY TailOf
<1>3. ListsOK(u, n)
  <2>1. \A i \in DOMAIN n.todo : Outside(n.dest, n.todo[i].from)
    BY <1>1, <1>2 DEF ListsOK
  <2>2. \A i \in DOMAIN Waiting(n) : Parent(Waiting(n)[i].to) = n.dest /\ Apart(Waiting(n)[i].from, Waiting(n)[i].to)
    BY <1>1 DEF ListsOK
  <2> QED  BY <2>1, <2>2 DEF ListsOK
<1>4. PlacesOK(u, n)
  <2> SUFFICES ASSUME r.op = "move", ~Yields(r) PROVE PlacesOK(u, n)
    BY <1>1 DEF PlacesOK
  <2>1. /\ \A i \in DOMAIN r.later : /\ u[r.later[i].to] = NoEnt
                                     /\ \A k \in DOMAIN r.later : i # k => r.later[i].to # r.later[k].to
        /\ \A i \in DOMAIN r.todo :
             /\ \A k \in DOMAIN r.later : r.later[k].to \notin Landings(r.dest, r.todo[i].from)
             /\ \A k \in DOMAIN r.todo : i # k => Landings(r.dest, r.todo[i].from) \cap Landings(r.dest, r.todo[k].from) = {}
    <3>1. u = fs /\ Waiting(r) = r.later /\ FirstLoop(r) /\ r.op = "move" /\ ~Yields(r) /\ PlacesOK(fs, r)
      BY <1>1
    <3> QED  BY ONLY <3>1 DEF PlacesOK
  <2>2. InHand(n) => n.cur.to \in Landings(r.dest, r.todo[1].from)
    OBVIOUS
  <2>3. ASSUME InHand(n), NEW i \in DOMAIN r.later PROVE r.later[i].to # n.cur.to
    BY <1>2, <2>1, <2>2, <2>3
  <2>4. ASSUME NEW i \in DOMAIN n.todo
        PROVE  /\ InHand(n) => n.cur.to \notin Landings(r.dest, n.todo[i].from)
               /\ \A k \in DOMAIN r.later : r.later[k].to \notin Landings(r.dest, n.todo[i].from)
               /\ \A k \in DOMAIN n.todo : i # k => Landings(r.dest, n.todo[i].from) \cap Landings(r.dest, n.todo[k].from) = {}
    <3>1. i + 1 \in DOMAIN r.todo /\ i + 1 # 1 /\ n.todo[i] = r.todo[i + 1]
      BY <1>2
    <3>2. \A k \in DOMAIN r.later : r.later[k].to \notin Landings(r.dest, n.todo[i].from)
      BY <2>1, <3>1
    <3>3. InHand(n) => n.cur.to \notin Landings(r.dest, n.todo[i].from)
      <4>1. Landings(r.dest, r.todo[i + 1].from) \cap Landings(r.dest, r.todo[1].from) = {}
        BY <1>2, <2>1, <3>1
      <4> QED  BY <2>2, <3>1, <4>1
    <3>4. ASSUME NEW k \in DOMAIN n.todo, i # k
          PROVE  Landings(r.dest, n.todo[i].from) \cap Landings(r.dest, n.todo[k].from) = {}
      <4>1. k + 1 \in DOMAIN r.todo /\ n.todo[k] = r.todo[k + 1] /\ i + 1 # k + 1
        BY <1>2, <3>4
      <4> QED  BY <2>1, <3>1, <4>1
    <3> QED  BY <3>2, <3>3, <3>4
  <2>5. Waiting(n) = r.later /\ n.later = r.later /\ n.dest = r.dest
    BY <1>1
  <2>6. \A i \in DOMAIN Waiting(n) :
           /\ u[Waiting(n)[i].to] = NoEnt
           /\ InHand(n) => Waiting(n)[i].to # n.cur.to
           /\ \A k \in DOMAIN Waiting(n) : i # k => Waiting(n)[i].to # Waiting(n)[k].to
    BY <2>1, <2>3, <2>5
  <2>7. \A i \in DOMAIN n.todo :
           /\ InHand(n) => n.cur.to \notin Landings(n.dest, n.todo[i].from)
           /\ \A k \in DOMAIN n.later : n.later[k].to \notin Landings(n.dest, n.todo[i].from)
           /\ \A k \in DOMAIN n.todo : i # k => Landings(n.dest, n.todo[i].from) \cap Landings(n.dest, n.todo[k].from) = {}
    BY <2>4, <2>5
  <2> QED  BY ONLY <2>6, <2>7 DEF PlacesOK
<1> QED  BY <1>3, <1>4

-------------------------------------------------------------------------------
(* copy and move take an item up.                                          *)

(* Where an item goes is apart from where it is. *)
LEMMA PlaceIsApart ==
  ASSUME Core, NEW j \in Slots, job[j].at = "next", job[j].op \in {"copy", "move"}, job[j].todo # <<>>,
         NEW dst \in Destinations(j, Item(j).from), Outside(job[j].dest, Item(j).from)
  PROVE  Parted(fs, Item(j).from, dst)
<1> DEFINE src == Item(j).from
           d == job[j].dest
<1>1. /\ dst \in Paths /\ Parent(dst) = d
      /\ fs[dst] = NoEnt \/ (dst = Named(j, src) /\ Parent(src) # d)
  BY NamedIs
<1>2. src \in Paths /\ src \in Words /\ dst \in Words /\ TreeOK(fs)
  BY <1>1, ItemIs, PathsAreWords DEF Core
<1> SUFFICES ASSUME fs[src] # NoEnt PROVE Apart(src, dst)
  BY DEF Parted
<1>3. src # dst
  BY <1>1
<1>4. ~IsPrefix(src, dst)
  <2>1. IsPrefix(src, dst) => IsPrefix(src, d)
    <3> HIDE DEF src, d
    <3> QED  BY <1>1, <1>2, <1>3, ParentIs
  <2> QED  BY <2>1 DEF Outside
<1>5. ~IsPrefix(dst, src)
  <2>1. CASE fs[dst] = NoEnt
    BY <1>1, <1>2, <2>1, BelowNothing, BelowIs
  <2>2. CASE dst = Named(j, src)
    BY <1>3, <2>2 DEF Outside, Named, IsStrictPrefix
  <2> QED  BY <1>1, <2>1, <2>2
<1> QED  BY <1>4, <1>5 DEF Apart

LEMMA PlaceIsLanding ==
  ASSUME Core, NEW j \in Slots, ~Yields(job[j]), NEW src, NEW dst \in Destinations(j, src)
  PROVE  dst \in Landings(job[j].dest, src)
<1>1. dst \in FreeNames(fs, Named(j, src))
  BY DEF Destinations, Yields
<1>2. dst \in Range(Numbered(Named(j, src)))
  BY <1>1 DEF FreeNames, FirstOpen, Range
<1> QED  BY <1>2 DEF Landings, Named

(* What is known of an item that is taken up.                              *)
TakenOff(j, a, b, stage) ==
  LET r == job[j]
      n == job'[j]
  IN /\ NoOther(j) /\ SameBut(n, r, TakenFields) /\ n.todo = Tail(r.todo) /\ n.ok = TRUE /\ n.op = r.op
     /\ n.cur.from = a /\ n.cur.to = b /\ n.at = stage /\ n.had = Contents(fs, disk, a)
     /\ n.honest = r.honest /\ n.dest = r.dest /\ n.policy = r.policy /\ n.later = r.later
LEMMA TakenOffIs ==
  ASSUME Core, NEW j \in Slots, NEW stage, NEW st, NEW a, NEW b, Goes(j, stage, st, a, b)
  PROVE  TakenOff(j, a, b, stage) /\ job'[j].stack = st
<1>1. TakenUp(j, stage, st, a, b)
  BY TakenIs
<1>2. job'[j].cur.from = a /\ job'[j].cur.to = b
  BY <1>1, PairIs DEF TakenUp
<1>3. /\ job'[j].honest = job[j].honest /\ job'[j].dest = job[j].dest /\ job'[j].policy = job[j].policy
      /\ job'[j].later = job[j].later
  BY <1>1 DEF TakenUp, SameBut, Fields, TakenFields
<1> QED  BY <1>1, <1>2, <1>3 DEF TakenUp, TakenOff

(* The items of a copy, and of move's first loop.                          *)
LEMMA ItemOutside ==
  ASSUME LInv, NEW j \in Slots, job[j].at = "next", job[j].op \in {"copy", "move"}, job[j].todo # <<>>
  PROVE  /\ Outside(job[j].dest, Item(j).from) /\ Item(j).from \in Paths /\ Item(j) = job[j].todo[1]
         /\ job[j].todo \in Seq(AllPairs)
<1>1. Core /\ JobOK(job[j]) /\ ListsOK(fs, job[j])
  BY CallFrom DEF Walking
<1>2. job[j].todo \in Seq(AllPairs)
  BY <1>1 DEF JobOK
<1>3. 1 \in DOMAIN job[j].todo /\ Item(j) = job[j].todo[1]
  BY <1>2, TailOf DEF Item
<1>4. Transferring(job[j])
  BY DEF Transferring, FirstLoop
<1> QED  BY <1>1, <1>2, <1>3, <1>4, ItemIs DEF ListsOK

LEMMA SkipItemSafe ==
  ASSUME LInv, Core', NEW j \in Slots, job[j].at = "next", job[j].op \in {"copy", "move"}, job[j].todo # <<>>, Spends(j),
         Skip(j, FALSE), UNCHANGED <<fs, disk>>
  PROVE  LInv'
<1> DEFINE n == job'[j]
<1>1. Core /\ Active(j) /\ Truthful(fs, disk, job[j]) /\ ListsOK(fs, job[j]) /\ PlacesOK(fs, job[j])
  BY CallFrom DEF Walking
<1>2. NoOther(j) /\ SameBut(n, job[j], {"todo", "errs"}) /\ n.todo = Tail(job[j].todo)
  BY <1>1, SkipIs
<1>3. n.op = job[j].op /\ n.honest = job[j].honest /\ n.at = "next" /\ n.later = job[j].later /\ n.dest = job[j].dest /\ n.policy = job[j].policy
  BY <1>2 DEF SameBut, Fields
<1>4. WalkSafe(fs, disk, spent, n) /\ Truthful(fs, disk, n)
  BY <1>1, <1>3, HonestSoFar, BetweenSafe DEF Between
<1>5. ListsOK(fs, n) /\ PlacesOK(fs, n)
  <2>1. job[j].todo \in Seq(AllPairs) /\ ~InHand(n)
    BY <1>3, ItemOutside DEF InHand
  <2> HIDE DEF n
  <2> QED  BY <1>1, <1>2, <1>3, <2>1, RestOfLists
<1> QED  BY <1>1, <1>2, <1>4, <1>5, NoFileTouched DEF JobSafe

LEMMA CopyItemSafe ==
  ASSUME LInv, Core', NEW j \in Slots, job[j].at = "next", job[j].op = "copy", job[j].todo # <<>>, Spends(j), disk' = disk,
         NEW dst \in Destinations(j, Item(j).from), 
         fs' = IF IsFile(fs, dst) /\ IsDir(fs, Item(j).from) THEN Unlink(fs, dst) ELSE fs,
         Goes(j, "copying", <<Visit("copy", Item(j).from, dst)>>, Item(j).from, dst)
  PROVE  LInv'
<1> DEFINE r == job[j]
           n == job'[j]
           src == Item(j).from
           st == <<Visit("copy", src, dst)>>
<1>1. Core /\ Active(j) /\ Truthful(fs, disk, r) /\ ListsOK(fs, r) /\ PlacesOK(fs, r) /\ TreeOK(fs) /\ NoneLost(fs, disk, spent)
  BY CallFrom DEF Walking
<1>2. src \in Paths /\ Parted(fs, src, dst) /\ r.todo \in Seq(AllPairs) /\ dst \in Paths /\ (~Yields(r) => fs[dst] = NoEnt)
  BY <1>1, ItemOutside, PlaceIsApart, NamedIs DEF Yields
<1>3. TakenOff(j, src, dst, "copying") /\ n.stack = st
  <2>1. Goes(j, "copying", st, src, dst)
    OBVIOUS
  <2> HIDE DEF src, st
  <2> QED  BY ONLY <1>1, <2>1, TakenOffIs
<1>4. fs' = fs \/ \E p \in Paths : IsPrefix(dst, p) /\ fs[p] # NoEnt /\ fs' = Unlink(fs, p)
  BY <1>2, PathsAreWords, PrefixOrder, Kinds DEF IsFile
<1>5. OnlyBelow(dst) /\ \A q \in Paths : fs'[q] = fs[q] \/ fs'[q] = NoEnt
  BY <1>1, <1>4, RemovesBelow
<1>6. /\ Contents(fs, disk, src) \subseteq Contents(fs', disk', src)
      /\ \A f \in Files, p \in Paths : IsPrefix(src, p) /\ HasFile(fs, disk, p, f) => \E q \in Paths : HasFile(fs', disk', q, f)
  <2> HIDE DEF src
  <2> QED  BY <1>1, <1>2, <1>5, InHandStays
<1>7. ~Yields(r) => fs' = fs /\ spent' = spent /\ SafeFrom(fs, disk, spent, dst)
  <2> SUFFICES ASSUME ~Yields(r) PROVE fs' = fs /\ spent' = spent /\ SafeFrom(fs, disk, spent, dst)
    OBVIOUS
  <2>1. fs' = fs
    BY <1>2, Kinds DEF IsFile
  <2> QED  BY <1>1, <1>2, <2>1, NothingSpent, FreeIsSafe
<1>8. NoneLost(fs', disk', spent')
  <2>1. CASE Yields(r)
    <3>1. n.cur.from = src
      BY <1>3 DEF TakenOff
    <3> QED  BY <1>1, <1>6, <2>1, <3>1, YieldStays DEF Deletes
  <2>2. CASE ~Yields(r)
    BY <1>1, <1>7, <2>2
  <2> QED  BY <2>1, <2>2
<1>9. /\ NoOther(j) /\ n.todo = Tail(r.todo) /\ n.op = r.op /\ n.ok = TRUE
      /\ n.cur.from = src /\ n.cur.to = dst /\ n.at = "copying" /\ n.had = Contents(fs, disk, src)
      /\ n.honest = r.honest /\ n.dest = r.dest /\ n.policy = r.policy /\ n.later = r.later
  BY <1>3 DEF TakenOff
<1>10. Covered(fs', disk', n)
  <2>1. n.cur.from = src /\ n.stack = <<Visit("copy", src, dst)>>
    BY <1>3, <1>9
  <2> HIDE DEF n, src
  <2> QED  BY <1>2, <2>1, CoverStart
<1>11. WalkSafe(fs', disk', spent', n)
  <2>1. Parted(fs', src, dst)
    BY <1>2, <1>5 DEF Parted
  <2>2. ~Yields(n) => SafeFrom(fs', disk', spent', dst)
    BY <1>7, <1>9 DEF Yields
  <2> QED  BY <1>9, <1>10, <2>1, <2>2 DEF WalkSafe
<1>12. Truthful(fs', disk', n)
  BY <1>1, <1>6, <1>9 DEF Truthful
<1>13. ListsOK(fs', n) /\ PlacesOK(fs', n)
  <2>1. ~InHand(n)
    BY <1>9 DEF InHand
  <2> HIDE DEF n, src
  <2> QED  BY <1>1, <1>2, <1>9, <2>1, RestOfLists
<1> QED  BY <1>1, <1>8, <1>9, <1>11, <1>12, <1>13, StillSafe DEF JobSafe

LEMMA MoveItemSafe ==
  ASSUME LInv, Core', NEW j \in Slots, job[j].at = "next", job[j].op = "move", job[j].todo # <<>>, Spends(j), UNCHANGED <<fs, disk>>,
         NEW dst \in Destinations(j, Item(j).from), NEW st, NEW stage \in {"clearing", "rename"}, stage = "clearing" => fs[dst] # NoEnt,
         Goes(j, stage, st, Item(j).from, dst)
  PROVE  LInv'
<1> DEFINE r == job[j]
           n == job'[j]
           src == Item(j).from
<1>1. Core /\ Active(j) /\ Truthful(fs, disk, r) /\ ListsOK(fs, r) /\ PlacesOK(fs, r)
  BY CallFrom DEF Walking
<1>2. src \in Paths /\ Parted(fs, src, dst) /\ r.todo \in Seq(AllPairs) /\ dst \in Paths /\ (~Yields(r) => fs[dst] = NoEnt)
      /\ Parent(dst) = r.dest /\ src = r.todo[1].from
  BY <1>1, ItemOutside, PlaceIsApart, NamedIs DEF Yields
<1>3. TakenOff(j, src, dst, stage)
  <2>1. Goes(j, stage, st, src, dst)
    OBVIOUS
  <2> HIDE DEF src
  <2> QED  BY ONLY <1>1, <2>1, TakenOffIs
<1>4. /\ NoOther(j) /\ n.todo = Tail(r.todo) /\ n.op = r.op
      /\ n.cur.from = src /\ n.cur.to = dst /\ n.at = stage /\ n.had = Contents(fs, disk, src)
      /\ n.honest = r.honest /\ n.dest = r.dest /\ n.policy = r.policy /\ n.later = r.later
  BY <1>3 DEF TakenOff
<1>5. WalkSafe(fs, disk, spent, n)
  BY <1>2, <1>4 DEF WalkSafe, Yields
<1>6. Truthful(fs, disk, n)
  BY <1>1, <1>4 DEF Truthful
<1>7. ListsOK(fs, n) /\ PlacesOK(fs, n)
  <2>1. ~Yields(r) => dst \in Landings(r.dest, r.todo[1].from)
    BY <1>1, <1>2, PlaceIsLanding
  <2> HIDE DEF n, src
  <2> QED  BY <1>1, <1>2, <1>4, <2>1, RestOfLists
<1> QED  BY <1>1, <1>4, <1>5, <1>6, <1>7, NoFileTouched DEF JobSafe

LEMMA TransferItemSafe == ASSUME LInv, Core', NEW j \in Slots, TransferItem(j), Spends(j) PROVE LInv'
<1>1. job[j].at = "next" /\ job[j].op \in {"copy", "move"} /\ job[j].todo # <<>> /\ disk' = disk
  BY DEF TransferItem, Taking, At
<1>2. CASE Skip(j, FALSE) /\ UNCHANGED fs
  BY <1>1, <1>2, SkipItemSafe
<1>3. ASSUME NEW dst \in Destinations(j, Item(j).from), job[j].op = "copy",
             fs' = IF IsFile(fs, dst) /\ IsDir(fs, Item(j).from) THEN Unlink(fs, dst) ELSE fs,
             Goes(j, "copying", <<Visit("copy", Item(j).from, dst)>>, Item(j).from, dst)
      PROVE  LInv'
  BY <1>1, <1>3, CopyItemSafe
<1>4. ASSUME NEW dst \in Destinations(j, Item(j).from), job[j].op = "move", UNCHANGED fs, Exists(fs, dst),
             Goes(j, "clearing", <<Visit("rm", dst, <<>>)>>, Item(j).from, dst)
      PROVE  LInv'
  BY <1>1, <1>4, MoveItemSafe DEF Exists
<1>5. ASSUME NEW dst \in Destinations(j, Item(j).from), job[j].op = "move", UNCHANGED fs,
             Goes(j, "rename", <<>>, Item(j).from, dst)
      PROVE  LInv'
  BY <1>1, <1>5, MoveItemSafe
<1> QED  BY <1>1, <1>2, <1>3, <1>4, <1>5 DEF TransferItem, Goes

-------------------------------------------------------------------------------
(* The user's side, and the start.                                         *)

LEMMA CallSafe ==
  ASSUME LInv, Core', TrashNearby, NEW j \in Slots, CallStep(j), Spends(j)
  PROVE  LInv'
BY MeasureSafe, LoopOverSafe, TransferItemSafe, MoveBackItemSafe, RemoveItemSafe, ListTrashSafe, RemoveRecordSafe, TrashItemSafe,
   RestoreItemSafe, RenameSafe, CopyAcrossSafe, ClearedSafe, CopiedSafe, RemovedSafe, UnwoundSafe, UnrecordSafe, ForgetDeletedSafe
   DEF CallStep

(* The user's side touches no file. *)
LEMMA UserSafe ==
  ASSUME LInv, Core', NEW j \in Slots, NoOther(j), UNCHANGED <<fs, disk, spent>>, JobSafe(fs, disk, spent, job'[j])
  PROVE  LInv'
<1>1. \A i \in Slots : JobSafe(fs', disk', spent', job'[i])
  BY DEF LInv, NoOther
<1> QED  BY <1>1 DEF LInv

LEMMA CommandSafe ==
  ASSUME LInv, Core', NamesApart, NotOverItsFolder, NEW j \in Slots, NEW c \in Commands, Command(j, c)
  PROVE  LInv'
<1> DEFINE items == [i \in DOMAIN c.args |-> Pair(c.args[i], <<>>)]
           n == job'[j]
<1>1. job[j].at = "unused" /\ UNCHANGED <<fs, disk, spent>> /\ Core
  BY DEF Command, Free, LInv
<1>2. PICK policy \in Policies(c) :
        job' = Put(j, [op |-> c.op, at |-> FirstStage(c.op), args |-> c.args, dest |-> c.dest, policy |-> policy, was |-> View, todo |-> items])
  BY DEF Command
<1> DEFINE r == [op |-> c.op, at |-> FirstStage(c.op), args |-> c.args, dest |-> c.dest, policy |-> policy, was |-> View, todo |-> items]
<1>3. DOMAIN r = {"op", "at", "args", "dest", "policy", "was", "todo"} /\ r.op = c.op /\ r.at = FirstStage(c.op) /\ r.dest = c.dest
      /\ r.todo = items /\ job' = Put(j, r)
  BY <1>2
<1> HIDE DEF r
<1>4. c.args \in Seq(Paths) /\ c.op \in {"copy", "move", "trash", "remove", "restore", "empty"}
  BY CommandsAssumption
<1>5. DOMAIN items = DOMAIN c.args /\ \A i \in DOMAIN c.args : items[i].from = c.args[i]
  BY PairIs
<1>6. \A i \in DOMAIN c.args : c.args[i] \in Range(c.args) /\ c.args[i] \in Paths
  BY <1>4 DEF Range
<1> HIDE DEF items
<1>7. DOMAIN r \subseteq Starting
  BY <1>3 DEF Starting
<1>8. /\ NoOther(j)
      /\ \A x \in DOMAIN r : n[x] = r[x]
      /\ \A x \in Fields \ DOMAIN r : n[x] = Fresh[x]
  BY <1>1, <1>3, <1>7, Starts
<1>9. n.op = c.op /\ n.at = FirstStage(c.op) /\ n.dest = c.dest /\ n.todo = items /\ n.later = <<>> /\ n.honest = TRUE
  BY <1>3, <1>8 DEF Fields, Fresh
<1>10. n.at \in Between \cup Resting
  BY <1>9 DEF FirstStage, Between, Resting
<1> HIDE DEF n
<1>11. WalkSafe(fs, disk, spent, n) /\ Truthful(fs, disk, n)
  BY <1>9, <1>10, BetweenSafe
<1>12. ~InHand(n) /\ Waiting(n) = <<>> /\ DOMAIN Waiting(n) = {}
  BY <1>4, <1>9, <1>10 DEF InHand, Waiting, FirstLoop, SecondLoop, FirstStage, Between, Resting
<1>13. ASSUME c.op \in {"copy", "move"}, NEW i \in DOMAIN c.args PROVE Outside(c.dest, c.args[i])
  <2> DEFINE p == c.args[i]
  <2>1. p \in Paths /\ p \in Range(c.args) /\ fs[p] # NoEnt /\ fs[c.dest] = Dir /\ ~Refused(c)
    BY <1>6, <1>13 DEF Command
  <2>2. c.dest \in Paths
    BY <1>13, CommandsAssumption
  <2>3. ~IsPrefix(p, c.dest)
    <3>1. IsPrefix(p, c.dest) => fs[p] = Dir
      BY <1>1, <2>1, <2>2, Kinds DEF Core, TreeOK
    <3> QED  BY <2>1, <3>1 DEF Refused, IsDir
  <2>4. ~IsStrictPrefix(Append(c.dest, Last(p)), p)
    BY <1>13, <2>1 DEF NotOverItsFolder
  <2> QED  BY <2>3, <2>4 DEF Outside
<1>14. ListsOK(fs, n)
  <2>1. Transferring(n) => c.op \in {"copy", "move"}
    BY <1>9 DEF Transferring, FirstLoop
  <2> QED  BY <1>5, <1>9, <1>12, <1>13, <2>1 DEF ListsOK
<1>15. PlacesOK(fs, n)
  <2>1. c.op = "move" => \A i, k \in DOMAIN c.args : i # k => Landings(c.dest, c.args[i]) \cap Landings(c.dest, c.args[k]) = {}
    BY DEF NamesApart
  <2>2. DOMAIN n.later = {}
    BY <1>9
  <2>3. \A i \in DOMAIN Waiting(n) :
           /\ fs[Waiting(n)[i].to] = NoEnt
           /\ InHand(n) => Waiting(n)[i].to # n.cur.to
           /\ \A k \in DOMAIN Waiting(n) : i # k => Waiting(n)[i].to # Waiting(n)[k].to
    BY <1>12
  <2>4. n.todo = items /\ DOMAIN n.todo = DOMAIN c.args /\ \A i \in DOMAIN c.args : n.todo[i].from = c.args[i]
    BY <1>5, <1>9
  <2>5. ASSUME c.op = "move", NEW i \in DOMAIN n.todo, NEW k \in DOMAIN n.todo, i # k
        PROVE  Landings(n.dest, n.todo[i].from) \cap Landings(n.dest, n.todo[k].from) = {}
    <3>1. i \in DOMAIN c.args /\ k \in DOMAIN c.args /\ n.todo[i].from = c.args[i] /\ n.todo[k].from = c.args[k] /\ n.dest = c.dest
      BY <1>9, <2>4, <2>5
    <3>2. Landings(c.dest, c.args[i]) \cap Landings(c.dest, c.args[k]) = {}
      BY ONLY <2>1, <2>5, <3>1
    <3> QED  BY <3>1, <3>2
  <2>6. c.op = "move" =>
          \A i \in DOMAIN n.todo :
           /\ InHand(n) => n.cur.to \notin Landings(n.dest, n.todo[i].from)
           /\ \A k \in DOMAIN n.later : n.later[k].to \notin Landings(n.dest, n.todo[i].from)
           /\ \A k \in DOMAIN n.todo : i # k => Landings(n.dest, n.todo[i].from) \cap Landings(n.dest, n.todo[k].from) = {}
    BY <1>12, <2>2, <2>5
  <2>7. n.op = c.op
    BY <1>9
  <2> QED  BY ONLY <2>3, <2>6, <2>7 DEF PlacesOK
<1>16. JobSafe(fs, disk, spent, job'[j])
  BY <1>11, <1>14, <1>15 DEF JobSafe, n
<1> QED  BY <1>1, <1>8, <1>16, UserSafe

LEMMA UndoSafe == ASSUME LInv, Core', NEW j \in Slots, Undo(j) PROVE LInv'
<1> DEFINE step == Last(undo)
           op == UndoOp(step.kind)
           arg(p) == IF op = "moveBack" THEN p ELSE Pair(p.to, <<>>)
           items == [i \in DOMAIN step.pairs |-> arg(step.pairs[i])]
           n == job'[j]
<1>1. job[j].at = "unused" /\ UNCHANGED <<fs, disk, spent>> /\ undo # <<>> /\ Core
  BY DEF Undo, Free, LInv
<1>2. StepOK(step)
  BY <1>1, UndoShrinks DEF Core, UndoOK
<1> DEFINE r == [op |-> op, at |-> "next", step |-> step, todo |-> items]
<1>3. DOMAIN r = {"op", "at", "step", "todo"} /\ r.op = op /\ r.at = "next" /\ job' = Put(j, r)
  BY DEF Undo
<1> HIDE DEF r
<1>4. op \in {"trash", "restore", "moveBack"}
  BY <1>2 DEF UndoOp, StepOK
<1> HIDE DEF op, items, step
<1>5. DOMAIN r \subseteq Starting
  BY <1>3 DEF Starting
<1>6. /\ NoOther(j)
      /\ \A x \in DOMAIN r : n[x] = r[x]
      /\ \A x \in Fields \ DOMAIN r : n[x] = Fresh[x]
  BY <1>1, <1>3, <1>5, Starts
<1>7. n.op = op /\ n.at = "next" /\ n.honest = TRUE
  BY <1>3, <1>6 DEF Fields, Fresh
<1>8. WalkSafe(fs, disk, spent, n) /\ Truthful(fs, disk, n)
  BY <1>7, BetweenSafe DEF Between
<1>9. ListsOK(fs, n) /\ PlacesOK(fs, n)
  BY <1>4, <1>7, NoPlaces
<1> QED  BY <1>1, <1>6, <1>8, <1>9, UserSafe DEF JobSafe

LEMMA CancelSafe == ASSUME LInv, Core', NEW j \in Slots, Cancel(j) PROVE LInv'
<1> DEFINE n == job'[j]
           o == job[j]
           r == [cancel |-> TRUE]
<1>1. UNCHANGED <<fs, disk, spent>> /\ job' = Put(j, r) /\ DOMAIN r = {"cancel"} /\ Core
  BY DEF Cancel, LInv
<1> HIDE DEF r
<1>2. DOMAIN r \subseteq Fields
  BY <1>1 DEF Fields
<1>3. NoOther(j) /\ SameBut(n, o, DOMAIN r)
  BY <1>1, <1>2, PutCore
<1>4. /\ n.op = o.op /\ n.at = o.at /\ n.todo = o.todo /\ n.later = o.later /\ n.dest = o.dest /\ n.policy = o.policy /\ n.cur = o.cur
      /\ n.stack = o.stack /\ n.ok = o.ok /\ n.had = o.had /\ n.honest = o.honest
  BY <1>1, <1>3 DEF SameBut, Fields
<1>5. JobSafe(fs, disk, spent, o)
  BY DEF LInv
<1> HIDE DEF n, o
<1>6. /\ Waiting(n) = Waiting(o) /\ (InHand(n) <=> InHand(o)) /\ (FirstLoop(n) <=> FirstLoop(o)) /\ (Yields(n) <=> Yields(o))
      /\ (Transferring(n) <=> Transferring(o)) /\ (Deletes(n) <=> Deletes(o)) /\ \A q : Pending(n, q) <=> Pending(o, q)
  BY <1>4 DEF Waiting, InHand, FirstLoop, SecondLoop, Yields, Transferring, Deletes, Pending
<1>7. Covered(fs, disk, n) <=> Covered(fs, disk, o)
  BY <1>4, <1>6 DEF Covered
<1>8. WalkSafe(fs, disk, spent, n)
  BY <1>4, <1>5, <1>6, <1>7 DEF JobSafe, WalkSafe
<1>9. Truthful(fs, disk, n)
  BY <1>4, <1>5 DEF JobSafe, Truthful
<1>10. ListsOK(fs, n)
  BY <1>4, <1>5, <1>6 DEF JobSafe, ListsOK
<1>11. PlacesOK(fs, n)
  BY <1>4, <1>5, <1>6 DEF JobSafe, PlacesOK
<1>12. JobSafe(fs, disk, spent, job'[j])
  BY <1>8, <1>9, <1>10, <1>11 DEF JobSafe, n
<1> QED  BY <1>1, <1>3, <1>12, UserSafe

LEMMA CallbackSafe == ASSUME LInv, Core', NEW j \in Slots, Callback(j) PROVE LInv'
<1>1. UNCHANGED <<fs, disk, spent>> /\ ToStage(j, "ended") /\ Core
  BY DEF Callback, ToStage, LInv
<1>2. NoOther(j) /\ SameBut(job'[j], job[j], {"at", "errs"}) /\ job'[j].at = "ended"
  BY <1>1, StageIs
<1>3. job'[j].op = job[j].op /\ job'[j].honest = job[j].honest /\ Truthful(fs, disk, job[j])
  BY <1>2 DEF SameBut, Fields, LInv, JobSafe
<1>4. job'[j].op # "moveBack" => job'[j].honest = TRUE
  BY <1>3, HonestSoFar
<1> DEFINE n == job'[j]
<1>5. n.at \in Resting /\ (n.op # "moveBack" => n.honest = TRUE)
  BY <1>2, <1>4 DEF Resting
<1> HIDE DEF n
<1>6. JobSafe(fs, disk, spent, n)
  BY <1>5, RestingSafe
<1>7. JobSafe(fs, disk, spent, job'[j])
  BY <1>6 DEF n
<1> QED  BY <1>1, <1>2, <1>7, UserSafe

LEMMA SafeAtFirst == ASSUME FilesInit PROVE LInv
<1>1. Core
  BY FilesAtFirst DEF BInv
<1>2. NoneLost(fs, disk, spent)
  <2> SUFFICES ASSUME NEW f \in Files PROVE \E q \in Paths : HasFile(fs, disk, q, f)
    BY DEF NoneLost
  <2>1. PICK p \in Paths : Tree[p] = f /\ f \notin {NoEnt, Dir}
    BY DEF Files
  <2>2. f \in Inodes /\ fs[p] = f
    BY <2>1, PlacesAssumption DEF FilesInit
  <2>3. disk[f] = AllOf(f)
    BY <2>2 DEF FilesInit, AllOf
  <2> QED  BY <2>2, <2>3 DEF HasFile
<1>3. ASSUME NEW j \in Slots PROVE JobSafe(fs, disk, spent, job[j])
  <2>1. job[j] = Fresh
    BY DEF FilesInit
  <2>2. Fresh.at \in Resting /\ Fresh.honest = TRUE
    BY DEF Fresh, Resting
  <2> QED  BY <2>1, <2>2, RestingSafe
<1> QED  BY <1>1, <1>2, <1>3 DEF LInv

-------------------------------------------------------------------------------
(* The invariant, and what follows from it.                                *)

LEMMA KeepsSafe ==
  ASSUME Together = {}, "flush" \notin FaultKinds, TrashNearby, NamesApart, NotOverItsFolder, BInv, LInv, [FilesNext]_filesVars
  PROVE  LInv'
<1>1. Core'
  BY KeepsFilesNext DEF BInv
<1>2. CASE UNCHANGED filesVars
  <2>1. UNCHANGED <<fs, disk, job, spent>>
    BY <1>2 DEF filesVars
  <2> QED  BY <1>1, <2>1 DEF LInv
<1>3. ASSUME NEW j \in Slots, WorkerStep(j) PROVE LInv'
  <2>1. Spends(j) /\ (TreeStep(j) \/ CallStep(j))
    BY <1>3 DEF WorkerStep, Spends
  <2> QED  BY <1>1, <2>1, TreeSafe, CallSafe
<1>4. ASSUME NEW j \in Slots, Callback(j) \/ Cancel(j) \/ Undo(j) \/ \E c \in Commands : Command(j, c) PROVE LInv'
  BY <1>1, <1>4, CallbackSafe, CancelSafe, UndoSafe, CommandSafe
<1> QED  BY <1>2, <1>3, <1>4 DEF FilesNext

LEMMA SafetyInvariant ==
  ASSUME Together = {}, "flush" \notin FaultKinds, TrashNearby, NamesApart, NotOverItsFolder
  PROVE  FilesSpec => []LInv
<1>1. FilesInit => BInv /\ LInv
  BY FilesAtFirst, SafeAtFirst
<1>2. BInv /\ LInv /\ [FilesNext]_filesVars => BInv' /\ LInv'
  BY KeepsFilesNext, KeepsSafe
<1> QED  BY <1>1, <1>2, PTL DEF FilesSpec

(* No file is lost: whatever fails, is cancelled or is undone, each file    *)
(* has at every moment a whole copy somewhere, unless a command given to   *)
(* delete or replace it took it: "the original removed only once its copy  *)
(* is whole" (FileJobs.h:9, FileJobs.cpp:538), and a name freeName found   *)
(* free for a move is free still when the copy across drives comes to it.  *)
THEOREM FilesAreNeverLost ==
  ASSUME Together = {}, "flush" \notin FaultKinds, TrashNearby, NamesApart, NotOverItsFolder
  PROVE  FilesSpec => []NothingLost
<1>1. LInv => NothingLost
  BY KeptIs DEF LInv
<1> QED  BY <1>1, SafetyInvariant, PTL

(* "Every call returns what went where" (FileJobs.h:15): where a command    *)
(* but for undo's moveBack says it put something, there is at that moment  *)
(* all that was in it when the command took it up.  Undo builds on that.   *)
THEOREM CallersAreToldTheTruth ==
  ASSUME Together = {}, "flush" \notin FaultKinds, TrashNearby, NamesApart, NotOverItsFolder
  PROVE  FilesSpec => []CommandsReportTruly
<1>1. LInv => CommandsReportTruly
  BY DEF LInv, JobSafe, Truthful, CommandsReportTruly
<1> QED  BY <1>1, SafetyInvariant, PTL

-------------------------------------------------------------------------------
(***************************************************************************)
(* ShellJobs.  The invariants are not inductive alone: that a live job is  *)
(* Running and listed rests on "Running" meaning "its end was not          *)
(* delivered", and on a job that was never started not being listed.       *)
(***************************************************************************)
(* Job::state leaves Running exactly when the end is delivered. *)
RunningUntilEnded == \A j \in Jobs : state[j] = "Running" <=> at[j] # "ended"

(* m_jobs holds started jobs only, and every live one. *)
ListedAreStarted == \A j \in Jobs : /\ j \in listed => at[j] # "new"
                                    /\ Live(j) => j \in listed

IInv == /\ TypeOK
        /\ RunningUntilEnded
        /\ ListedAreStarted
        /\ TickWhileRunning
        /\ QuitLeavesNothingBehind

USE DEF Stages, States, UiModes, Dispatching

(* The initial state satisfies the inductive invariant. *)
LEMMA InitIInv == Init => IInv
  BY DEF Init, IInv, TypeOK, RunningUntilEnded, ListedAreStarted, TickWhileRunning,
         QuitLeavesNothingBehind, Live, Running

(* Every handler and every thread step preserves it. *)
LEMMA NextIInv == IInv /\ [Next]_vars => IInv'
<1> SUFFICES ASSUME IInv, [Next]_vars
             PROVE  IInv'
  OBVIOUS
<1> USE DEF IInv, TypeOK, RunningUntilEnded, ListedAreStarted, TickWhileRunning,
            QuitLeavesNothingBehind, Live, Running
<1>1. ASSUME NEW j \in Jobs, Start(j) PROVE IInv'
  BY <1>1 DEF Start
<1>2. ASSUME NEW j \in Jobs, TakeUp(j) PROVE IInv'
  BY <1>2 DEF TakeUp
<1>3. ASSUME NEW j \in Jobs, WorkReturns(j) PROVE IInv'
  BY <1>3 DEF WorkReturns
<1>4. ASSUME NEW j \in Jobs, Deliver(j) PROVE IInv'
  BY <1>4 DEF Deliver, VerdictOf
<1>5. ASSUME NEW j \in Jobs, CancelOne(j) PROVE IInv'
  BY <1>5 DEF CancelOne
<1>6. CASE Tick
  BY <1>6 DEF Tick
<1>7. CASE CancelAll
  BY <1>7 DEF CancelAll, CancelRunning
<1>8. CASE ClearFinished
  BY <1>8 DEF ClearFinished
<1>9. CASE Close
  BY <1>9 DEF Close
<1>10. CASE AnswerNo
  BY <1>10 DEF AnswerNo
<1>11. CASE AnswerYes
  BY <1>11 DEF AnswerYes, CancelRunning
<1>12. CASE WaitEnds
  BY <1>12 DEF WaitEnds
<1>13. CASE Destroy
  BY <1>13 DEF Destroy, CancelRunning
<1>14. CASE Exit
  BY <1>14 DEF Exit
<1>15. CASE UNCHANGED vars
  BY <1>15 DEF vars
<1> QED
  BY <1>1, <1>2, <1>3, <1>4, <1>5, <1>6, <1>7, <1>8, <1>9, <1>10, <1>11,
     <1>12, <1>13, <1>14, <1>15 DEF Next

(* Every reachable state of the manager satisfies the inductive invariant. *)
THEOREM Invariant == Spec => []IInv
  BY InitIInv, NextIInv, PTL DEF Spec

(* A job whose end was not delivered is Running and listed, so running(),   *)
(* cancelAll() and the close question see it, for any number of jobs.       *)
THEOREM LiveJobsAreListed == Spec => []LiveJobsListed
<1>1. IInv => LiveJobsListed
  BY DEF IInv, RunningUntilEnded, ListedAreStarted, LiveJobsListed, Live, Running
<1> QED
  BY <1>1, Invariant, PTL

(* The refresh timer is on while anything is Running. *)
THEOREM TimerCoversRunning == Spec => []TickWhileRunning
<1>1. IInv => TickWhileRunning
  BY DEF IInv
<1> QED
  BY <1>1, Invariant, PTL

(* Past the close, whatever is unfinished or undelivered was cancelled. *)
THEOREM QuitIsClean == Spec => []QuitLeavesNothingBehind
<1>1. IInv => QuitLeavesNothingBehind
  BY DEF IInv
<1> QED
  BY <1>1, Invariant, PTL

(* A delivered verdict never changes. *)
THEOREM VerdictsAreFinal == Spec => VerdictIsFinal
<1>1. ASSUME TypeOK, [Next]_vars
      PROVE  [\A j \in Jobs : at[j] = "ended" => state'[j] = state[j]]_vars
  <2>1. ASSUME NEW j \in Jobs, Deliver(j)
        PROVE  \A k \in Jobs : at[k] = "ended" => state'[k] = state[k]
    BY <1>1, <2>1 DEF Deliver, TypeOK
  <2>2. CASE UNCHANGED vars
    BY <2>2 DEF vars
  <2>3. CASE UNCHANGED state
    BY <2>3
  <2> QED
    BY <1>1, <2>1, <2>2, <2>3
       DEF Next, Start, TakeUp, WorkReturns, CancelOne, Tick, CancelAll,
           ClearFinished, Close, AnswerNo, AnswerYes, WaitEnds, Destroy, Exit
<1>2. IInv => TypeOK
  BY DEF IInv
<1> QED
  BY <1>1, <1>2, Invariant, PTL DEF Spec, VerdictIsFinal

-------------------------------------------------------------------------------
(* The manager implements JobPromise: starts begin jobs, deliveries settle  *)
(* them on a verdict that says Cancelled exactly when a stop was asked for, *)
(* every cancel is an Ask, and all else stutters.                           *)
THEOREM PromiseKept == Spec => KeepsPromise
<1> DEFINE verdictMap == [j \in Jobs |-> IF at[j] = "new" THEN "Unstarted" ELSE state[j]]
<1>1. Init => Promise!PInit
  BY DEF Init, Promise!PInit
<1>2. ASSUME IInv, [Next]_vars
      PROVE  [Promise!PNext]_(Promise!pvars)
  <2> USE <1>2 DEF IInv, TypeOK, RunningUntilEnded, ListedAreStarted, Promise!pvars
  <2>1. ASSUME NEW j \in Jobs, Start(j) PROVE Promise!Begin(j)
    BY <2>1 DEF Start, Promise!Begin
  <2>2. ASSUME NEW j \in Jobs, Deliver(j) PROVE Promise!Settle(j)
    <3>1. /\ state[j] = "Running" /\ cancel' = cancel
          /\ verdictMap' = [verdictMap EXCEPT ![j] = VerdictOf(j)]
      BY <2>2 DEF Deliver
    <3>2. /\ VerdictOf(j) \in Promise!Verdicts
          /\ (VerdictOf(j) = "Cancelled") <=> cancel[j]
      BY DEF VerdictOf, Promise!Verdicts
    <3> QED
      BY <2>2, <3>1, <3>2 DEF Deliver, Promise!Settle
  <2>3. ASSUME NEW j \in Jobs, CancelOne(j) PROVE Promise!Ask({j})
    BY <2>3 DEF CancelOne, Promise!Ask
  <2>4. ASSUME CancelRunning, UNCHANGED <<at, state>>
        PROVE  Promise!Ask(Running)
    BY <2>4 DEF CancelRunning, Promise!Ask, Running
  <2>5. Running \in SUBSET Jobs
    BY DEF Running
  <2>6. ASSUME NEW j \in Jobs, TakeUp(j) \/ WorkReturns(j)
        PROVE  UNCHANGED <<verdictMap, cancel>>
    BY <2>6 DEF TakeUp, WorkReturns
  <2>7. ASSUME UNCHANGED <<at, state, cancel>>
        PROVE  UNCHANGED <<verdictMap, cancel>>
    BY <2>7
  <2>8. CASE CancelAll \/ AnswerYes \/ Destroy
    BY <2>8, <2>4, <2>5 DEF CancelAll, AnswerYes, Destroy, Promise!PNext
  <2>9. CASE Tick \/ ClearFinished \/ Close \/ AnswerNo \/ WaitEnds \/ Exit \/ UNCHANGED vars
    BY <2>9, <2>7 DEF Tick, ClearFinished, Close, AnswerNo, WaitEnds, Exit, vars
  <2>10. CASE \E j \in Jobs : \/ Start(j) \/ TakeUp(j) \/ WorkReturns(j)
                              \/ Deliver(j) \/ CancelOne(j)
    BY <2>10, <2>1, <2>2, <2>3, <2>6 DEF Promise!PNext
  <2> QED
    BY <2>8, <2>9, <2>10 DEF Next
<1> QED
  BY <1>1, <1>2, Invariant, PTL DEF Spec, KeepsPromise, Promise!PSpec
===============================================================================
