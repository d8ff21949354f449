------------------------------- MODULE FileTree -------------------------------
(***************************************************************************)
(* The file system syn-shell's file jobs work on, as far as they can tell  *)
(* it apart: a tree of names over inodes.  A path is a sequence of names   *)
(* whose head is a top folder; what is at a path is nothing, a folder, or  *)
(* the number of an inode holding Chunks chunks of data.  Symbolic links,  *)
(* permissions and times are left out.                                     *)
(***************************************************************************)
EXTENDS Integers, Sequences, SequencesExt, FiniteSets

CONSTANTS Paths,   \* the finite universe of paths, closed under prefixes
          Volume,  \* [top folders -> volumes]: rename works within one
          Alias,   \* [names -> sequences of names]: "name (2)", "name (3)", ...
          Chunks,  \* chunks per file: kChunk blocks, the last one a short tail
          Inodes   \* a set of positive integers

(* Every path has its folders; a name that is no path is one the system     *)
(* does not take, as it does not take one that is too long.                 *)
ASSUME PathsAssumption ==
  /\ \A p \in Paths : p # <<>> /\ p \in Seq(UNION {Range(q) : q \in Paths})
  /\ \A p \in Paths : \A n \in 1 .. Len(p) : SubSeq(p, 1, n) \in Paths
ASSUME DataAssumption == Chunks \in Nat \ {0} /\ Inodes \subseteq Nat \ {0}

NoEnt == 0
Dir == -1

Parent(p) == Front(p)
Below == [p \in Paths |-> {q \in Paths : IsPrefix(p, q)}]
Kids == [p \in Paths |-> {q \in Paths : Len(q) = Len(p) + 1 /\ IsPrefix(p, q)}]
VolumeOf(p) == Volume[Head(p)]

(* The path that has under b the place q has under a. *)
Rebase(q, a, b) == b \o SubSeq(q, Len(a) + 1, Len(q))

Exists(tree, p) == p \in Paths /\ tree[p] # NoEnt
IsFile(tree, p) == p \in Paths /\ tree[p] \in Inodes
IsDir(tree, p) == p \in Paths /\ tree[p] = Dir
KidsIn(tree, p) == SetToSeq({q \in Kids[p] : Exists(tree, q)})
HasDir(tree, p) == p \in Paths /\ IsDir(tree, Parent(p))

(* p, "p (2)", "p (3)", ..., and the first of them that is open. *)
Numbered(p) == [i \in 1..(1 + Len(Alias[Last(p)])) |->
                  IF i = 1 THEN p ELSE Append(Parent(p), Alias[Last(p)][i - 1])]
FirstOpen(p, open) == LET at == {i \in DOMAIN Numbered(p) : Numbered(p)[i] \in open}
                      IN {Numbered(p)[i] : i \in {k \in at : \A l \in at : k <= l}}

(* freeName: "notes.txt" -> "notes (2).txt" until nothing has that name. *)
FreeNames(tree, p) == FirstOpen(p, {q \in Paths : tree[q] = NoEnt})

Unlink(tree, p) == [tree EXCEPT ![p] = NoEnt]

(* mkpath: p and every missing folder above it. *)
MkPath(tree, p) == [q \in Paths |-> IF IsPrefix(q, p) THEN Dir ELSE tree[q]]
CanMkPath(tree, p) == \A q \in Paths : IsPrefix(q, p) => ~IsFile(tree, q)

(* rename(2): what it answers, and the tree after it.  The cross-device     *)
(* test comes before the last component is looked up.                       *)
Fits(tree, a, b) == \A q \in Below[a] : tree[q] # NoEnt => Rebase(q, a, b) \in Paths
RenameErr(tree, a, b) ==
  IF VolumeOf(a) # VolumeOf(b) THEN "EXDEV"
  ELSE IF ~Exists(tree, a) \/ ~HasDir(tree, b) THEN "ENOENT"
  ELSE IF IsStrictPrefix(a, b) THEN "EINVAL"
  ELSE IF IsStrictPrefix(b, a) THEN "ENOTEMPTY"
  ELSE IF IsDir(tree, a) /\ IsFile(tree, b) THEN "ENOTDIR"
  ELSE IF IsFile(tree, a) /\ IsDir(tree, b) THEN "EISDIR"
  ELSE IF IsDir(tree, a) /\ \E q \in Kids[b] : tree[q] # NoEnt THEN "ENOTEMPTY"
  ELSE IF ~Fits(tree, a, b) THEN "ENAMETOOLONG"
  ELSE "ok"

Renamed(tree, a, b) ==
  [q \in Paths |-> IF q \in Below[b]
                   THEN LET p == Rebase(q, b, a)
                        IN IF p \in Paths THEN tree[p] ELSE NoEnt
                   ELSE IF q \in Below[a] THEN NoEnt ELSE tree[q]]

(* The files under p, each with its place under p and its data. *)
Contents(tree, data, p) ==
  {<<SubSeq(q, Len(p) + 1, Len(q)), data[tree[q]]>> : q \in {r \in Below[p] : tree[r] \in Inodes}}
===============================================================================
